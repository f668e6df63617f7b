----------------------------- MODULE GraphLoad ------------------------------
(***************************************************************************)
(* The knowledge graph is built from fact_trade and the reference files by *)
(* make kg-load (src/ceynex/kg/load.py and kg/loaders/), one write at a    *)
(* time, each its own transaction, while sources may be ingested.  Nothing *)
(* is ever removed from the graph: every write is a MERGE.                 *)
(***************************************************************************)
EXTENDS Ingest

CONSTANTS FlowSource,          \* the source whose annual partner rows become edges
          LoadOptions,         \* the parts a command asks for
          MaxLoads

VARIABLES nodes,   \* <<label, name>>
          edges,   \* <<type, from, to>> of the reference files
          flows,   \* EXPORTS_TO: <<item, partner>> -> amount
          load, loads
graphVars == <<nodes, edges, flows, load, loads>>

\* The reference files: what is covered by which agreement, and who issued a document.
Agreement == <<"TradeAgreement", "GSP+">>
Chapter == <<"HSCode", "09">>
Heading == <<"HSCode", "0902">>
Document == <<"PolicyDocument", "doc">>
Country(p) == <<"Country", p>>
Item(i) == <<"Item", i>>
IssuedBy == "c1"

\* run: the parts in their order, each a list of writes; "flows" stands for one write for
\* each batch of edges.
\* Mutant: agriculture before the agreements it refers to.
Writes_AgricultureFirst ==
  <<"commodities", "supported", "agreements", "coverage", "countries", "items", "flows",
    "documents", "issued", "describes">>

Writes == <<"agreements", "coverage", "commodities", "supported", "countries", "items", "flows",
            "documents", "issued", "describes">>
PartOf == [agreements |-> "agreements", coverage |-> "agreements", commodities |-> "agriculture",
           supported |-> "agriculture", countries |-> "flows", items |-> "flows", flows |-> "flows",
           documents |-> "policy", issued |-> "policy", describes |-> "policy"]
Parts == {"agreements", "agriculture", "flows", "policy"}
NotLoading == [pc |-> "idle", at |-> 1, parts |-> {}, rows |-> {}, left |-> {}]

GraphInit ==
  /\ nodes = {} /\ edges = {} /\ flows = <<>>
  /\ load = NotLoading /\ loads = 0

-----------------------------------------------------------------------------
(* The projection of the facts.                                            *)

\* SELECT_FLOWS: one row for each item, HS code, partner and year, World left out.
FlowRows ==
  {[obs |-> r.obs, amount |-> r.amount] : r \in {q \in fact : q.source = FlowSource /\ PartnerOf[q.obs] # World}}

\* The total of an item's exports to a partner, over its HS codes.
Total(rows, i, p) ==
  MapThenSumSet(LAMBDA r : r.amount, {r \in rows : ItemOf[r.obs] = i /\ PartnerOf[r.obs] = p})

Present(edge) == edge[2] \in nodes /\ edge[3] \in nodes
\* MATCH finds both ends or writes nothing; MERGE makes what is missing.
MatchEdge(edge) == edges' = edges \cup {e \in {edge} : Present(e)} /\ UNCHANGED nodes
MergeEdge(edge) == edges' = edges \cup {edge} /\ nodes' = nodes \cup {edge[2], edge[3]}
MergeNodes(ns) == nodes' = nodes \cup ns /\ UNCHANGED edges

Write(w) ==
  CASE w = "agreements" -> MergeNodes({Agreement})
    [] w = "coverage" -> MergeEdge(<<"COVERED_BY", Chapter, Agreement>>)
    [] w = "commodities" -> MergeEdge(<<"CLASSIFIED_AS", Item("tea"), Heading>>)
    [] w = "supported" -> MatchEdge(<<"COVERED_BY", Heading, Agreement>>)
    [] w = "countries" -> MergeNodes({Country(PartnerOf[r.obs]) : r \in load.rows})
    [] w = "items" -> MergeNodes({Item(ItemOf[r.obs]) : r \in load.rows})
    [] w = "documents" -> MergeNodes({Document})
    [] w = "issued" -> MatchEdge(<<"ISSUED_BY", Document, Country(IssuedBy)>>)
    [] OTHER -> MatchEdge(<<"DESCRIBES", Document, Agreement>>)

\* MERGE_FLOWS: the edge of an item, a partner and a year gets the row's value.
FlowWritten(r) ==
  IF {Item(ItemOf[r.obs]), Country(PartnerOf[r.obs])} \subseteq nodes
  THEN [k \in DOMAIN flows \cup {<<ItemOf[r.obs], PartnerOf[r.obs]>>} |->
          IF k = <<ItemOf[r.obs], PartnerOf[r.obs]>> THEN r.amount ELSE flows[k]]
  ELSE flows

-----------------------------------------------------------------------------
(* The load.                                                               *)

\* The parts that are asked for; --flows reads the facts when its turn comes.
StartLoad ==
  /\ load.pc \in {"idle", "done"} /\ loads < MaxLoads
  /\ loads' = loads + 1
  /\ \E parts \in LoadOptions : load' = [NotLoading EXCEPT !.pc = "writing", !.parts = parts]
  /\ UNCHANGED <<nodes, edges, flows>>

Current == Writes[load.at]
Loading == load.pc = "writing" /\ load.at <= Len(Writes)

Skip ==
  /\ Loading /\ PartOf[Current] \notin load.parts
  /\ load' = [load EXCEPT !.at = @ + 1]
  /\ UNCHANGED <<nodes, edges, flows, loads>>

\* read_flows: without rows the loader warns and leaves.
ReadFlows ==
  /\ Loading /\ Current = "countries" /\ "flows" \in load.parts /\ load.rows = {}
  /\ load' = IF FlowRows = {} THEN [load EXCEPT !.at = @ + 3]
             ELSE [load EXCEPT !.rows = FlowRows, !.left = FlowRows]
  /\ UNCHANGED <<nodes, edges, flows, loads>>

WriteStep ==
  /\ Loading /\ PartOf[Current] \in load.parts /\ Current # "flows"
  /\ Current = "countries" => load.rows # {}
  /\ Write(Current)
  /\ load' = [load EXCEPT !.at = @ + 1]
  /\ UNCHANGED <<flows, loads>>

\* A batch of edges, in the order GROUP BY happens to give.
WriteFlows ==
  /\ Loading /\ Current = "flows" /\ "flows" \in load.parts
  /\ \/ \E r \in load.left : flows' = FlowWritten(r) /\ load' = [load EXCEPT !.left = @ \ {r}]
     \/ load.left = {} /\ load' = [load EXCEPT !.at = @ + 1] /\ UNCHANGED flows
  /\ UNCHANGED <<nodes, edges, loads>>

\* Neo4j fails: what was written stays written, and the command exits 1.
LoadFails ==
  /\ Loading /\ Trouble
  /\ load' = NotLoading
  /\ UNCHANGED <<nodes, edges, flows, loads>>

LoadEnds ==
  /\ load.pc = "writing" /\ load.at = Len(Writes) + 1
  /\ load' = [load EXCEPT !.pc = "done"]
  /\ UNCHANGED <<nodes, edges, flows, loads>>

Load ==
  \/ (StartLoad \/ Skip \/ ReadFlows \/ WriteStep \/ WriteFlows \/ LoadEnds) /\ UNCHANGED vars
  \/ LoadFails /\ UNCHANGED <<fact, cited, runs, flags, mirror, job, reported, attempts>>

DataInit == Init /\ GraphInit
DataNext == (Next /\ UNCHANGED graphVars) \/ Load
DataSpec == DataInit /\ [][DataNext]_<<vars, graphVars>>

-----------------------------------------------------------------------------
(* Properties.                                                             *)

Loaded(parts) == load.pc = "done" /\ load.parts = parts

\* A full load that ends finds both ends of every edge it means to write, whatever
\* earlier loads left out, did in part or failed at.
FullLoadComplete ==
  Loaded(Parts) =>
    /\ {<<"COVERED_BY", Heading, Agreement>>, <<"DESCRIBES", Document, Agreement>>} \subseteq edges
    /\ (\E r \in load.rows : PartnerOf[r.obs] = IssuedBy) => <<"ISSUED_BY", Document, Country(IssuedBy)>> \in edges
    /\ \A r \in load.rows : <<ItemOf[r.obs], PartnerOf[r.obs]>> \in DOMAIN flows

\* The graph has what fact_trade holds: after a load that read what is there now, an edge
\* carries the exports of its item to its partner.  For the items of one HS code.
OneCodeAgrees ==
  load.pc = "done" /\ "flows" \in load.parts /\ load.rows = FlowRows =>
    \A k \in DOMAIN flows :
      Cardinality({o \in Observations : ItemOf[o] = k[1]}) = 1 => flows[k] = Total(FlowRows, k[1], k[2])

\* The same of every item, as docs/DATA_SOURCES.md has it.
GraphAgrees ==
  load.pc = "done" /\ "flows" \in load.parts /\ load.rows = FlowRows =>
    \A k \in DOMAIN flows : flows[k] = Total(FlowRows, k[1], k[2])
=============================================================================
