------------------------------ MODULE Topology ------------------------------
(***************************************************************************)
(* The event bus as it serves its one batching subscriber, the topology    *)
(* service, and the topologies themselves (server/shared/events,           *)
(* server/topology).                                                       *)
(*                                                                         *)
(* A topology is a saved copy of a network's tables and a graph made from  *)
(* them.  A change of a table is announced on the bus; every 200 ms the    *)
(* announcements are worked off in one batch, which brings the copies up   *)
(* to date or marks the topologies stale.  Users rebuild, refresh, edit    *)
(* and lock topologies at the same time, and send the whole topology their *)
(* browser holds.                                                          *)
(*                                                                         *)
(* A table is its number of changes, a graph the number of changes that    *)
(* needed a new graph when it was made.  Left out: what is in the graph,   *)
(* the options, the lists of removed ids, which the user interface shows,  *)
(* and the stream of updates to browsers, which here may look at any time. *)
(***************************************************************************)
EXTENDS Naturals, FiniteSets

CONSTANTS
    Topologies,        \* the topologies of one network
    Tables,            \* the tables that are copied
    Graphic,           \* those whose rows, when created or deleted, need a new graph
    MaxChanges,        \* bound: changes of a table
    MaxEdits,          \* bound: requests about topologies
    NoTopology

Row == [data : [Tables -> Nat], graph : Nat, stale : BOOLEAN]

ASSUME TopologyAssumption ==
    /\ Graphic \subseteq Tables
    /\ MaxChanges \in Nat /\ MaxEdits \in Nat
    /\ NoTopology \notin Row

VARIABLES
    version,   \* [Tables -> Nat]: changes so far
    shape,     \* changes so far that need a new graph
    topo,      \* the topology table
    copy,      \* what the browser holds of each topology
    pending,   \* pending_events of the topology subscriber; see Events
    flush,     \* the batch being worked off
    writer,    \* a request that changes a table
    editor,    \* a request about a topology
    edits,
    missed,    \* history: ways in which an announcement has been lost on a topology
    rounds     \* history: batches since anything but a batch has been announced

topologyVars == <<version, shape, topo, copy, pending, flush, writer, editor, edits, missed, rounds>>

\* An event is the table and whether it triggers staleness, the creation of a
\* topology, or the update of one.  A batch only asks which events it has, so pending
\* is a set.
Created == <<"topology", "created">>
Updated == <<"topology", "updated">>
Events == Tables \X {"stale", "auto"} \cup {Created, Updated}

Idle == [at |-> "idle"]
Saved == {t \in Topologies : topo[t] # NoTopology}

Announced(es) == pending' = pending \cup es
FromOutside == rounds' = 0

TopologyInit ==
    /\ version = [k \in Tables |-> 0] /\ shape = 0
    /\ topo \in [Topologies -> {NoTopology, [data |-> version, graph |-> shape, stale |-> FALSE]}]
    /\ copy = topo
    /\ pending = {} /\ flush = Idle /\ writer = Idle /\ editor = Idle
    /\ edits = 0 /\ missed = {} /\ rounds = 0

----------------------------------------------------------------------------
(* CrudService: create, update and delete store and then announce; delete_many and   *)
(* delete_all_for_org announce and then delete.                                      *)

WriteStarts(k, redraw, early) ==
    /\ writer = Idle
    /\ redraw => k \in Graphic
    /\ early => (redraw \/ k \notin Graphic)
    /\ version[k] < MaxChanges
    /\ writer' = [at |-> IF early THEN "announce" ELSE "store", table |-> k, redraw |-> redraw,
                  early |-> early, looked |-> FALSE]
    /\ UNCHANGED <<version, shape, topo, copy, pending, flush, editor, edits, missed, rounds>>

\* A batch or a request that read the tables after an early announcement has
\* taken the rows that are about to go for good.
WriteStores ==
    /\ writer.at = "store"
    /\ version' = [version EXCEPT ![writer.table] = @ + 1]
    /\ shape' = IF writer.redraw THEN shape + 1 ELSE shape
    /\ writer' = IF writer.early THEN Idle ELSE [writer EXCEPT !.at = "announce"]
    /\ missed' = IF writer.early /\ writer.looked THEN missed \cup {"early"} ELSE missed
    /\ UNCHANGED <<topo, copy, pending, flush, editor, edits, rounds>>

WriteAnnounces ==
    /\ writer.at = "announce"
    /\ Announced({<<writer.table, IF writer.redraw THEN "stale" ELSE "auto">>}) /\ FromOutside
    /\ writer' = IF writer.early THEN [writer EXCEPT !.at = "store"] ELSE Idle
    /\ UNCHANGED <<version, shape, topo, copy, flush, editor, edits, missed>>

\* The tables are read while an early announcement's rows are still there.
Looks == writer' = IF writer.at = "store" /\ writer.early THEN [writer EXCEPT !.looked = TRUE] ELSE writer

----------------------------------------------------------------------------
(* SubscriberState::flush_batch and TopologyService::handle_events *)

\* The pending events are drained once ...
FlushTakes ==
    /\ flush = Idle /\ pending # {}
    /\ flush' = [at |-> "topologies", pass |-> 1, batch |-> pending]
    /\ pending' = {}
    /\ rounds' = rounds + 1
    /\ UNCHANGED <<version, shape, topo, copy, writer, editor, edits, missed>>

\* Mutant: the batch is handled again and again.
PassRepeats(f) == flush' = [at |-> "topologies", pass |-> f.pass + 1, batch |-> f.batch]

\* ... and handled twice, whatever came of the first time.
PassEnds(f) ==
    flush' = IF f.pass = 1 THEN [at |-> "topologies", pass |-> 2, batch |-> f.batch] ELSE Idle

\* Mutant: the topology service treats its own update as a change.
PassedOnNever(e) == FALSE

\* The update of a topology is only passed on to the browsers.
PassedOn(e) == e = Updated

FlushReadsTopologies ==
    /\ flush.at = "topologies"
    /\ IF \A e \in flush.batch : PassedOn(e)
       THEN PassEnds(flush)
       ELSE flush' = [at |-> "data", pass |-> flush.pass, batch |-> flush.batch,
                      rows |-> topo, left |-> Saved]
    /\ UNCHANGED <<version, shape, topo, copy, pending, writer, editor, edits, missed, rounds>>

\* The tables are read for all topologies; the services once more for each, which only
\* makes that copy newer.
FlushReadsData ==
    /\ flush.at = "data"
    /\ IF flush.left = {}
       THEN PassEnds(flush)
       ELSE flush' = [at |-> "write", pass |-> flush.pass, batch |-> flush.batch,
                      rows |-> flush.rows, left |-> flush.left, data |-> version]
    /\ Looks
    /\ UNCHANGED <<version, shape, topo, copy, pending, editor, edits, missed, rounds>>

MarksStale(batch) == \E k \in Tables : <<k, "stale">> \in batch

\* Mutant: the mark is set anew instead of added.
AppliedResets(r, batch, data) ==
    [data |-> [k \in Tables |-> IF <<k, "auto">> \in batch THEN data[k] ELSE r.data[k]],
     graph |-> r.graph,
     stale |-> Created \notin batch /\ MarksStale(batch)]

Applied(r, batch, data) ==
    [data |-> [k \in Tables |-> IF <<k, "auto">> \in batch THEN data[k] ELSE r.data[k]],
     graph |-> r.graph,
     stale |-> Created \notin batch /\ (r.stale \/ MarksStale(batch))]

\* The topologies are written one after the other; one that is gone ends the pass, and
\* in the second pass leaves the others without the batch.
FlushWrites(t) ==
    /\ flush.at = "write" /\ t \in flush.left
    /\ LET rest == flush.left \ {t}
       IN  IF topo[t] = NoTopology
           THEN /\ PassEnds(flush)
                /\ missed' = IF flush.pass = 2 /\ rest # {} THEN missed \cup {"gone"} ELSE missed
                /\ UNCHANGED <<topo, pending>>
           ELSE /\ topo' = [topo EXCEPT ![t] = Applied(flush.rows[t], flush.batch, flush.data)]
                /\ Announced({Updated})
                /\ IF rest = {} THEN PassEnds(flush) ELSE flush' = [flush EXCEPT !.left = rest]
                /\ missed' = IF /\ Created \in flush.batch
                                /\ MarksStale(flush.batch) \/ flush.rows[t].stale
                             THEN missed \cup {"created"} ELSE missed
    /\ UNCHANGED <<version, shape, copy, writer, editor, edits, rounds>>

----------------------------------------------------------------------------
(* The handlers of the topology endpoints *)

Asks == editor = Idle /\ edits < MaxEdits /\ edits' = edits + 1

\* rebuild and refresh: the tables, around the topology the browser sent.
TablesRead(t, kind, body) ==
    /\ editor' = [at |-> "write", kind |-> kind, topology |-> t, body |-> body,
                  data |-> version, graph |-> shape]
    /\ Looks

Rebuild(t) ==
    /\ Asks /\ copy[t] # NoTopology
    /\ TablesRead(t, "rebuild", copy[t])
    /\ UNCHANGED <<version, shape, topo, copy, pending, flush, missed, rounds>>

Refresh(t) ==
    /\ Asks /\ copy[t] # NoTopology
    /\ TablesRead(t, "refresh", copy[t])
    /\ UNCHANGED <<version, shape, topo, copy, pending, flush, missed, rounds>>

\* update_topology: what the browser sent, as it is.
UpdateTopology(t) ==
    /\ Asks /\ copy[t] # NoTopology
    /\ editor' = [at |-> "write", kind |-> "put", topology |-> t, body |-> copy[t]]
    /\ UNCHANGED <<version, shape, topo, copy, pending, flush, writer, missed, rounds>>

\* lock and unlock: the row, read for this request.
Lock(t) ==
    /\ Asks /\ t \in Saved
    /\ editor' = [at |-> "write", kind |-> "put", topology |-> t, body |-> topo[t]]
    /\ UNCHANGED <<version, shape, topo, copy, pending, flush, writer, missed, rounds>>

CreateTopology(t) ==
    /\ Asks /\ topo[t] = NoTopology /\ copy[t] = NoTopology
    /\ TablesRead(t, "create", NoTopology)
    /\ UNCHANGED <<version, shape, topo, copy, pending, flush, missed, rounds>>

NewRow(e) ==
    CASE e.kind = "put"     -> e.body
      [] e.kind = "refresh" -> [e.body EXCEPT !.data = e.data]
      [] OTHER              -> [data |-> e.data, graph |-> e.graph, stale |-> FALSE]

\* The write misses what happened to the row or to the tables since it was prepared.
Misses(e) == e.body # topo[e.topology] \/ (e.kind # "put" /\ e.data # version)

EditWrites ==
    LET e == editor
    IN  /\ e.at = "write"
        /\ editor' = Idle
        /\ IF e.kind # "create" /\ topo[e.topology] = NoTopology
           THEN UNCHANGED <<topo, pending, missed, rounds>>
           ELSE /\ topo' = [topo EXCEPT ![e.topology] = NewRow(e)]
                /\ Announced({IF e.kind = "create" THEN Created ELSE Updated}) /\ FromOutside
                /\ missed' = IF Misses(e) THEN missed \cup {"overwrite"} ELSE missed
        /\ UNCHANGED <<version, shape, copy, flush, writer, edits>>

\* A deleted topology's id is not used again.
DeleteTopology(t) ==
    /\ Asks /\ t \in Saved
    /\ topo' = [topo EXCEPT ![t] = NoTopology]
    /\ UNCHANGED <<version, shape, copy, pending, flush, writer, editor, missed, rounds>>

BrowserLooks(t) ==
    /\ t \in Saved /\ copy[t] # topo[t]
    /\ copy' = [copy EXCEPT ![t] = topo[t]]
    /\ UNCHANGED <<version, shape, topo, pending, flush, writer, editor, edits, missed, rounds>>

\* The events that wait, and the requests, are only in memory.
TopologyRestart ==
    /\ pending' = {} /\ flush' = Idle /\ writer' = Idle /\ editor' = Idle
    /\ missed' = IF writer # Idle \/ pending # {} \/ flush # Idle THEN missed \cup {"restart"} ELSE missed
    /\ UNCHANGED <<version, shape, topo, copy, edits, rounds>>

TopologyNext ==
    \/ \E k \in Tables, redraw, early \in BOOLEAN : WriteStarts(k, redraw, early)
    \/ WriteStores \/ WriteAnnounces
    \/ FlushTakes \/ FlushReadsTopologies \/ FlushReadsData
    \/ EditWrites \/ TopologyRestart
    \/ \E t \in Topologies : \/ FlushWrites(t) \/ BrowserLooks(t)
                             \/ Rebuild(t) \/ Refresh(t) \/ UpdateTopology(t) \/ Lock(t)
                             \/ CreateTopology(t) \/ DeleteTopology(t)

TopologySpec == TopologyInit /\ [][TopologyNext]_topologyVars

----------------------------------------------------------------------------
Versions == [Tables -> 0..MaxChanges]

Batches ==
    {Idle}
    \cup [at : {"topologies"}, pass : 1..2, batch : SUBSET Events]
    \cup [at : {"data"}, pass : 1..2, batch : SUBSET Events,
          rows : [Topologies -> Row \cup {NoTopology}], left : SUBSET Topologies]
    \cup [at : {"write"}, pass : 1..2, batch : SUBSET Events,
          rows : [Topologies -> Row \cup {NoTopology}], left : SUBSET Topologies, data : Versions]

Writes ==
    {Idle} \cup [at : {"store", "announce"}, table : Tables, redraw : BOOLEAN,
                 early : BOOLEAN, looked : BOOLEAN]

Edits ==
    {Idle}
    \cup [at : {"write"}, kind : {"put"}, topology : Topologies, body : Row]
    \cup [at : {"write"}, kind : {"rebuild", "refresh"}, topology : Topologies, body : Row,
          data : Versions, graph : Nat]
    \cup [at : {"write"}, kind : {"create"}, topology : Topologies, body : {NoTopology},
          data : Versions, graph : Nat]

\* The types of the tables, the topologies, the bus and the requests under way.
TopologyTypeOK ==
    /\ version \in Versions /\ shape \in Nat
    /\ topo \in [Topologies -> Row \cup {NoTopology}]
    /\ copy \in [Topologies -> Row \cup {NoTopology}]
    /\ pending \subseteq Events
    /\ flush \in Batches /\ writer \in Writes /\ editor \in Edits
    /\ edits \in 0..MaxEdits
    /\ missed \subseteq {"overwrite", "created", "early", "gone", "restart"}

Quiet == pending = {} /\ flush = Idle /\ writer = Idle /\ editor = Idle

\* Once every announcement has been worked off, a topology shows the tables as they are
\* or says that it is stale ("User will be prompted to update entities"), although batches
\* are handled twice and between the writes of users.  The five ways in which it may fail
\* to are named: a request that was prepared before and overwrites, the batch of a new
\* topology, rows deleted after their deletion was announced and read once more, a topology
\* deleted while the second pass over a batch was about to write it and others, and a
\* restart.
StaleOrCurrent ==
    Quiet /\ missed = {} =>
        \A t \in Saved : topo[t].stale \/ (topo[t].data = version /\ topo[t].graph = shape)

\* A batch causes at most one more, the one that passes its updates on: the topology
\* service hears of its own writes ("another call to topology_service.update will be made
\* which will trigger an infinite loop").
BatchesEnd == rounds <= 2
=============================================================================
