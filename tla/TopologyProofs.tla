--------------------------- MODULE TopologyProofs ---------------------------
(***************************************************************************)
(* The topologies for every set of tables and topologies, and every number *)
(* of changes and requests: once all announcements are worked off, a       *)
(* topology is current or stale, unless one of the named losses happened,  *)
(* and a batch is followed by at most one more.                            *)
(*                                                                         *)
(* A topology that is neither current nor stale is owed the announcements  *)
(* that will make it so.  Where these are, in the queue, with the request  *)
(* that has stored and not yet announced, or in the batch that has still   *)
(* to reach the topology, is the inductive invariant.                      *)
(***************************************************************************)
EXTENDS Topology, TLAPS

----------------------------------------------------------------------------
(* What is owed *)

EventOf(w) == <<w.table, IF w.redraw THEN "stale" ELSE "auto">>

\* Announced, or about to be by a request that has stored.
Fresh ==
    pending \cup IF writer.at = "announce" /\ ~writer.early THEN {EventOf(writer)} ELSE {}

\* The batch has not reached the topology for the last time.
Ahead(t) == flush # Idle /\ (flush.pass = 1 \/ flush.at = "topologies" \/ t \in flush.left)

Owed(t) == Fresh \cup IF Ahead(t) THEN flush.batch ELSE {}

\* Among tables v that needed a new graph g times, the row is stale or current, or the
\* announcements d will make it so.
Good(r, d, v, g) ==
    \/ r.stale \/ MarksStale(d)
    \/ r.graph = g /\ \A k \in Tables : r.data[k] = v[k] \/ <<k, "auto">> \in d

RowsGood ==
    \A t \in Topologies : topo[t] # NoTopology => Good(topo[t], Owed(t), version, shape)

\* The rows that a batch has read, before it writes them.
ReadRowsGood ==
    flush.at \in {"data", "write"} =>
        \A t \in flush.left : Good(flush.rows[t], Fresh \cup flush.batch, version, shape)

\* Tables d that have been read are v, or the announcements f will make up for it.
DataGood(d, f, v) == MarksStale(f) \/ \A k \in Tables : d[k] = v[k] \/ <<k, "auto">> \in f

ReadDataGood == flush.at = "write" => DataGood(flush.data, Fresh, version)

\* An announcement before the deletion is still to be worked off, or somebody has
\* looked at the tables since.
EarlyWaits ==
    writer.at = "store" /\ writer.early /\ ~writer.looked =>
        \/ EventOf(writer) \in pending
        \/ flush.at \in {"topologies", "data"} /\ flush.pass = 1 /\ EventOf(writer) \in flush.batch

\* A request that has read the tables as they are has read the graph as it is.
ReadsAgree ==
    editor # Idle /\ editor.kind # "put" =>
        /\ \A k \in Tables : editor.data[k] <= version[k]
        /\ editor.data = version => editor.graph = shape

\* A request that has not stored has room to.
WriterHasRoom ==
    writer # Idle /\ (writer.at = "store" \/ writer.early) => version[writer.table] < MaxChanges

\* After a batch only updates wait, and after these nothing.
RoundsEnd ==
    /\ rounds \in 0..2
    /\ rounds >= 1 => pending \subseteq {Updated}
    /\ rounds = 2 => /\ pending = {}
                     /\ flush = Idle \/ (flush.at = "topologies" /\ flush.batch \subseteq {Updated})

\* The inductive invariant holds the debts while nothing has been lost.
Owing == RowsGood /\ ReadRowsGood /\ ReadDataGood /\ EarlyWaits
Debts == missed = {} => Owing

\* A batch works on topologies that were there when it read them.
RowsRead == flush.at \in {"data", "write"} => \A t \in flush.left : flush.rows[t] # NoTopology

TopologyInv == TopologyTypeOK /\ WriterHasRoom /\ RoundsEnd /\ RowsRead /\ ReadsAgree /\ Debts

----------------------------------------------------------------------------
(* Types *)

LEMMA FlushFields ==
    ASSUME TopologyTypeOK
    PROVE  /\ Idle.at = "idle"
           /\ flush = Idle \/ flush.at \in {"topologies", "data", "write"}
           /\ flush # Idle => flush.at # "idle" /\ flush.pass \in 1..2 /\ flush.batch \subseteq Events
           /\ flush.at \in {"data", "write"} =>
                 flush.rows \in [Topologies -> Row \cup {NoTopology}] /\ flush.left \subseteq Topologies
           /\ flush.at = "write" => flush.data \in Versions
<1>1. Idle.at = "idle"
  BY DEF Idle
<1>2. CASE flush = Idle
  BY <1>1, <1>2
<1>3. CASE flush \in [at : {"topologies"}, pass : 1..2, batch : SUBSET Events]
  BY <1>1, <1>3
<1>4. CASE flush \in [at : {"data"}, pass : 1..2, batch : SUBSET Events,
                      rows : [Topologies -> Row \cup {NoTopology}], left : SUBSET Topologies]
  BY <1>1, <1>4
<1>5. CASE flush \in [at : {"write"}, pass : 1..2, batch : SUBSET Events,
                      rows : [Topologies -> Row \cup {NoTopology}], left : SUBSET Topologies,
                      data : Versions]
  BY <1>1, <1>5
<1> QED
  BY <1>2, <1>3, <1>4, <1>5 DEF TopologyTypeOK, Batches

LEMMA WriterFields ==
    ASSUME TopologyTypeOK
    PROVE  /\ Idle.at = "idle"
           /\ writer # Idle => /\ writer.at \in {"store", "announce"} /\ writer.table \in Tables
                               /\ writer.redraw \in BOOLEAN /\ writer.early \in BOOLEAN
                               /\ writer.looked \in BOOLEAN
<1>1. Idle.at = "idle"
  BY DEF Idle
<1>2. CASE writer = Idle
  BY <1>1, <1>2
<1>3. CASE writer \in [at : {"store", "announce"}, table : Tables, redraw : BOOLEAN,
                       early : BOOLEAN, looked : BOOLEAN]
  BY <1>1, <1>3
<1> QED
  BY <1>2, <1>3 DEF TopologyTypeOK, Writes

LEMMA EditorFields ==
    ASSUME TopologyTypeOK, editor.at = "write"
    PROVE  /\ editor # Idle
           /\ editor.topology \in Topologies
           /\ editor.kind \in {"put", "rebuild", "refresh", "create"}
           /\ editor.kind # "create" => editor.body \in Row
           /\ editor.kind = "create" => editor.body = NoTopology
           /\ editor.kind # "put" => editor.data \in Versions /\ editor.graph \in Nat
<1>1. Idle.at = "idle"
  BY DEF Idle
<1>2. CASE editor = Idle
  BY <1>1, <1>2
<1>3. CASE editor \in [at : {"write"}, kind : {"put"}, topology : Topologies, body : Row]
  BY <1>1, <1>3
<1>4. CASE editor \in [at : {"write"}, kind : {"rebuild", "refresh"}, topology : Topologies,
                       body : Row, data : Versions, graph : Nat]
  BY <1>1, <1>4
<1>5. CASE editor \in [at : {"write"}, kind : {"create"}, topology : Topologies,
                       body : {NoTopology}, data : Versions, graph : Nat]
  BY <1>1, <1>5
<1> QED
  BY <1>2, <1>3, <1>4, <1>5 DEF TopologyTypeOK, Edits

\* The next pass over the batch, or no more.
LEMMA PassEndsTyped ==
    ASSUME TopologyTypeOK, flush # Idle, PassEnds(flush)
    PROVE  /\ flush' \in Batches
           /\ \/ flush.pass = 1 /\ flush' = [at |-> "topologies", pass |-> 2, batch |-> flush.batch]
              \/ flush.pass = 2 /\ flush' = Idle
<1>1. flush.pass \in 1..2 /\ flush.batch \in SUBSET Events
  BY FlushFields
<1>2. CASE flush.pass = 1
  <2>1. flush' = [at |-> "topologies", pass |-> 2, batch |-> flush.batch]
    BY <1>2 DEF PassEnds
  <2> QED
    BY <1>1, <1>2, <2>1 DEF Batches
<1>3. CASE flush.pass = 2
  BY <1>3 DEF PassEnds, Batches
<1> QED
  BY <1>1, <1>2, <1>3

\* Looking at the tables marks the request that has announced a deletion.
LEMMA LooksTyped ==
    ASSUME TopologyTypeOK, Looks
    PROVE  /\ writer' \in Writes
           /\ writer # Idle => /\ writer' # Idle /\ writer'.at = writer.at
                               /\ writer'.table = writer.table /\ writer'.redraw = writer.redraw
                               /\ writer'.early = writer.early
           /\ writer = Idle => writer' = Idle
           /\ writer'.at = "store" /\ writer'.early => writer'.looked
<1>1. CASE writer = Idle
  BY <1>1, WriterFields DEF Looks, Writes
<1>2. CASE writer # Idle
  <2>1. writer \in [at : {"store", "announce"}, table : Tables, redraw : BOOLEAN,
                    early : BOOLEAN, looked : BOOLEAN]
    BY <1>2 DEF TopologyTypeOK, Writes
  <2>2. CASE writer.at = "store" /\ writer.early
    <3>1. writer' = [writer EXCEPT !.looked = TRUE]
      BY <2>2 DEF Looks
    <3> QED
      BY <2>1, <2>2, <3>1, WriterFields DEF Writes
  <2>3. CASE ~(writer.at = "store" /\ writer.early)
    <3>1. writer' = writer
      BY <2>3 DEF Looks
    <3> QED
      BY <1>2, <2>1, <2>3, <3>1 DEF Writes
  <2> QED
    BY <2>2, <2>3
<1> QED
  BY <1>1, <1>2

LEMMA AppliedIsRow ==
    ASSUME NEW r \in Row, NEW batch, NEW data \in Versions
    PROVE  Applied(r, batch, data) \in Row
<1>1. [k \in Tables |-> IF <<k, "auto">> \in batch THEN data[k] ELSE r.data[k]] \in [Tables -> Nat]
  BY TopologyAssumption DEF Versions, Row
<1>2. (Created \notin batch /\ (r.stale \/ MarksStale(batch))) \in BOOLEAN
  OBVIOUS
<1>3. r.graph \in Nat
  BY DEF Row
<1> QED
  BY <1>1, <1>2, <1>3 DEF Applied, Row

\* A step keeps the types, the room of a request that has not stored, and the rows that a
\* batch works on.
LEMMA TypesStep ==
    ASSUME TopologyTypeOK, WriterHasRoom, RowsRead, TopologyNext
    PROVE  TopologyTypeOK' /\ WriterHasRoom' /\ RowsRead'
<1> USE TopologyAssumption DEF Versions
<1>1. ASSUME NEW k \in Tables, NEW redraw \in BOOLEAN, NEW early \in BOOLEAN,
             WriteStarts(k, redraw, early)
      PROVE  TopologyTypeOK' /\ WriterHasRoom' /\ RowsRead'
  <2>1. writer' \in [at : {"store", "announce"}, table : Tables, redraw : BOOLEAN,
                     early : BOOLEAN, looked : BOOLEAN]
    BY <1>1 DEF WriteStarts
  <2>2. TopologyTypeOK'
    BY <1>1, <2>1 DEF WriteStarts, TopologyTypeOK, Writes
  <2>3. writer'.table = k /\ version' = version /\ version[k] < MaxChanges
    BY <1>1 DEF WriteStarts
  <2>4. WriterHasRoom'
    BY <2>3 DEF WriterHasRoom
  <2> QED
    BY <1>1, <2>2, <2>4 DEF WriteStarts, RowsRead
<1>2. CASE WriteStores
  <2>1. writer # Idle
    BY <1>2, WriterFields DEF WriteStores
  <2>2. writer.table \in Tables /\ version[writer.table] < MaxChanges
    BY <1>2, <2>1, WriterFields DEF WriteStores, WriterHasRoom
  <2>3. version' \in Versions
    BY <1>2, <2>2 DEF WriteStores, TopologyTypeOK
  <2>4. shape' \in Nat
    BY <1>2 DEF WriteStores, TopologyTypeOK
  <2>5. writer \in [at : {"store", "announce"}, table : Tables, redraw : BOOLEAN,
                    early : BOOLEAN, looked : BOOLEAN]
    BY <2>1 DEF TopologyTypeOK, Writes
  <2>6. writer' \in Writes /\ (writer' # Idle => writer'.at = "announce" /\ ~writer'.early)
    <3>1. CASE writer.early
      BY <1>2, <3>1 DEF WriteStores, Writes
    <3>2. CASE ~writer.early
      <4>1. writer' = [writer EXCEPT !.at = "announce"]
        BY <1>2, <3>2 DEF WriteStores
      <4> QED
        BY <2>5, <3>2, <4>1 DEF Writes
    <3> QED
      BY <3>1, <3>2
  <2>7. missed' \subseteq {"overwrite", "created", "early", "gone", "restart"}
    BY <1>2 DEF WriteStores, TopologyTypeOK
  <2>8. TopologyTypeOK'
    BY <1>2, <2>3, <2>4, <2>6, <2>7 DEF WriteStores, TopologyTypeOK
  <2>9. WriterHasRoom'
    BY <2>6 DEF WriterHasRoom
  <2> QED
    BY <1>2, <2>8, <2>9 DEF WriteStores, RowsRead
<1>3. CASE WriteAnnounces
  <2>1. writer # Idle
    BY <1>3, WriterFields DEF WriteAnnounces
  <2>2. writer \in [at : {"store", "announce"}, table : Tables, redraw : BOOLEAN,
                    early : BOOLEAN, looked : BOOLEAN]
    BY <2>1 DEF TopologyTypeOK, Writes
  <2>3. {<<writer.table, IF writer.redraw THEN "stale" ELSE "auto">>} \subseteq Events
    BY <2>2 DEF Events
  <2>4. pending' \subseteq Events
    BY <1>3, <2>3 DEF WriteAnnounces, Announced, TopologyTypeOK
  <2>5. writer' \in Writes /\ (writer' # Idle => writer.early /\ writer'.table = writer.table)
    <3>1. CASE writer.early
      <4>1. writer' = [writer EXCEPT !.at = "store"]
        BY <1>3, <3>1 DEF WriteAnnounces
      <4> QED
        BY <2>2, <3>1, <4>1 DEF Writes
    <3>2. CASE ~writer.early
      BY <1>3, <3>2 DEF WriteAnnounces, Writes
    <3> QED
      BY <3>1, <3>2
  <2>6. TopologyTypeOK'
    BY <1>3, <2>4, <2>5 DEF WriteAnnounces, TopologyTypeOK
  <2>7. WriterHasRoom'
    BY <1>3, <2>1, <2>5 DEF WriteAnnounces, WriterHasRoom
  <2> QED
    BY <1>3, <2>6, <2>7 DEF WriteAnnounces, RowsRead
<1>4. CASE FlushTakes
  <2>1. flush' \in [at : {"topologies"}, pass : 1..2, batch : SUBSET Events]
    BY <1>4 DEF FlushTakes, TopologyTypeOK
  <2>2. TopologyTypeOK'
    BY <1>4, <2>1 DEF FlushTakes, TopologyTypeOK, Batches
  <2> QED
    BY <1>4, <2>1, <2>2 DEF FlushTakes, WriterHasRoom, RowsRead
<1>5. CASE FlushReadsTopologies
  <2>1. flush # Idle
    BY <1>5, FlushFields DEF FlushReadsTopologies
  <2>2. CASE \A e \in flush.batch : PassedOn(e)
    <3>1. PassEnds(flush)
      BY <1>5, <2>2 DEF FlushReadsTopologies
    <3>2. flush' \in Batches /\ flush'.at \notin {"data", "write"}
      BY <2>1, <3>1, PassEndsTyped, FlushFields
    <3> QED
      BY <1>5, <3>2 DEF FlushReadsTopologies, TopologyTypeOK, WriterHasRoom, RowsRead
  <2>3. CASE ~\A e \in flush.batch : PassedOn(e)
    <3>1. flush' = [at |-> "data", pass |-> flush.pass, batch |-> flush.batch,
                    rows |-> topo, left |-> Saved]
      BY <1>5, <2>3 DEF FlushReadsTopologies
    <3>2. flush' \in Batches
      BY <2>1, <3>1, FlushFields DEF Batches, TopologyTypeOK, Saved
    <3>3. RowsRead'
      BY <3>1 DEF RowsRead, Saved
    <3> QED
      BY <1>5, <3>2, <3>3 DEF FlushReadsTopologies, TopologyTypeOK, WriterHasRoom
  <2> QED
    BY <2>2, <2>3
<1>6. CASE FlushReadsData
  <2>1. flush # Idle
    BY <1>6, FlushFields DEF FlushReadsData
  <2>2. flush' \in Batches /\ RowsRead'
    <3>1. CASE flush.left = {}
      <4>1. PassEnds(flush)
        BY <1>6, <3>1 DEF FlushReadsData
      <4> QED
        BY <2>1, <4>1, PassEndsTyped, FlushFields DEF RowsRead
    <3>2. CASE flush.left # {}
      <4>1. flush' = [at |-> "write", pass |-> flush.pass, batch |-> flush.batch,
                      rows |-> flush.rows, left |-> flush.left, data |-> version]
        BY <1>6, <3>2 DEF FlushReadsData
      <4>2. flush.at = "data"
        BY <1>6 DEF FlushReadsData
      <4>3. flush' \in Batches
        BY <2>1, <4>1, <4>2, FlushFields DEF Batches, TopologyTypeOK
      <4> QED
        BY <4>1, <4>2, <4>3 DEF RowsRead
    <3> QED
      BY <3>1, <3>2
  <2>3. Looks
    BY <1>6 DEF FlushReadsData
  <2>4. writer' \in Writes
    BY <2>3, LooksTyped
  <2>5. TopologyTypeOK'
    BY <1>6, <2>2, <2>4 DEF FlushReadsData, TopologyTypeOK
  <2>6. WriterHasRoom'
    BY <1>6, <2>3, LooksTyped DEF FlushReadsData, WriterHasRoom
  <2> QED
    BY <2>2, <2>5, <2>6
<1>7. ASSUME NEW t \in Topologies, FlushWrites(t)
      PROVE  TopologyTypeOK' /\ WriterHasRoom' /\ RowsRead'
  <2>1. flush.at = "write" /\ flush # Idle /\ t \in flush.left
    BY <1>7, FlushFields DEF FlushWrites
  <2>2. WriterHasRoom'
    BY <1>7 DEF FlushWrites, WriterHasRoom
  <2>3. CASE topo[t] = NoTopology
    <3>1. PassEnds(flush)
      BY <1>7, <2>3 DEF FlushWrites
    <3>2. flush' \in Batches /\ flush'.at \notin {"data", "write"}
      BY <2>1, <3>1, PassEndsTyped, FlushFields
    <3>3. TopologyTypeOK'
      BY <1>7, <2>3, <3>2 DEF FlushWrites, TopologyTypeOK
    <3> QED
      BY <2>2, <3>2, <3>3 DEF RowsRead
  <2>4. CASE topo[t] # NoTopology
    <3>1. flush.rows[t] \in Row
      BY <2>1, FlushFields DEF RowsRead
    <3>2. Applied(flush.rows[t], flush.batch, flush.data) \in Row
      BY <2>1, <3>1, FlushFields, AppliedIsRow
    <3>3. topo' \in [Topologies -> Row \cup {NoTopology}]
      BY <1>7, <2>4, <3>2 DEF FlushWrites, TopologyTypeOK
    <3>4. pending' \subseteq Events
      BY <1>7, <2>4 DEF FlushWrites, Announced, TopologyTypeOK, Events
    <3>5. flush' \in Batches /\ RowsRead'
      <4>1. CASE flush.left \ {t} = {}
        <5>1. PassEnds(flush)
          BY <1>7, <2>4, <4>1 DEF FlushWrites
        <5> QED
          BY <2>1, <5>1, PassEndsTyped, FlushFields DEF RowsRead
      <4>2. CASE flush.left \ {t} # {}
        <5>1. flush' = [flush EXCEPT !.left = flush.left \ {t}]
          BY <1>7, <2>4, <4>2 DEF FlushWrites
        <5>2. flush \in [at : {"write"}, pass : 1..2, batch : SUBSET Events,
                         rows : [Topologies -> Row \cup {NoTopology}], left : SUBSET Topologies,
                         data : Versions]
          BY <2>1 DEF TopologyTypeOK, Batches, Idle
        <5>3. flush' \in Batches
          BY <5>1, <5>2 DEF Batches
        <5>4. flush'.rows = flush.rows /\ flush'.left \subseteq flush.left
          BY <5>1, <5>2
        <5> QED
          BY <2>1, <5>3, <5>4 DEF RowsRead
      <4> QED
        BY <4>1, <4>2
    <3>6. missed' \subseteq {"overwrite", "created", "early", "gone", "restart"}
      BY <1>7, <2>4 DEF FlushWrites, TopologyTypeOK
    <3>7. TopologyTypeOK'
      BY <1>7, <3>3, <3>4, <3>5, <3>6 DEF FlushWrites, TopologyTypeOK
    <3> QED
      BY <2>2, <3>5, <3>7
  <2> QED
    BY <2>3, <2>4
<1>8. ASSUME NEW t \in Topologies, BrowserLooks(t)
      PROVE  TopologyTypeOK' /\ WriterHasRoom' /\ RowsRead'
  BY <1>8 DEF BrowserLooks, TopologyTypeOK, WriterHasRoom, RowsRead
<1>9. ASSUME NEW t \in Topologies, Rebuild(t) \/ Refresh(t) \/ CreateTopology(t)
      PROVE  TopologyTypeOK' /\ WriterHasRoom' /\ RowsRead'
  <2>1. Looks /\ Asks
        /\ UNCHANGED <<version, shape, topo, copy, pending, flush, missed, rounds>>
    BY <1>9 DEF Rebuild, Refresh, CreateTopology, TablesRead
  <2>2. editor' \in Edits
    BY <1>9 DEF Rebuild, Refresh, CreateTopology, TablesRead, TopologyTypeOK, Edits
  <2>3. edits' \in 0..MaxEdits
    BY <2>1 DEF Asks, TopologyTypeOK
  <2>4. TopologyTypeOK'
    BY <2>1, <2>2, <2>3, LooksTyped DEF TopologyTypeOK
  <2>5. WriterHasRoom'
    BY <2>1, LooksTyped DEF WriterHasRoom
  <2> QED
    BY <2>1, <2>4, <2>5 DEF RowsRead
<1>10. ASSUME NEW t \in Topologies, UpdateTopology(t) \/ Lock(t)
       PROVE  TopologyTypeOK' /\ WriterHasRoom' /\ RowsRead'
  <2>1. Asks /\ UNCHANGED <<version, shape, topo, copy, pending, flush, writer, missed, rounds>>
    BY <1>10 DEF UpdateTopology, Lock
  <2>2. editor' \in Edits
    BY <1>10 DEF UpdateTopology, Lock, TopologyTypeOK, Edits, Saved
  <2>3. edits' \in 0..MaxEdits
    BY <2>1 DEF Asks, TopologyTypeOK
  <2> QED
    BY <2>1, <2>2, <2>3 DEF TopologyTypeOK, WriterHasRoom, RowsRead
<1>11. ASSUME NEW t \in Topologies, DeleteTopology(t)
       PROVE  TopologyTypeOK' /\ WriterHasRoom' /\ RowsRead'
  BY <1>11 DEF DeleteTopology, Asks, TopologyTypeOK, WriterHasRoom, RowsRead
<1>12. CASE EditWrites
  <2>1. editor.at = "write" /\ editor' = Idle
        /\ UNCHANGED <<version, shape, copy, flush, writer, edits>>
    BY <1>12 DEF EditWrites
  <2>2. CASE editor.kind # "create" /\ topo[editor.topology] = NoTopology
    BY <1>12, <2>1, <2>2 DEF EditWrites, TopologyTypeOK, Edits, WriterHasRoom, RowsRead
  <2>3. CASE ~(editor.kind # "create" /\ topo[editor.topology] = NoTopology)
    <3>1. NewRow(editor) \in Row
      <4>1. CASE editor.kind = "put"
        BY <2>1, <4>1, EditorFields DEF NewRow
      <4>2. CASE editor.kind = "refresh"
        <5>1. editor.body \in Row /\ editor.data \in [Tables -> Nat]
          BY <2>1, <4>2, EditorFields
        <5>2. NewRow(editor) = [editor.body EXCEPT !.data = editor.data]
          BY <4>2 DEF NewRow
        <5> QED
          BY <5>1, <5>2 DEF Row
      <4>3. CASE editor.kind # "put" /\ editor.kind # "refresh"
        <5>1. editor.data \in [Tables -> Nat] /\ editor.graph \in Nat
          BY <2>1, <4>3, EditorFields
        <5>2. NewRow(editor) = [data |-> editor.data, graph |-> editor.graph, stale |-> FALSE]
          BY <4>3 DEF NewRow
        <5> QED
          BY <5>1, <5>2 DEF Row
      <4> QED
        BY <4>1, <4>2, <4>3
    <3>2. topo' \in [Topologies -> Row \cup {NoTopology}]
      BY <1>12, <2>3, <3>1 DEF EditWrites, TopologyTypeOK
    <3>3. pending' \subseteq Events
      BY <1>12, <2>3 DEF EditWrites, Announced, TopologyTypeOK, Events
    <3>4. missed' \subseteq {"overwrite", "created", "early", "gone", "restart"}
      BY <1>12, <2>3 DEF EditWrites, TopologyTypeOK
    <3> QED
      BY <2>1, <3>2, <3>3, <3>4 DEF TopologyTypeOK, Edits, WriterHasRoom, RowsRead
  <2> QED
    BY <2>2, <2>3
<1>13. CASE TopologyRestart
  <2>1. TopologyTypeOK'
    BY <1>13 DEF TopologyRestart, TopologyTypeOK, Batches, Writes, Edits
  <2> QED
    BY <1>13, <2>1, FlushFields DEF TopologyRestart, WriterHasRoom, RowsRead
<1> QED
  BY <1>1, <1>2, <1>3, <1>4, <1>5, <1>6, <1>7, <1>8, <1>9, <1>10, <1>11, <1>12, <1>13
     DEF TopologyNext

\* A step keeps the count of the batches that follow one another.
LEMMA RoundsStep ==
    ASSUME TopologyTypeOK, RoundsEnd, TopologyNext
    PROVE  RoundsEnd'
<1>1. ASSUME rounds' = 0
      PROVE  RoundsEnd'
  BY <1>1 DEF RoundsEnd
<1>2. ASSUME UNCHANGED <<pending, flush, rounds>>
      PROVE  RoundsEnd'
  BY <1>2 DEF RoundsEnd
<1>3. CASE FlushTakes
  BY <1>3 DEF FlushTakes, RoundsEnd
<1>4. ASSUME flush # Idle, PassEnds(flush), UNCHANGED <<pending, rounds>>,
             rounds = 2 => flush.at = "topologies"
      PROVE  RoundsEnd'
  <2>1. CASE rounds = 2
    <3>1. flush.batch \subseteq {Updated} /\ pending = {}
      BY <1>4, <2>1 DEF RoundsEnd
    <3> QED
      BY <1>4, <2>1, <3>1, PassEndsTyped DEF RoundsEnd
  <2>2. CASE rounds # 2
    BY <1>4, <2>2 DEF RoundsEnd
  <2> QED
    BY <2>1, <2>2
<1>5. rounds = 2 => flush.at \notin {"data", "write"}
  BY FlushFields DEF RoundsEnd
<1>6. CASE FlushReadsTopologies
  <2>1. flush # Idle /\ flush.at = "topologies" /\ UNCHANGED <<pending, rounds>>
    BY <1>6, FlushFields DEF FlushReadsTopologies
  <2>2. CASE \A e \in flush.batch : PassedOn(e)
    BY <1>4, <1>6, <2>1, <2>2 DEF FlushReadsTopologies
  <2>3. CASE ~\A e \in flush.batch : PassedOn(e)
    <3>1. rounds # 2
      BY <2>1, <2>3 DEF RoundsEnd, PassedOn
    <3> QED
      BY <2>1, <3>1 DEF RoundsEnd
  <2> QED
    BY <2>2, <2>3
<1>7. CASE FlushReadsData
  <2>1. rounds # 2 /\ UNCHANGED <<pending, rounds>>
    BY <1>5, <1>7 DEF FlushReadsData
  <2> QED
    BY <2>1 DEF RoundsEnd
<1>8. ASSUME NEW t \in Topologies, FlushWrites(t)
      PROVE  RoundsEnd'
  <2>1. rounds # 2 /\ UNCHANGED rounds /\ pending' \subseteq pending \cup {Updated}
    BY <1>5, <1>8 DEF FlushWrites, Announced
  <2> QED
    BY <2>1 DEF RoundsEnd
<1>9. CASE EditWrites
  <2>1. rounds' = 0 \/ UNCHANGED <<pending, flush, rounds>>
    BY <1>9 DEF EditWrites, FromOutside
  <2> QED
    BY <1>1, <1>2, <2>1
<1>10. CASE TopologyRestart
  BY <1>10 DEF TopologyRestart, RoundsEnd
<1>11. CASE WriteAnnounces
  BY <1>1, <1>11 DEF WriteAnnounces, FromOutside
<1>12. CASE WriteStores
  BY <1>2, <1>12 DEF WriteStores
<1>13. ASSUME NEW k \in Tables, NEW redraw \in BOOLEAN, NEW early \in BOOLEAN,
              WriteStarts(k, redraw, early)
       PROVE  RoundsEnd'
  BY <1>2, <1>13 DEF WriteStarts
<1>14. ASSUME NEW t \in Topologies,
              \/ BrowserLooks(t) \/ Rebuild(t) \/ Refresh(t) \/ UpdateTopology(t) \/ Lock(t)
              \/ CreateTopology(t) \/ DeleteTopology(t)
       PROVE  RoundsEnd'
  BY <1>2, <1>14
     DEF BrowserLooks, Rebuild, Refresh, UpdateTopology, Lock, CreateTopology, DeleteTopology
<1> QED
  BY <1>3, <1>6, <1>7, <1>8, <1>9, <1>10, <1>11, <1>12, <1>13, <1>14 DEF TopologyNext

\* A step keeps what a request about a topology has read no newer than the tables.
LEMMA ReadsStep ==
    ASSUME TopologyTypeOK, ReadsAgree, TopologyNext
    PROVE  ReadsAgree'
<1> USE TopologyAssumption DEF Versions
<1>1. ASSUME UNCHANGED <<version, shape, editor>>
      PROVE  ReadsAgree'
  BY <1>1 DEF ReadsAgree
<1>2. ASSUME editor' = Idle
      PROVE  ReadsAgree'
  BY <1>2 DEF ReadsAgree
<1>3. CASE WriteStores
  <2>1. writer # Idle
    BY <1>3, WriterFields DEF WriteStores
  <2>2. PICK k \in Tables : k = writer.table
    BY <2>1, WriterFields
  <2>3. version' = [version EXCEPT ![k] = @ + 1] /\ UNCHANGED editor
    BY <1>3, <2>2 DEF WriteStores
  <2>4. SUFFICES ASSUME editor # Idle, editor.kind # "put"
                 PROVE  /\ \A x \in Tables : editor.data[x] <= version'[x]
                        /\ editor.data # version'
    BY <2>3 DEF ReadsAgree
  <2>5. editor.at = "write"
    BY <2>4 DEF TopologyTypeOK, Edits
  <2>6. editor.data \in Versions /\ version \in Versions
    BY <2>4, <2>5, EditorFields DEF TopologyTypeOK
  <2>7. \A x \in Tables : editor.data[x] <= version[x]
    BY <2>4 DEF ReadsAgree
  <2>8. version'[k] = version[k] + 1
    BY <2>3, <2>6
  <2> QED
    BY <2>3, <2>6, <2>7, <2>8
<1>4. ASSUME NEW t \in Topologies, Rebuild(t) \/ Refresh(t) \/ CreateTopology(t)
      PROVE  ReadsAgree'
  <2>1. editor'.data = version /\ editor'.graph = shape /\ UNCHANGED <<version, shape>>
    BY <1>4 DEF Rebuild, Refresh, CreateTopology, TablesRead
  <2> QED
    BY <2>1 DEF ReadsAgree, TopologyTypeOK
<1>5. ASSUME NEW t \in Topologies, UpdateTopology(t) \/ Lock(t)
      PROVE  ReadsAgree'
  BY <1>5 DEF UpdateTopology, Lock, ReadsAgree
<1>6. CASE EditWrites \/ TopologyRestart
  BY <1>2, <1>6 DEF EditWrites, TopologyRestart
<1>7. CASE WriteAnnounces \/ FlushTakes \/ FlushReadsTopologies \/ FlushReadsData
  BY <1>1, <1>7 DEF WriteAnnounces, FlushTakes, FlushReadsTopologies, FlushReadsData
<1>8. ASSUME NEW k \in Tables, NEW redraw \in BOOLEAN, NEW early \in BOOLEAN,
             WriteStarts(k, redraw, early)
      PROVE  ReadsAgree'
  BY <1>1, <1>8 DEF WriteStarts
<1>9. ASSUME NEW t \in Topologies, FlushWrites(t) \/ BrowserLooks(t) \/ DeleteTopology(t)
      PROVE  ReadsAgree'
  BY <1>1, <1>9 DEF FlushWrites, BrowserLooks, DeleteTopology
<1> QED
  BY <1>3, <1>4, <1>5, <1>6, <1>7, <1>8, <1>9 DEF TopologyNext

----------------------------------------------------------------------------
(* What the announcements make good *)

\* Every announcement about the tables in d is in f.
Covers(d, f) == \A k \in Tables : /\ <<k, "auto">> \in d => <<k, "auto">> \in f
                                  /\ <<k, "stale">> \in d => <<k, "stale">> \in f

\* The table k has changed, and f holds the announcement of it.
Changed(k, f, v, w, g, h) ==
    \/ <<k, "stale">> \in f
    \/ <<k, "auto">> \in f /\ h = g /\ \A x \in Tables \ {k} : w[x] = v[x]

LEMMA GoodGrows ==
    ASSUME NEW r, NEW d, NEW f, NEW v, NEW g, Good(r, d, v, g), Covers(d, f)
    PROVE  Good(r, f, v, g)
BY DEF Good, Covers, MarksStale

LEMMA GoodAfterChange ==
    ASSUME NEW r, NEW d, NEW f, NEW v, NEW w, NEW g, NEW h, NEW k \in Tables,
           Good(r, d, v, g), Covers(d, f), Changed(k, f, v, w, g, h)
    PROVE  Good(r, f, w, h)
BY DEF Good, Covers, Changed, MarksStale

LEMMA DataGrows ==
    ASSUME NEW d, NEW e, NEW f, NEW v, DataGood(d, e, v), Covers(e, f)
    PROVE  DataGood(d, f, v)
BY DEF DataGood, Covers, MarksStale

LEMMA DataAfterChange ==
    ASSUME NEW d, NEW e, NEW f, NEW v, NEW w, NEW g, NEW h, NEW k \in Tables,
           DataGood(d, e, v), Covers(e, f), Changed(k, f, v, w, g, h)
    PROVE  DataGood(d, f, w)
BY DEF DataGood, Covers, Changed, MarksStale

\* Applying a batch pays what it owes, unless it is the batch of a new topology.
LEMMA AppliedIsGood ==
    ASSUME NEW r, NEW b, NEW f, NEW data, NEW v, NEW g,
           Good(r, f \cup b, v, g), DataGood(data, f, v),
           ~(Created \in b /\ (MarksStale(b) \/ r.stale))
    PROVE  Good(Applied(r, b, data), f, v, g)
<1>1. Applied(r, b, data).stale = (Created \notin b /\ (r.stale \/ MarksStale(b)))
      /\ Applied(r, b, data).graph = r.graph
      /\ \A k \in Tables : Applied(r, b, data).data[k] =
            IF <<k, "auto">> \in b THEN data[k] ELSE r.data[k]
  BY DEF Applied
<1>2. CASE r.stale \/ MarksStale(b) \/ MarksStale(f)
  BY <1>1, <1>2 DEF Good
<1>3. CASE ~(r.stale \/ MarksStale(b) \/ MarksStale(f))
  <2>1. ~MarksStale(f \cup b)
    BY <1>3 DEF MarksStale
  <2>2. r.graph = g /\ \A k \in Tables : r.data[k] = v[k] \/ <<k, "auto">> \in f \cup b
    BY <1>3, <2>1 DEF Good
  <2>3. \A k \in Tables : data[k] = v[k] \/ <<k, "auto">> \in f
    BY <1>3 DEF DataGood
  <2>4. \A k \in Tables : Applied(r, b, data).data[k] = v[k] \/ <<k, "auto">> \in f
    BY <1>1, <2>2, <2>3
  <2> QED
    BY <1>1, <2>2, <2>4 DEF Good
<1> QED
  BY <1>2, <1>3

\* Nothing is lost when no table changes, announcements only come, and the batch stands.
LEMMA OwingStands ==
    ASSUME UNCHANGED <<version, shape, flush>>, Covers(Fresh, Fresh'), Owing
    PROVE  /\ ReadRowsGood' /\ ReadDataGood'
           /\ \A t \in Topologies : Covers(Owed(t), Owed(t)')
           /\ topo' = topo => RowsGood'
<1>1. \A t : (Ahead(t)' <=> Ahead(t))
  BY DEF Ahead
<1>2. \A t \in Topologies : Covers(Owed(t), Owed(t)')
  BY <1>1 DEF Owed, Covers
<1>3. Covers(Fresh \cup flush.batch, (Fresh \cup flush.batch)')
  BY DEF Covers
<1>4. ReadRowsGood'
  BY <1>3, GoodGrows DEF Owing, ReadRowsGood
<1>5. ReadDataGood'
  BY DataGrows DEF Owing, ReadDataGood
<1>6. ASSUME topo' = topo
      PROVE  RowsGood'
  BY <1>2, <1>6, GoodGrows DEF Owing, RowsGood
<1> QED
  BY <1>2, <1>4, <1>5, <1>6

----------------------------------------------------------------------------
(* The debts, step by step *)

LEMMA WritesKeepOwing ==
    ASSUME TopologyTypeOK, Owing, missed' = {},
           \/ \E k \in Tables, redraw, early \in BOOLEAN : WriteStarts(k, redraw, early)
           \/ WriteStores \/ WriteAnnounces
    PROVE  Owing'
<1>1. ASSUME NEW k \in Tables, NEW redraw \in BOOLEAN, NEW early \in BOOLEAN,
             WriteStarts(k, redraw, early)
      PROVE  Owing'
  <2>1. writer.at = "idle"
    BY <1>1, WriterFields DEF WriteStarts
  <2>2. writer'.early = early /\ writer'.at = IF early THEN "announce" ELSE "store"
    BY <1>1 DEF WriteStarts
  <2>3. UNCHANGED <<version, shape, topo, flush, pending>>
    BY <1>1 DEF WriteStarts
  <2>4. Covers(Fresh, Fresh')
    BY <2>1, <2>3 DEF Covers, Fresh
  <2>5. EarlyWaits'
    BY <2>2 DEF EarlyWaits
  <2> QED
    BY <2>3, <2>4, <2>5, OwingStands DEF Owing
<1>2. CASE WriteStores
  <2>1. writer # Idle
    BY <1>2, WriterFields DEF WriteStores
  <2>2. PICK k \in Tables : k = writer.table
    BY <2>1, WriterFields
  <2>3. UNCHANGED <<topo, pending, flush>> /\ writer.at = "store"
    BY <1>2 DEF WriteStores
  <2>4. writer'.at # "store" /\ (~writer.early =>
           writer'.at = "announce" /\ ~writer'.early /\ EventOf(writer') = EventOf(writer))
    <3>1. writer \in [at : {"store", "announce"}, table : Tables, redraw : BOOLEAN,
                      early : BOOLEAN, looked : BOOLEAN]
      BY <2>1 DEF TopologyTypeOK, Writes
    <3>2. CASE writer.early
      BY <1>2, <3>2, WriterFields DEF WriteStores
    <3>3. CASE ~writer.early
      <4>1. writer' = [writer EXCEPT !.at = "announce"]
        BY <1>2, <3>3 DEF WriteStores
      <4> QED
        BY <3>1, <3>3, <4>1 DEF EventOf
    <3> QED
      BY <3>2, <3>3
  <2>5. \/ EventOf(writer) \in Fresh'
        \/ /\ flush.at \in {"topologies", "data"} /\ flush.pass = 1
           /\ EventOf(writer) \in flush.batch
    <3>1. CASE writer.early
      <4>1. ~writer.looked
        BY <1>2, <3>1 DEF WriteStores
      <4> QED
        BY <2>3, <3>1, <4>1 DEF Owing, EarlyWaits, Fresh
    <3>2. CASE ~writer.early
      BY <2>4, <3>2 DEF Fresh
    <3> QED
      BY <3>1, <3>2
  <2>6. Covers(Fresh, Fresh')
    BY <2>3 DEF Covers, Fresh
  <2>7. ASSUME NEW f, EventOf(writer) \in f
        PROVE  Changed(k, f, version, version', shape, shape')
    <3>1. CASE writer.redraw
      BY <2>2, <2>7, <3>1 DEF Changed, EventOf
    <3>2. CASE ~writer.redraw
      <4>1. shape' = shape /\ version' = [version EXCEPT ![k] = @ + 1]
        BY <1>2, <2>2, <3>2 DEF WriteStores
      <4> QED
        BY <2>2, <2>7, <3>2, <4>1 DEF Changed, EventOf, TopologyTypeOK, Versions
    <3> QED
      BY <3>1, <3>2
  <2>8. RowsGood'
    <3>1. SUFFICES ASSUME NEW t \in Topologies, topo[t] # NoTopology
                   PROVE  Good(topo[t], Owed(t)', version', shape')
      BY <2>3 DEF RowsGood
    <3>2. Ahead(t)' <=> Ahead(t)
      BY <2>3 DEF Ahead
    <3>3. Covers(Owed(t), Owed(t)')
      BY <2>3, <2>6, <3>2 DEF Owed, Covers
    <3>4. flush.at \in {"topologies", "data"} => flush # Idle
      BY FlushFields
    <3>5. EventOf(writer) \in Owed(t)'
      BY <2>3, <2>5, <3>2, <3>4 DEF Owed, Ahead
    <3>6. Changed(k, Owed(t)', version, version', shape, shape')
      BY <2>7, <3>5
    <3>7. Good(topo[t], Owed(t), version, shape)
      BY <3>1 DEF Owing, RowsGood
    <3> QED
      BY <3>3, <3>6, <3>7, GoodAfterChange
  <2>9. ReadRowsGood'
    <3>1. SUFFICES ASSUME flush.at \in {"data", "write"}, NEW t \in flush.left
                   PROVE  Good(flush.rows[t], Fresh' \cup flush.batch, version', shape')
      BY <2>3 DEF ReadRowsGood
    <3>2. Covers(Fresh \cup flush.batch, Fresh' \cup flush.batch)
      BY <2>6 DEF Covers
    <3>3. Changed(k, Fresh' \cup flush.batch, version, version', shape, shape')
      BY <2>5, <2>7
    <3>4. Good(flush.rows[t], Fresh \cup flush.batch, version, shape)
      BY <3>1 DEF Owing, ReadRowsGood
    <3> QED
      BY <3>2, <3>3, <3>4, GoodAfterChange
  <2>10. ReadDataGood'
    <3>1. SUFFICES ASSUME flush.at = "write"
                   PROVE  DataGood(flush.data, Fresh', version')
      BY <2>3 DEF ReadDataGood
    <3>2. Changed(k, Fresh', version, version', shape, shape')
      BY <2>5, <2>7, <3>1
    <3>3. DataGood(flush.data, Fresh, version)
      BY <3>1 DEF Owing, ReadDataGood
    <3> QED
      BY <2>6, <3>2, <3>3, DataAfterChange
  <2>11. EarlyWaits'
    BY <2>4 DEF EarlyWaits
  <2> QED
    BY <2>8, <2>9, <2>10, <2>11 DEF Owing
<1>3. CASE WriteAnnounces
  <2>1. writer # Idle
    BY <1>3, WriterFields DEF WriteAnnounces
  <2>2. UNCHANGED <<version, shape, topo, flush>> /\ pending' = pending \cup {EventOf(writer)}
    BY <1>3 DEF WriteAnnounces, Announced, EventOf
  <2>3. Covers(Fresh, Fresh')
    BY <2>2 DEF Covers, Fresh
  <2>4. writer' = Idle \/ EventOf(writer') = EventOf(writer)
    <3>1. writer \in [at : {"store", "announce"}, table : Tables, redraw : BOOLEAN,
                      early : BOOLEAN, looked : BOOLEAN]
      BY <2>1 DEF TopologyTypeOK, Writes
    <3>2. CASE writer.early
      <4>1. writer' = [writer EXCEPT !.at = "store"]
        BY <1>3, <3>2 DEF WriteAnnounces
      <4> QED
        BY <3>1, <4>1 DEF EventOf
    <3>3. CASE ~writer.early
      BY <1>3, <3>3 DEF WriteAnnounces
    <3> QED
      BY <3>2, <3>3
  <2>5. EarlyWaits'
    BY <2>2, <2>4, WriterFields DEF EarlyWaits
  <2> QED
    BY <2>2, <2>3, <2>5, OwingStands DEF Owing
<1> QED
  BY <1>1, <1>2, <1>3

\* The tables are read: what is announced stays.
LEMMA LooksFresh ==
    ASSUME TopologyTypeOK, Looks, pending' = pending
    PROVE  Fresh' = Fresh /\ EarlyWaits'
<1>1. CASE writer = Idle
  BY <1>1, LooksTyped, WriterFields DEF Fresh, EarlyWaits
<1>2. CASE writer # Idle
  <2>1. EventOf(writer') = EventOf(writer)
    BY <1>2, LooksTyped DEF EventOf
  <2>2. Fresh' = Fresh
    BY <1>2, <2>1, LooksTyped DEF Fresh
  <2>3. EarlyWaits'
    BY LooksTyped DEF EarlyWaits
  <2> QED
    BY <2>2, <2>3
<1> QED
  BY <1>1, <1>2

\* A pass over the batch ends, and every topology that it has not reached has another pass
\* ahead.
LEMMA PassEndsKeepsOwed ==
    ASSUME TopologyTypeOK, flush # Idle, PassEnds(flush), Covers(Fresh, Fresh'),
           NEW t \in Topologies, flush.pass = 2 => ~Ahead(t)
    PROVE  Covers(Owed(t), Owed(t)')
<1>1. CASE flush.pass = 1
  <2>1. flush' = [at |-> "topologies", pass |-> 2, batch |-> flush.batch]
    BY <1>1, PassEndsTyped
  <2>2. Ahead(t)' /\ flush'.batch = flush.batch
    BY <2>1, FlushFields DEF Ahead
  <2> QED
    BY <2>2 DEF Owed, Covers
<1>2. CASE flush.pass = 2
  BY <1>2 DEF Owed, Covers
<1> QED
  BY <1>1, <1>2, PassEndsTyped

LEMMA ReadsKeepOwing ==
    ASSUME TopologyTypeOK, Owing, FlushTakes \/ FlushReadsTopologies \/ FlushReadsData
    PROVE  Owing'
<1>1. CASE FlushTakes
  <2>1. /\ flush = Idle /\ flush' = [at |-> "topologies", pass |-> 1, batch |-> pending]
        /\ UNCHANGED <<version, shape, topo, writer>>
    BY <1>1 DEF FlushTakes
  <2>2. flush'.at = "topologies" /\ flush'.pass = 1 /\ flush'.batch = pending /\ flush' # Idle
    BY <2>1, FlushFields
  <2>3. \A t \in Topologies : Ahead(t)' /\ ~Ahead(t)
    BY <2>1, <2>2 DEF Ahead
  <2>4. \A t \in Topologies : Covers(Owed(t), Owed(t)')
    BY <2>1, <2>2, <2>3 DEF Covers, Owed, Fresh
  <2>5. RowsGood'
    BY <2>1, <2>4, GoodGrows DEF Owing, RowsGood
  <2>6. EarlyWaits'
    BY <2>1, <2>2, FlushFields DEF Owing, EarlyWaits
  <2> QED
    BY <2>2, <2>5, <2>6 DEF Owing, ReadRowsGood, ReadDataGood
<1>2. CASE FlushReadsTopologies
  <2>1. flush # Idle /\ flush.at = "topologies"
        /\ UNCHANGED <<version, shape, topo, writer, pending>>
    BY <1>2, FlushFields DEF FlushReadsTopologies
  <2>2. Fresh' = Fresh
    BY <2>1 DEF Fresh
  <2>3. \A t \in Topologies : Owed(t) = Fresh \cup flush.batch
    BY <2>1 DEF Owed, Ahead
  <2>4. CASE \A e \in flush.batch : PassedOn(e)
    <3>1. PassEnds(flush)
      BY <1>2, <2>4 DEF FlushReadsTopologies
    <3>2. \A e : e \in flush.batch => e = Updated
      BY <2>4 DEF PassedOn
    <3>3. \A k \in Tables : <<k, "auto">> # Updated /\ <<k, "stale">> # Updated
      BY DEF Updated
    <3>4. \A t \in Topologies : Covers(Owed(t), Owed(t)')
      BY <2>2, <2>3, <3>2, <3>3 DEF Covers, Owed
    <3>5. RowsGood'
      BY <2>1, <3>4, GoodGrows DEF Owing, RowsGood
    <3>6. flush'.at \notin {"data", "write"}
      BY <2>1, <3>1, PassEndsTyped, FlushFields
    <3>7. EarlyWaits'
      <4>1. SUFFICES ASSUME writer.at = "store", writer.early, ~writer.looked
                     PROVE  EventOf(writer) \in pending
        BY <2>1 DEF EarlyWaits
      <4>2. writer.table \in Tables
        BY <4>1, WriterFields
      <4>3. EventOf(writer) # Updated
        BY <3>3, <4>2 DEF EventOf
      <4> QED
        BY <3>2, <4>1, <4>3 DEF Owing, EarlyWaits
    <3> QED
      BY <3>5, <3>6, <3>7 DEF Owing, ReadRowsGood, ReadDataGood
  <2>5. CASE ~\A e \in flush.batch : PassedOn(e)
    <3>1. flush' = [at |-> "data", pass |-> flush.pass, batch |-> flush.batch,
                    rows |-> topo, left |-> Saved]
      BY <1>2, <2>5 DEF FlushReadsTopologies
    <3>2. flush'.at = "data" /\ flush'.pass = flush.pass /\ flush'.batch = flush.batch
          /\ flush'.rows = topo /\ flush'.left = Saved /\ flush' # Idle
      BY <3>1, FlushFields
    <3>3. \A t \in Saved : Ahead(t)'
      BY <3>2 DEF Ahead
    <3>4. \A t \in Saved : Owed(t)' = Fresh \cup flush.batch
      BY <2>2, <3>2, <3>3 DEF Owed
    <3>5. \A t \in Saved : Good(topo[t], Fresh \cup flush.batch, version, shape)
      BY <2>3 DEF Owing, RowsGood, Saved
    <3>6. RowsGood'
      BY <2>1, <3>4, <3>5 DEF RowsGood, Saved
    <3>7. ReadRowsGood'
      BY <2>1, <2>2, <3>2, <3>5 DEF ReadRowsGood
    <3>8. EarlyWaits'
      BY <2>1, <3>2 DEF Owing, EarlyWaits
    <3> QED
      BY <3>2, <3>6, <3>7, <3>8 DEF Owing, ReadDataGood
  <2> QED
    BY <2>4, <2>5
<1>3. CASE FlushReadsData
  <2>1. flush # Idle /\ flush.at = "data" /\ Looks
        /\ UNCHANGED <<version, shape, topo, pending>>
    BY <1>3, FlushFields DEF FlushReadsData
  <2>2. Fresh' = Fresh /\ EarlyWaits'
    BY <2>1, LooksFresh
  <2>3. CASE flush.left = {}
    <3>1. PassEnds(flush)
      BY <1>3, <2>3 DEF FlushReadsData
    <3>2. ASSUME NEW t \in Topologies
          PROVE  Covers(Owed(t), Owed(t)')
      <4>1. flush.pass = 2 => ~Ahead(t)
        BY <2>1, <2>3 DEF Ahead
      <4>2. Covers(Fresh, Fresh')
        BY <2>2 DEF Covers
      <4> QED
        BY <2>1, <3>1, <4>1, <4>2, PassEndsKeepsOwed
    <3>3. RowsGood'
      BY <2>1, <3>2, GoodGrows DEF Owing, RowsGood
    <3>4. flush'.at \notin {"data", "write"}
      BY <2>1, <3>1, PassEndsTyped, FlushFields
    <3> QED
      BY <2>2, <3>3, <3>4 DEF Owing, ReadRowsGood, ReadDataGood
  <2>4. CASE flush.left # {}
    <3>1. flush' = [at |-> "write", pass |-> flush.pass, batch |-> flush.batch,
                    rows |-> flush.rows, left |-> flush.left, data |-> version]
      BY <1>3, <2>4 DEF FlushReadsData
    <3>2. flush'.at = "write" /\ flush'.pass = flush.pass /\ flush'.batch = flush.batch
          /\ flush'.rows = flush.rows /\ flush'.left = flush.left /\ flush'.data = version
          /\ flush' # Idle
      BY <3>1, FlushFields
    <3>3. \A t : (Ahead(t)' <=> Ahead(t))
      BY <2>1, <3>2 DEF Ahead
    <3>4. \A t : Owed(t)' = Owed(t)
      BY <2>2, <3>2, <3>3 DEF Owed
    <3>5. RowsGood'
      BY <2>1, <3>4 DEF Owing, RowsGood
    <3>6. ReadRowsGood'
      BY <2>1, <2>2, <3>2 DEF Owing, ReadRowsGood
    <3>7. ReadDataGood'
      BY <2>1, <3>2 DEF ReadDataGood, DataGood
    <3> QED
      BY <2>2, <3>5, <3>6, <3>7 DEF Owing
  <2> QED
    BY <2>3, <2>4
<1> QED
  BY <1>1, <1>2, <1>3

LEMMA BatchKeepsOwing ==
    ASSUME TopologyTypeOK, Owing, missed' = {}, NEW t \in Topologies, FlushWrites(t)
    PROVE  Owing'
<1>1. /\ flush # Idle /\ flush.at = "write" /\ t \in flush.left
      /\ UNCHANGED <<version, shape, writer>>
  BY FlushFields DEF FlushWrites
<1>2. pending \subseteq pending'
  BY DEF FlushWrites, Announced
<1>3. Covers(Fresh, Fresh')
  BY <1>1, <1>2 DEF Covers, Fresh
<1>4. EarlyWaits'
  BY <1>1, <1>2 DEF Owing, EarlyWaits
<1>5. ASSUME PassEnds(flush)
      PROVE  ReadRowsGood' /\ ReadDataGood'
  <2>1. flush'.at \notin {"data", "write"}
    BY <1>1, <1>5, PassEndsTyped, FlushFields
  <2> QED
    BY <2>1 DEF ReadRowsGood, ReadDataGood
<1>6. CASE topo[t] = NoTopology
  <2>1. PassEnds(flush) /\ UNCHANGED topo
    BY <1>6 DEF FlushWrites
  <2>2. ~(flush.pass = 2 /\ flush.left \ {t} # {})
    BY <1>6 DEF FlushWrites
  <2>3. ASSUME NEW u \in Topologies, topo[u] # NoTopology
        PROVE  Good(topo[u], Owed(u)', version, shape)
    <3>1. flush.pass = 2 => ~Ahead(u)
      BY <1>1, <1>6, <2>2, <2>3 DEF Ahead
    <3>2. Covers(Owed(u), Owed(u)')
      BY <1>1, <1>3, <2>1, <3>1, PassEndsKeepsOwed
    <3> QED
      BY <2>3, <3>2, GoodGrows DEF Owing, RowsGood
  <2> QED
    BY <1>1, <1>4, <1>5, <2>1, <2>3 DEF Owing, RowsGood
<1>7. CASE topo[t] # NoTopology
  <2>1. topo' = [topo EXCEPT ![t] = Applied(flush.rows[t], flush.batch, flush.data)]
    BY <1>7 DEF FlushWrites
  <2>2. ~(Created \in flush.batch /\ (MarksStale(flush.batch) \/ flush.rows[t].stale))
    BY <1>7 DEF FlushWrites
  <2>3. Good(Applied(flush.rows[t], flush.batch, flush.data), Fresh, version, shape)
    BY <1>1, <2>2, AppliedIsGood DEF Owing, ReadRowsGood, ReadDataGood
  <2>4. Covers(Fresh, Owed(t)')
    BY <1>3 DEF Covers, Owed
  <2>5. Good(Applied(flush.rows[t], flush.batch, flush.data), Owed(t)', version, shape)
    BY <2>3, <2>4, GoodGrows
  <2>6. ASSUME \A u \in Topologies \ {t} : Covers(Owed(u), Owed(u)')
        PROVE  RowsGood'
    <3>1. SUFFICES ASSUME NEW u \in Topologies, topo'[u] # NoTopology
                   PROVE  Good(topo'[u], Owed(u)', version, shape)
      BY <1>1 DEF RowsGood
    <3>2. CASE u = t
      BY <2>1, <2>5, <3>2 DEF TopologyTypeOK
    <3>3. CASE u # t
      <4>1. topo'[u] = topo[u]
        BY <2>1, <3>3 DEF TopologyTypeOK
      <4>2. Good(topo[u], Owed(u), version, shape)
        BY <3>1, <4>1 DEF Owing, RowsGood
      <4> QED
        BY <2>6, <3>3, <4>1, <4>2, GoodGrows
    <3> QED
      BY <3>2, <3>3
  <2>7. CASE flush.left \ {t} = {}
    <3>1. PassEnds(flush)
      BY <1>7, <2>7 DEF FlushWrites
    <3>2. ASSUME NEW u \in Topologies \ {t}
          PROVE  Covers(Owed(u), Owed(u)')
      <4>1. flush.pass = 2 => ~Ahead(u)
        BY <1>1, <2>7 DEF Ahead
      <4> QED
        BY <1>1, <1>3, <3>1, <4>1, PassEndsKeepsOwed
    <3> QED
      BY <1>4, <1>5, <2>6, <3>1, <3>2 DEF Owing
  <2>8. CASE flush.left \ {t} # {}
    <3>1. flush' = [flush EXCEPT !.left = flush.left \ {t}]
      BY <1>7, <2>8 DEF FlushWrites
    <3>2. flush \in [at : {"write"}, pass : 1..2, batch : SUBSET Events,
                     rows : [Topologies -> Row \cup {NoTopology}], left : SUBSET Topologies,
                     data : Versions]
      BY <1>1 DEF TopologyTypeOK, Batches, Idle
    <3>3. flush'.at = "write" /\ flush'.pass = flush.pass /\ flush'.batch = flush.batch
          /\ flush'.rows = flush.rows /\ flush'.left = flush.left \ {t}
          /\ flush'.data = flush.data
      BY <3>1, <3>2
    <3>4. flush' # Idle
      BY <3>3, FlushFields
    <3>5. ASSUME NEW u \in Topologies \ {t}
          PROVE  Covers(Owed(u), Owed(u)')
      <4>1. Ahead(u)' <=> Ahead(u)
        BY <1>1, <3>3, <3>4 DEF Ahead
      <4> QED
        BY <1>3, <3>3, <4>1 DEF Covers, Owed
    <3>6. ReadRowsGood'
      <4>1. SUFFICES ASSUME NEW u \in flush.left
                     PROVE  Good(flush.rows[u], Fresh' \cup flush.batch, version, shape)
        BY <1>1, <3>3 DEF ReadRowsGood
      <4>2. Covers(Fresh \cup flush.batch, Fresh' \cup flush.batch)
        BY <1>3 DEF Covers
      <4> QED
        BY <1>1, <4>2, GoodGrows DEF Owing, ReadRowsGood
    <3>7. ReadDataGood'
      BY <1>1, <1>3, <3>3, DataGrows DEF Owing, ReadDataGood
    <3> QED
      BY <1>4, <2>6, <3>5, <3>6, <3>7 DEF Owing
  <2> QED
    BY <2>7, <2>8
<1> QED
  BY <1>6, <1>7

LEMMA EditsKeepOwing ==
    ASSUME TopologyTypeOK, ReadsAgree, Owing, missed' = {}, EditWrites
    PROVE  Owing'
<1>1. editor.at = "write" /\ UNCHANGED <<version, shape, flush, writer>>
  BY DEF EditWrites
<1>2. pending \subseteq pending'
  BY DEF EditWrites, Announced
<1>3. Covers(Fresh, Fresh')
  BY <1>1, <1>2 DEF Covers, Fresh
<1>4. EarlyWaits'
  BY <1>1, <1>2 DEF Owing, EarlyWaits
<1>5. /\ ReadRowsGood' /\ ReadDataGood'
      /\ \A t \in Topologies : Covers(Owed(t), Owed(t)')
      /\ topo' = topo => RowsGood'
  BY <1>1, <1>3, OwingStands
<1>6. CASE editor.kind # "create" /\ topo[editor.topology] = NoTopology
  <2>1. topo' = topo
    BY <1>6 DEF EditWrites
  <2> QED
    BY <1>4, <1>5, <2>1 DEF Owing
<1>7. CASE ~(editor.kind # "create" /\ topo[editor.topology] = NoTopology)
  <2>1. PICK t \in Topologies : t = editor.topology
    BY <1>1, EditorFields
  <2>2. topo' = [topo EXCEPT ![t] = NewRow(editor)]
    BY <1>7, <2>1 DEF EditWrites
  <2>3. editor.body = topo[t] /\ (editor.kind # "put" => editor.data = version)
    BY <1>7, <2>1 DEF EditWrites, Misses
  <2>4. editor.kind # "put" => editor.graph = shape
    BY <1>1, <2>3, EditorFields DEF ReadsAgree
  <2>5. Good(NewRow(editor), Owed(t)', version, shape)
    <3>1. ASSUME editor.kind \in {"put", "refresh"}
          PROVE  Good(editor.body, Owed(t)', version, shape)
      <4>1. topo[t] # NoTopology
        BY <1>7, <2>1, <3>1
      <4>2. Good(topo[t], Owed(t), version, shape)
        BY <4>1 DEF Owing, RowsGood
      <4> QED
        BY <1>5, <2>3, <4>2, GoodGrows
    <3>2. CASE editor.kind = "put"
      BY <3>1, <3>2 DEF NewRow
    <3>3. CASE editor.kind = "refresh"
      <4>1. NewRow(editor) = [editor.body EXCEPT !.data = editor.data] /\ editor.body \in Row
        BY <1>1, <3>3, EditorFields DEF NewRow
      <4>2. NewRow(editor).data = version /\ NewRow(editor).graph = editor.body.graph
            /\ NewRow(editor).stale = editor.body.stale
        BY <2>3, <3>3, <4>1 DEF Row
      <4>3. Good(editor.body, Owed(t)', version, shape)
        BY <3>1, <3>3
      <4> QED
        BY <4>2, <4>3 DEF Good
    <3>4. CASE editor.kind # "put" /\ editor.kind # "refresh"
      <4>1. NewRow(editor) = [data |-> editor.data, graph |-> editor.graph, stale |-> FALSE]
        BY <3>4 DEF NewRow
      <4>2. NewRow(editor).data = version /\ NewRow(editor).graph = shape
        BY <2>3, <2>4, <3>4, <4>1
      <4> QED
        BY <4>2 DEF Good
    <3> QED
      BY <3>2, <3>3, <3>4
  <2>6. RowsGood'
    <3>1. SUFFICES ASSUME NEW u \in Topologies, topo'[u] # NoTopology
                   PROVE  Good(topo'[u], Owed(u)', version, shape)
      BY <1>1 DEF RowsGood
    <3>2. CASE u = t
      BY <2>2, <2>5, <3>2 DEF TopologyTypeOK
    <3>3. CASE u # t
      <4>1. topo'[u] = topo[u]
        BY <2>2, <3>3 DEF TopologyTypeOK
      <4>2. Good(topo[u], Owed(u), version, shape)
        BY <3>1, <4>1 DEF Owing, RowsGood
      <4> QED
        BY <1>5, <4>1, <4>2, GoodGrows
    <3> QED
      BY <3>2, <3>3
  <2> QED
    BY <1>4, <1>5, <2>6 DEF Owing
<1> QED
  BY <1>6, <1>7

\* Once something is lost, it stays recorded.
LEMMA MissedStays ==
    ASSUME TopologyNext, missed' = {}
    PROVE  missed = {}
<1>1. missed \subseteq missed'
  BY DEF TopologyNext, WriteStarts, WriteStores, WriteAnnounces, FlushTakes, FlushReadsTopologies,
         FlushReadsData, FlushWrites, EditWrites, TopologyRestart, BrowserLooks, Rebuild, Refresh,
         UpdateTopology, Lock, CreateTopology, DeleteTopology
<1> QED
  BY <1>1

LEMMA DebtsStep ==
    ASSUME TopologyTypeOK, ReadsAgree, Debts, TopologyNext
    PROVE  Debts'
<1>1. SUFFICES ASSUME missed' = {}
               PROVE  Owing'
  BY DEF Debts
<1>2. Owing
  BY <1>1, MissedStays DEF Debts
<1>3. ASSUME UNCHANGED <<version, shape, topo, flush, pending>>, Fresh' = Fresh, EarlyWaits'
      PROVE  Owing'
  BY <1>2, <1>3, OwingStands DEF Owing, Covers
<1>4. ASSUME UNCHANGED <<version, shape, topo, flush, pending, writer>>
      PROVE  Owing'
  BY <1>2, <1>3, <1>4 DEF Fresh, Owing, EarlyWaits
<1>5. CASE \/ \E k \in Tables, redraw, early \in BOOLEAN : WriteStarts(k, redraw, early)
           \/ WriteStores \/ WriteAnnounces
  BY <1>1, <1>2, <1>5, WritesKeepOwing
<1>6. CASE FlushTakes \/ FlushReadsTopologies \/ FlushReadsData
  BY <1>2, <1>6, ReadsKeepOwing
<1>7. ASSUME NEW t \in Topologies, FlushWrites(t)
      PROVE  Owing'
  BY <1>1, <1>2, <1>7, BatchKeepsOwing
<1>8. CASE EditWrites
  BY <1>1, <1>2, <1>8, EditsKeepOwing
<1>9. ASSUME NEW t \in Topologies, Rebuild(t) \/ Refresh(t) \/ CreateTopology(t)
      PROVE  Owing'
  <2>1. Looks /\ UNCHANGED <<version, shape, topo, flush, pending>>
    BY <1>9 DEF Rebuild, Refresh, CreateTopology, TablesRead
  <2> QED
    BY <1>3, <2>1, LooksFresh
<1>10. ASSUME NEW t \in Topologies, BrowserLooks(t) \/ UpdateTopology(t) \/ Lock(t)
       PROVE  Owing'
  BY <1>4, <1>10 DEF BrowserLooks, UpdateTopology, Lock
<1>11. ASSUME NEW t \in Topologies, DeleteTopology(t)
       PROVE  Owing'
  <2>1. UNCHANGED <<version, shape, flush, pending, writer>>
        /\ topo' = [topo EXCEPT ![t] = NoTopology]
    BY <1>11 DEF DeleteTopology
  <2>2. Covers(Fresh, Fresh') /\ EarlyWaits'
    BY <1>2, <2>1 DEF Covers, Fresh, Owing, EarlyWaits
  <2>3. /\ ReadRowsGood' /\ ReadDataGood'
        /\ \A u \in Topologies : Covers(Owed(u), Owed(u)')
    BY <1>2, <2>1, <2>2, OwingStands
  <2>4. \A u \in Topologies : topo'[u] # NoTopology => topo'[u] = topo[u]
    BY <2>1 DEF TopologyTypeOK
  <2>5. RowsGood'
    BY <1>2, <2>1, <2>3, <2>4, GoodGrows DEF Owing, RowsGood
  <2> QED
    BY <2>2, <2>3, <2>5 DEF Owing
<1>12. CASE TopologyRestart
  <2>1. writer = Idle /\ pending = {} /\ flush = Idle
    BY <1>1, <1>12 DEF TopologyRestart
  <2> QED
    BY <1>4, <1>12, <2>1 DEF TopologyRestart
<1> QED
  BY <1>5, <1>6, <1>7, <1>8, <1>9, <1>10, <1>11, <1>12 DEF TopologyNext

----------------------------------------------------------------------------
(* The theorems *)

LEMMA TopologyInductive == TopologySpec => []TopologyInv
<1>1. TopologyInit => TopologyInv
  <2> SUFFICES ASSUME TopologyInit PROVE TopologyInv
    OBVIOUS
  <2>1. Idle.at = "idle"
    BY DEF Idle
  <2>2. version \in [Tables -> 0..MaxChanges] /\ version \in [Tables -> Nat] /\ shape = 0
    BY TopologyAssumption DEF TopologyInit
  <2>3. [data |-> version, graph |-> shape, stale |-> FALSE] \in Row
    BY <2>2 DEF Row
  <2>4. topo \in [Topologies -> Row \cup {NoTopology}] /\ copy = topo
    BY <2>3 DEF TopologyInit
  <2>5. TopologyTypeOK
    BY <2>2, <2>4, TopologyAssumption
       DEF TopologyInit, TopologyTypeOK, Versions, Batches, Writes, Edits
  <2>6. \A t \in Topologies : topo[t] # NoTopology =>
            topo[t] = [data |-> version, graph |-> shape, stale |-> FALSE]
    BY DEF TopologyInit
  <2>7. RowsGood
    BY <2>6 DEF RowsGood, Good
  <2>8. flush.at = "idle" /\ writer.at = "idle" /\ writer = Idle /\ editor = Idle
    BY <2>1 DEF TopologyInit
  <2>9. Debts /\ RowsRead /\ WriterHasRoom /\ ReadsAgree
    BY <2>7, <2>8
       DEF Debts, Owing, ReadRowsGood, ReadDataGood, EarlyWaits, RowsRead, WriterHasRoom, ReadsAgree
  <2>10. RoundsEnd
    BY DEF TopologyInit, RoundsEnd
  <2> QED
    BY <2>5, <2>9, <2>10 DEF TopologyInv
<1>2. TopologyInv /\ [TopologyNext]_topologyVars => TopologyInv'
  <2> SUFFICES ASSUME TopologyInv, [TopologyNext]_topologyVars PROVE TopologyInv'
    OBVIOUS
  <2>1. CASE TopologyNext
    BY <2>1, TypesStep, RoundsStep, ReadsStep, DebtsStep DEF TopologyInv
  <2>2. CASE UNCHANGED topologyVars
    <3>1. UNCHANGED <<version, shape, topo, copy, pending, flush, writer, editor, edits, missed, rounds>>
      BY <2>2 DEF topologyVars
    <3>2. TopologyTypeOK' /\ WriterHasRoom' /\ RowsRead' /\ RoundsEnd' /\ ReadsAgree'
      BY <3>1 DEF TopologyInv, TopologyTypeOK, WriterHasRoom, RowsRead, RoundsEnd, ReadsAgree
    <3>3. \A t : (Ahead(t)' <=> Ahead(t))
      BY <3>1 DEF Ahead
    <3>4. Fresh' = Fresh
      BY <3>1 DEF Fresh
    <3>5. \A t : Owed(t)' = Owed(t)
      BY <3>1, <3>3, <3>4 DEF Owed
    <3>6. Debts'
      BY <3>1, <3>4, <3>5
         DEF TopologyInv, Debts, Owing, RowsGood, ReadRowsGood, ReadDataGood, EarlyWaits
    <3> QED
      BY <3>2, <3>6 DEF TopologyInv
  <2> QED
    BY <2>1, <2>2
<1> QED
  BY <1>1, <1>2, PTL DEF TopologySpec

\* The tables, the topologies, the bus and the requests keep their types.
THEOREM TopologyTypes == TopologySpec => []TopologyTypeOK
<1>1. TopologyInv => TopologyTypeOK
  BY DEF TopologyInv
<1> QED
  BY <1>1, TopologyInductive, PTL

\* A topology service that hears of its own writes does not keep itself busy: a batch is
\* followed by at most one more, whatever is in it and however many topologies there are.
THEOREM NoEndlessBatches == TopologySpec => []BatchesEnd
<1>1. TopologyInv => BatchesEnd
  BY DEF TopologyInv, RoundsEnd, BatchesEnd
<1> QED
  BY <1>1, TopologyInductive, PTL

\* When every announcement has been worked off, a topology shows the tables as they are or
\* says that it is stale, unless one of the five named losses has happened.
THEOREM AnnouncementsReachTopologies == TopologySpec => []StaleOrCurrent
<1>1. TopologyInv => StaleOrCurrent
  <2> SUFFICES ASSUME TopologyInv, Quiet, missed = {}, NEW t \in Saved
               PROVE  topo[t].stale \/ (topo[t].data = version /\ topo[t].graph = shape)
    BY DEF StaleOrCurrent
  <2>1. t \in Topologies /\ topo[t] # NoTopology /\ topo[t] \in Row /\ version \in [Tables -> Nat]
    BY TopologyAssumption DEF Saved, TopologyInv, TopologyTypeOK, Versions
  <2>2. Good(topo[t], Owed(t), version, shape)
    BY <2>1 DEF TopologyInv, Debts, Owing, RowsGood
  <2>3. writer.at = "idle"
    BY DEF Quiet, Idle
  <2>4. Owed(t) = {}
    BY <2>3 DEF Quiet, Owed, Ahead, Fresh
  <2>5. topo[t].stale \/ (topo[t].graph = shape /\ \A k \in Tables : topo[t].data[k] = version[k])
    BY <2>2, <2>4 DEF Good, MarksStale
  <2>6. topo[t].data \in [Tables -> Nat]
    BY <2>1 DEF Row
  <2> QED
    BY <2>1, <2>5, <2>6
<1> QED
  BY <1>1, TopologyInductive, PTL
=============================================================================
