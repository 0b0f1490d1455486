--------------------------- MODULE IngestPipeline ---------------------------
(***************************************************************************)
(* The ingestion pipeline (pipelines/ingestion/main.py with its indexers,  *)
(* embedder and graph extractor).  A run lists the documents under a       *)
(* prefix and takes them a batch at a time: download, parse and chunk,     *)
(* embed while the graph is extracted, write the vectors to Qdrant and     *)
(* then the entities to Neo4j.  Every stage goes on without what failed;   *)
(* what is left is counted in stats.  Both stores are written in           *)
(* sub-batches, by calls that retry inside a loop that retries the call.   *)
(* Neither store promises much: Qdrant is told not to wait (wait=False),   *)
(* applies what it took in whenever it does, or never, and a query for     *)
(* edges may fail in a transaction that commits.                           *)
(*                                                                         *)
(* A run is main() in a process of its own (the command line), main() in a *)
(* thread of a server, or ingest_specific_files() in a thread of the       *)
(* crawler.  Runs share the bucket and the two stores and nothing else.    *)
(***************************************************************************)
EXTENDS Naturals, FiniteSets

CONSTANTS
  Runs,
  Documents,   \* objects of the bucket
  Stored,      \* those that are there from the start
  Supported,   \* those with one of SUPPORTED_EXTENSIONS
  Chunks,
  ChunksOf,    \* split_text of the text of a document; a chunk names its source_file,
               \* so that no two documents have one in common
  Entities,
  EntitiesOf,  \* graph_nodes and graph_edges the model extracts from a chunk
  EdgesOf,
  Relations,       \* types of edges the model may come up with,
  ValidRelations,  \* and VALID_RELATION_TYPES
  FileBatch,   \* file_batch_size
  EmbedBatch,  \* embedding_batch_size
  GraphBatch,  \* graph_batch_size
  SubBatch,    \* 100
  Calls,       \* calls of an indexer's write for one sub-batch (3)
  Tries,       \* attempts inside a call: QDRANT_MAX_RETRIES, NEO4J_MAX_RETRIES
  MaxFaults    \* bound: failures of services, and interruptions of the server

ASSUME IngestPipelineAssumption ==
  /\ Supported \cup Stored \subseteq Documents
  /\ IsFiniteSet(Documents) /\ IsFiniteSet(Chunks)
  /\ ChunksOf \in [Supported -> (SUBSET Chunks) \ {{}}]
  /\ \A d, e \in Supported : d # e => ChunksOf[d] \cap ChunksOf[e] = {}
  /\ EntitiesOf \in [Chunks -> SUBSET Entities]
  /\ EdgesOf \in [Chunks -> SUBSET (Entities \X Relations \X Entities)]
  /\ ValidRelations \subseteq Relations
  /\ {FileBatch, EmbedBatch, GraphBatch, SubBatch, Calls, Tries} \subseteq Nat \ {0}
  /\ MaxFaults \in Nat

Stores == {"qdrant", "neo4j"}

VARIABLES
  \* What the runs share.
  bucket,     \* objects in MinIO
  points,     \* points of the Qdrant collection,
  underway,   \* those on their way into it: sent or acknowledged, not yet applied,
  discarded,  \* and those that were lost on it (history)
  nodes,      \* :Entity nodes of Neo4j, each with the run that created it
  links,      \* its relationships,
  unlinked,   \* and edges of each run whose query failed before the commit (history)
  down,       \* stores that cannot be reached
  faults,
  \* A run.
  run,        \* its local variables
  stats,
  exit,       \* exit code: "none" until the run returns
  signalled,  \* _shutdown_requested
  \* History variables: no action reads them.
  counted,    \* chunks in vectors_indexed
  merged,     \* chunks of the sub-batches written to Neo4j
  lost,       \* chunks given up without being counted as failed
  raised,     \* chunks of calls of QdrantIndexer.write that raised
  overlaps    \* <<r, q>>: transactions of r and q that were open together

qdrant == <<points, underway, discarded>>
neo4j  == <<nodes, links, unlinked>>
stores == <<bucket, qdrant, neo4j, down>>
locals == <<run, stats, exit, signalled>>
past   == <<counted, merged, lost, raised, overlaps>>
vars   == <<stores, faults, locals, past>>

-----------------------------------------------------------------------------
Stages == {"idle", "list", "download", "parse", "fork", "vectors", "graph", "over", "dead"}
Entries == {"main", "specific"}
Counters == {"files_seen", "files_processed", "files_failed", "chunks_created",
             "vectors_indexed", "vectors_failed"}

RunState == [
  stage    : Stages,
  entry    : Entries,              \* main or ingest_specific_files
  own      : BOOLEAN,              \* main in the main thread of its own process
  graphing : BOOLEAN,              \* enable_graph
  docs     : SUBSET Documents,     \* the prefix, or object_names
  names    : SUBSET Documents,     \* all_doc_names not yet downloaded
  files    : SUBSET Documents,     \* file_batch
  worked   : BOOLEAN,              \* batch_num > 0
  toEmbed  : SUBSET Chunks,        \* batch_chunks before batch_embed,
  vectors  : SUBSET Chunks,        \* its results not yet written,
  blank    : SUBSET Chunks,        \* and those whose vector is None
  toGraph  : SUBSET Chunks,        \* batch_chunks before batch_extract_graph,
  graphs   : SUBSET Chunks,        \* its results not yet written,
  empty    : SUBSET Chunks,        \* and those with empty graph data
  sub      : SUBSET Chunks,        \* the sub-batch being written
  call     : 1..Calls,
  try      : 1..Tries,
  open     : BOOLEAN,              \* the transaction of this attempt is open
  known    : SUBSET Entities ]     \* entities it found

PointId == [call : 1..Calls, try : 1..Tries]
Point   == [chunk : Chunks, run : Runs, id : PointId]
Node    == [entity : Entities, run : Runs]
Edge    == Entities \X Relations \X Entities

TypeOK ==
  /\ bucket \subseteq Documents
  /\ {points, underway, discarded} \subseteq SUBSET Point
  /\ nodes \subseteq Node
  /\ links \subseteq Edge
  /\ unlinked \in [Runs -> SUBSET Edge]
  /\ down \subseteq Stores
  /\ faults \in Nat
  /\ run \in [Runs -> RunState]
  /\ stats \in [Runs -> [Counters -> Nat]]
  /\ exit \in [Runs -> {"none", "zero", "one"}]
  /\ signalled \in [Runs -> BOOLEAN]
  /\ {counted, merged, lost, raised} \subseteq [Runs -> SUBSET Chunks]
  /\ overlaps \subseteq Runs \X Runs

Idle == [ stage |-> "idle", entry |-> "main", own |-> FALSE, graphing |-> FALSE,
          docs |-> {}, names |-> {}, files |-> {}, worked |-> FALSE,
          toEmbed |-> {}, vectors |-> {}, blank |-> {},
          toGraph |-> {}, graphs |-> {}, empty |-> {},
          sub |-> {}, call |-> 1, try |-> 1, open |-> FALSE, known |-> {} ]

None == [r \in Runs |-> {}]

Init ==
  /\ bucket = Stored
  /\ points = {} /\ underway = {} /\ discarded = {}
  /\ nodes = {} /\ links = {} /\ unlinked = None
  /\ down = {} /\ faults = 0
  /\ run = [r \in Runs |-> Idle]
  /\ stats = [r \in Runs |-> [c \in Counters |-> 0]]
  /\ exit = [r \in Runs |-> "none"]
  /\ signalled = [r \in Runs |-> FALSE]
  /\ counted = None /\ merged = None /\ lost = None /\ raised = None
  /\ overlaps = {}

-----------------------------------------------------------------------------
Fail ==
  /\ faults < MaxFaults
  /\ faults' = faults + 1

\* A step in which something goes wrong exactly if bad holds.
FailIf(bad) == IF bad THEN Fail ELSE UNCHANGED faults

In(r, stage) == run[r].stage = stage

\* An attempt at a store fails; the store may be out of reach from here on.
FailsAt(s) ==
  /\ Fail
  /\ down' \in {down, down \cup {s}}

Become(r, x) == run' = [run EXCEPT ![r] = x]

Add(r, new) == stats' = [stats EXCEPT ![r] =
                 [c \in Counters |-> @[c] + IF c \in DOMAIN new THEN new[c] ELSE 0]]

Lose(r, chunks) == lost' = [lost EXCEPT ![r] = @ \cup chunks]

\* The next batch of at most size elements.  Files and their chunks arrive in
\* the order in which downloads and parsers finish.
NextOf(left, size) ==
  {b \in SUBSET left : IF Cardinality(left) <= size THEN b = left ELSE Cardinality(b) = size}

\* A run begins, for documents docs.
Start(r, entry, own, docs, graphing) ==
  /\ In(r, "idle")
  /\ Become(r, [Idle EXCEPT !.stage = "list", !.entry = entry, !.own = own,
                            !.docs = docs, !.graphing = graphing])
  /\ UNCHANGED <<stores, faults, stats, exit, signalled, past>>

\* The prefix is that of docs; own: in the main thread of a process.
main(r, own, docs, graphing) == Start(r, "main", own, docs, graphing)

ingest_specific_files(r, docs, graphing) == Start(r, "specific", FALSE, docs, graphing)

\* SIGINT or SIGTERM: main installs its handler in a main thread only.
Signal(r) ==
  /\ run[r].own
  /\ run[r].stage \notin {"idle", "over", "dead"}
  /\ ~signalled[r]
  /\ signalled' = [signalled EXCEPT ![r] = TRUE]
  /\ UNCHANGED <<stores, faults, run, stats, exit, past>>

\* Neo4jIndexer() connects, the other clients do so when they are used.
NoGraph(r) == run[r].graphing /\ "neo4j" \in down

\* main creates it before it lists, ingest_specific_files after the download.
Connects(r) == In(r, IF run[r].entry = "main" THEN "list" ELSE "parse")

\* MinIO or Neo4j cannot be reached, or the listing breaks off.
Unreachable(r) ==
  /\ \/ Connects(r) /\ NoGraph(r) /\ UNCHANGED faults
     \/ (Connects(r) \/ In(r, "list")) /\ Fail
  /\ Become(r, [run[r] EXCEPT !.stage = "over", !.files = {}])
  /\ exit' = [exit EXCEPT ![r] = "one"]
  /\ UNCHANGED <<stores, stats, signalled, past>>

\* main lists the objects under its prefix.
List(r) ==
  /\ In(r, "list") /\ run[r].entry = "main"
  /\ ~signalled[r] /\ ~NoGraph(r)
  /\ LET listed == run[r].docs \cap bucket
     IN  /\ Become(r, [run[r] EXCEPT !.stage = "download", !.names = listed \cap Supported])
         /\ Add(r, [files_seen |-> Cardinality(listed)])
  /\ UNCHANGED <<stores, faults, exit, signalled, past>>

\* The documents of batch are downloaded; those that cannot be are counted.
Fetch(r, batch) ==
  /\ \E got \in SUBSET (batch \cap bucket) :
       /\ FailIf(got # batch)
       /\ Become(r, [run[r] EXCEPT !.stage = IF got = {} THEN "download" ELSE "parse",
                                   !.names = @ \ batch, !.files = got])
       /\ Add(r, [files_seen   |-> IF In(r, "list") THEN Cardinality(batch) ELSE 0,
                  files_failed |-> Cardinality(batch \ got)])
  /\ UNCHANGED <<stores, exit, signalled, past>>

\* _iter_file_batches: an empty batch is not yielded.
Download(r) ==
  /\ In(r, "download")
  /\ run[r].names # {} /\ ~signalled[r]
  /\ \E batch \in NextOf(run[r].names, FileBatch) : Fetch(r, batch)

\* ingest_specific_files takes all its documents in one batch.
_download_specific(r) ==
  /\ In(r, "list") /\ run[r].entry = "specific"
  /\ Fetch(r, run[r].docs \cap Supported)

\* Its chunks, or an error.
process_single_file(f, good) == IF good THEN ChunksOf[f] ELSE {}

\* The batch is parsed and chunked.  A signal that arrives in the meantime leaves
\* the files that are not through, and whatever was parsed is dropped.
Parse(r) ==
  /\ In(r, "parse")
  /\ ~(Connects(r) /\ NoGraph(r))
  /\ \E through \in SUBSET run[r].files : \E good \in SUBSET through :
       /\ through = run[r].files \/ signalled[r]
       /\ FailIf(good # through)
       /\ LET chunks == UNION {process_single_file(f, f \in good) : f \in through}
              stop   == chunks = {} \/ signalled[r]
          IN  /\ Become(r, [run[r] EXCEPT
                   !.stage = IF stop THEN "download" ELSE "fork", !.files = {}, !.worked = TRUE,
                   !.toEmbed = IF stop THEN {} ELSE chunks,
                   !.toGraph = IF stop \/ ~run[r].graphing THEN {} ELSE chunks])
              /\ Add(r, [files_processed |-> Cardinality(good),
                         files_failed    |-> Cardinality(through \ good),
                         chunks_created  |-> Cardinality(chunks)])
              /\ Lose(r, IF stop THEN chunks ELSE {})
  /\ UNCHANGED <<stores, exit, signalled, counted, merged, raised, overlaps>>

\* Mutant: a text without a vector is counted as failed, and stays in the results.
EmbedCountsBlanks(r) ==
  /\ In(r, "fork")
  /\ \E batch \in NextOf(run[r].toEmbed, EmbedBatch) : \E good \in SUBSET batch :
       /\ batch # {} /\ ~signalled[r]
       /\ FailIf(good # batch)
       /\ Become(r, [run[r] EXCEPT !.toEmbed = @ \ batch,
            !.vectors = @ \cup batch, !.blank = @ \cup (batch \ good)])
       /\ Add(r, [vectors_failed |-> Cardinality(batch \ good)])
  /\ UNCHANGED <<stores, exit, signalled, past>>

\* BatchEmbedder: the texts of a batch that get a vector.  It raises if there is none.
BatchEmbedder(batch) == (SUBSET batch) \ {{}}

\* batch_embed, one batch.  If the embedder raises three times the batch is
\* counted as failed and skipped; otherwise the texts without a vector go on
\* with None.
Embed(r) ==
  /\ In(r, "fork")
  /\ \E batch \in NextOf(run[r].toEmbed, EmbedBatch) : \E good \in BatchEmbedder(batch) \cup {{}} :
       /\ batch # {} /\ ~signalled[r]
       /\ FailIf(good # batch)
       /\ Become(r, IF good = {} THEN [run[r] EXCEPT !.toEmbed = @ \ batch]
                    ELSE [run[r] EXCEPT !.toEmbed = @ \ batch,
                            !.vectors = @ \cup batch, !.blank = @ \cup (batch \ good)])
       /\ Add(r, [vectors_failed |-> IF good = {} THEN Cardinality(batch) ELSE 0])
  /\ UNCHANGED <<stores, exit, signalled, past>>

\* GraphExtractor: the texts of a batch that get a graph.  It does not raise for
\* the others: their lists are empty, and graph_failed stays 0.
GraphExtractor(batch) == SUBSET batch

\* batch_extract_graph, one batch.
Extract(r) ==
  /\ In(r, "fork")
  /\ \E batch \in NextOf(run[r].toGraph, GraphBatch) : \E good \in GraphExtractor(batch) :
       /\ batch # {} /\ ~signalled[r]
       /\ FailIf(good # batch)
       /\ Become(r, [run[r] EXCEPT !.toGraph = @ \ batch,
            !.graphs = @ \cup batch, !.empty = @ \cup (batch \ good)])
  /\ UNCHANGED <<stores, stats, exit, signalled, past>>

\* Both forks have returned.
Join(r) ==
  /\ In(r, "fork")
  /\ run[r].toEmbed \cup run[r].toGraph = {} \/ signalled[r]
  /\ Become(r, [run[r] EXCEPT !.stage = "vectors", !.toEmbed = {}, !.toGraph = {}])
  /\ Lose(r, run[r].toEmbed)
  /\ UNCHANGED <<stores, faults, stats, exit, signalled, counted, merged, raised, overlaps>>

-----------------------------------------------------------------------------
\* Attempts: Tries in a call of write, Calls of write for a sub-batch.
Fresh(x, sub) == [x EXCEPT !.sub = sub, !.call = 1, !.try = 1, !.open = FALSE, !.known = {}]

Retry(x) == [x EXCEPT !.try = @ + 1, !.open = FALSE, !.known = {}]

CallAgain(x) == [Fresh(x, x.sub) EXCEPT !.call = x.call + 1]

Raises(x)  == x.try = Tries
GivesUp(x) == Raises(x) /\ x.call = Calls

\* Mutant: the loop over the calls never ends.
RetryForever(x) ==
  IF ~Raises(x) THEN Retry(x) ELSE Fresh(x, x.sub)

AfterFailure(x) ==
  IF GivesUp(x) THEN Fresh(x, {}) ELSE IF Raises(x) THEN CallAgain(x) ELSE Retry(x)

\* Mutant: the signal is not looked at between sub-batches.
TakeVectorsUnchecked(r) ==
  /\ In(r, "vectors")
  /\ run[r].sub = {}
  /\ \E sub \in NextOf(run[r].vectors, SubBatch) :
       /\ sub # {}
       /\ LET rest == [run[r] EXCEPT !.vectors = @ \ sub]
              void == sub \subseteq run[r].blank
          IN  /\ Become(r, Fresh(rest, IF void THEN {} ELSE sub))
              /\ Lose(r, IF void THEN sub ELSE {})
  /\ UNCHANGED <<stores, faults, stats, exit, signalled, counted, merged, raised, overlaps>>

\* The next sub-batch of vectors.  A call whose rows have no valid vector
\* returns 0 before it calls Qdrant.
TakeVectors(r) ==
  /\ In(r, "vectors")
  /\ run[r].sub = {} /\ ~signalled[r]
  /\ \E sub \in NextOf(run[r].vectors, SubBatch) :
       /\ sub # {}
       /\ LET rest == [run[r] EXCEPT !.vectors = @ \ sub]
              void == sub \subseteq run[r].blank
          IN  /\ Become(r, Fresh(rest, IF void THEN {} ELSE sub))
              /\ Lose(r, IF void THEN sub ELSE {})
  /\ UNCHANGED <<stores, faults, stats, exit, signalled, counted, merged, raised, overlaps>>

\* _validate_vector: None is no vector.
Valid(r) == run[r].sub \ run[r].blank

\* Mutant: every attempt draws its ids.
IdOfAttempt(x) == [call |-> x.call, try |-> x.try]

\* write draws its uuid4 ids before the first attempt.
IdOf(x) == [call |-> x.call, try |-> 1]

NewPoints(r) == {[chunk |-> c, run |-> r, id |-> IdOf(run[r])] : c \in Valid(r)}

\* Qdrant gets them; a repetition of what it has already applied adds nothing.
TakenIn(r) == underway \cup (NewPoints(r) \ points)

\* One attempt of QdrantIndexer.write that is answered: with wait=False this
\* acknowledges the points, and they are applied later.
Upsert(r) ==
  /\ In(r, "vectors")
  /\ run[r].sub # {} /\ "qdrant" \notin down
  /\ underway' = TakenIn(r)
  /\ Add(r, [vectors_indexed |-> Cardinality(Valid(r))])
  /\ counted' = [counted EXCEPT ![r] = @ \cup Valid(r)]
  /\ Lose(r, run[r].sub \cap run[r].blank)
  /\ Become(r, Fresh(run[r], {}))
  /\ UNCHANGED <<bucket, points, discarded, neo4j, down,
                 faults, exit, signalled, merged, raised, overlaps>>

\* Mutant: a sub-batch given up is counted.
UpsertFailsCounted(r) ==
  /\ In(r, "vectors")
  /\ run[r].sub # {}
  /\ IF "qdrant" \in down THEN UNCHANGED <<underway, down, faults>>
     ELSE FailsAt("qdrant") /\ underway' \in {underway, TakenIn(r)}
  /\ Become(r, AfterFailure(run[r]))
  /\ LET up == IF GivesUp(run[r]) THEN Valid(r) ELSE {}
     IN  /\ Add(r, [vectors_indexed |-> Cardinality(up)])
         /\ counted' = [counted EXCEPT ![r] = @ \cup up]
         /\ Lose(r, IF GivesUp(run[r]) THEN run[r].sub \ up ELSE {})
  /\ raised' = [raised EXCEPT ![r] = IF Raises(run[r]) THEN @ \cup Valid(r) ELSE @]
  /\ UNCHANGED <<bucket, points, discarded, neo4j,
                 exit, signalled, merged, overlaps>>

\* One that fails: an outage, or an error or a timeout after which Qdrant may have
\* the points all the same, or get them when the client has long given up.
UpsertFails(r) ==
  /\ In(r, "vectors")
  /\ run[r].sub # {}
  /\ IF "qdrant" \in down THEN UNCHANGED <<underway, down, faults>>
     ELSE FailsAt("qdrant") /\ underway' \in {underway, TakenIn(r)}
  /\ Become(r, AfterFailure(run[r]))
  /\ raised' = [raised EXCEPT ![r] = IF Raises(run[r]) THEN @ \cup Valid(r) ELSE @]
  /\ Lose(r, IF GivesUp(run[r]) THEN run[r].sub ELSE {})
  /\ UNCHANGED <<bucket, points, discarded, neo4j,
                 stats, exit, signalled, counted, merged, overlaps>>

\* All sub-batches are through, or a signal stops the loop.
VectorsWritten(r) ==
  /\ In(r, "vectors")
  /\ run[r].sub = {}
  /\ run[r].vectors = {} \/ signalled[r]
  /\ Become(r, [run[r] EXCEPT !.stage = "graph", !.vectors = {}, !.blank = {}])
  /\ Lose(r, run[r].vectors)
  /\ UNCHANGED <<stores, faults, stats, exit, signalled, counted, merged, raised, overlaps>>

-----------------------------------------------------------------------------
\* Nodes and edges of the rows of a sub-batch.
EntitiesIn(chunks) == UNION {EntitiesOf[c] : c \in chunks}
EdgesIn(chunks)    == UNION {EdgesOf[c] : c \in chunks}

\* The next sub-batch of the graph; one without entities or edges returns 0 at once.
TakeGraph(r) ==
  /\ In(r, "graph")
  /\ run[r].sub = {} /\ ~signalled[r]
  /\ \E sub \in NextOf(run[r].graphs, SubBatch) :
       /\ sub # {}
       /\ LET full == sub \ run[r].empty
              data == EntitiesIn(full) # {} \/ EdgesIn(full) # {}
          IN  Become(r, Fresh([run[r] EXCEPT !.graphs = @ \ sub], IF data THEN full ELSE {}))
  /\ UNCHANGED <<stores, faults, stats, exit, signalled, past>>

\* Runs whose transaction is open.
Open == {q \in Runs : run[q].open}

\* The transaction merges the entities: those it finds it does not create.
\* There is no constraint on their names, so it finds what has committed.
OpenMerge(r) ==
  /\ In(r, "graph")
  /\ run[r].sub # {} /\ ~run[r].open /\ "neo4j" \notin down
  /\ Become(r, [run[r] EXCEPT !.open = TRUE, !.known = {n.entity : n \in nodes}])
  /\ overlaps' = overlaps \cup ({r} \X Open) \cup (Open \X {r})
  /\ UNCHANGED <<stores, faults, stats, exit, signalled, counted, merged, lost, raised>>

\* Mutant: CREATE for MERGE.
CreatedAll(r) == EntitiesIn(run[r].sub)

Created(r) == EntitiesIn(run[r].sub) \ run[r].known

\* The edges of these types.  An unknown type is in no query.
OfTypes(types, edges) == {e \in edges : e[2] \in types}

\* Mutant: the edges come before the nodes.
LinkedBefore(r, failing) ==
  {e \in OfTypes(ValidRelations \ failing, EdgesIn(run[r].sub)) :
     {e[1], e[3]} \subseteq run[r].known}

\* A query for each type; MATCH finds both ends among what the transaction found
\* and what it created.  One that fails is logged, and its edges are not there.
Linked(r, failing) ==
  {e \in OfTypes(ValidRelations \ failing, EdgesIn(run[r].sub)) :
     {e[1], e[3]} \subseteq run[r].known \cup Created(r)}

_merge_graph_data(r, failing) ==
  /\ nodes' = nodes \cup {[entity |-> e, run |-> r] : e \in Created(r)}
  /\ links' = links \cup Linked(r, failing)

\* It commits, and write returns.
Merge(r) ==
  /\ run[r].open /\ "neo4j" \notin down
  /\ \E failing \in SUBSET ValidRelations :
       /\ FailIf(failing # {})
       /\ _merge_graph_data(r, failing)
       /\ unlinked' = [unlinked EXCEPT ![r] = @ \cup OfTypes(failing, EdgesIn(run[r].sub))]
  /\ merged' = [merged EXCEPT ![r] = @ \cup run[r].sub]
  /\ Become(r, Fresh(run[r], {}))
  /\ UNCHANGED <<bucket, qdrant, down, stats, exit, signalled, counted, lost, raised, overlaps>>

\* An attempt fails before it begins, or at its commit, which may have happened.
MergeFails(r) ==
  /\ In(r, "graph")
  /\ run[r].sub # {}
  /\ \/ /\ "neo4j" \in down
        /\ UNCHANGED <<nodes, links, down, faults>>
     \/ /\ run[r].open /\ "neo4j" \notin down
        /\ FailsAt("neo4j")
        /\ \/ \E failing \in SUBSET ValidRelations : _merge_graph_data(r, failing)
           \/ UNCHANGED <<nodes, links>>
  /\ Become(r, AfterFailure(run[r]))
  /\ UNCHANGED <<bucket, qdrant, unlinked, stats, exit, signalled, past>>

GraphWritten(r) ==
  /\ In(r, "graph")
  /\ run[r].sub = {}
  /\ run[r].graphs = {} \/ signalled[r]
  /\ Become(r, [run[r] EXCEPT !.stage = "download", !.graphs = {}, !.empty = {}])
  /\ UNCHANGED <<stores, faults, stats, exit, signalled, past>>

-----------------------------------------------------------------------------
\* Mutant: the exit code goes by what was indexed.
CodeByVectors(r) ==
  IF ~run[r].worked \/ stats[r].vectors_indexed > 0 THEN "zero" ELSE "one"

\* "No supported files found": also when every download failed.
Code(r) ==
  IF ~run[r].worked \/ stats[r].files_processed > 0 THEN "zero" ELSE "one"

\* The batches are through, or a signal ends the loop over them.
Return(r) ==
  /\ \/ In(r, "download") /\ run[r].names = {}
     \/ run[r].stage \in {"list", "download", "parse"} /\ signalled[r]
  /\ exit' = [exit EXCEPT ![r] = Code(r)]
  /\ Become(r, [run[r] EXCEPT !.stage = "over", !.names = {}, !.files = {}])
  /\ UNCHANGED <<stores, faults, stats, signalled, past>>

\* The process of the run ends under it.
Die(dead) ==
  /\ run' = [r \in Runs |-> IF r \in dead /\ run[r].stage \notin {"idle", "over", "dead"}
                            THEN [Idle EXCEPT !.stage = "dead"] ELSE run[r]]
  /\ UNCHANGED <<stores, stats, exit, signalled, past>>

\* A store can be reached again.
Back(s) ==
  /\ s \in down
  /\ down' = down \ {s}
  /\ UNCHANGED <<bucket, qdrant, neo4j, faults, locals, past>>

\* Qdrant applies a point, whether or not anybody can reach it.
Apply(p) ==
  /\ p \in underway
  /\ points' = points \cup {p}
  /\ underway' = underway \ {p}
  /\ UNCHANGED <<bucket, discarded, neo4j, down, faults, locals, past>>

\* It loses points instead: a crash before they are on disk, an update that fails.
Discard(gone) ==
  /\ gone \subseteq underway /\ gone # {}
  /\ Fail
  /\ underway' = underway \ gone
  /\ discarded' = discarded \cup gone
  /\ UNCHANGED <<bucket, points, neo4j, down, locals, past>>

\* Somebody stores a document.
Put(d) ==
  /\ bucket' = bucket \cup {d}
  /\ UNCHANGED <<qdrant, neo4j, down, faults, locals, past>>

Stage(r) ==
  \/ Unreachable(r) \/ List(r) \/ Download(r) \/ _download_specific(r)
  \/ Parse(r) \/ Embed(r) \/ Extract(r) \/ Join(r)
  \/ TakeVectors(r) \/ Upsert(r) \/ UpsertFails(r) \/ VectorsWritten(r)
  \/ TakeGraph(r) \/ OpenMerge(r) \/ Merge(r) \/ MergeFails(r) \/ GraphWritten(r)
  \/ Return(r)

Work(r) == Stage(r) \/ Signal(r)

\* What the stores do on their own account.
Settle ==
  \/ \E s \in Stores : Back(s)
  \/ \E p \in underway : Apply(p)
  \/ \E gone \in SUBSET underway : Discard(gone)

Next ==
  \/ \E r \in Runs : Work(r)
  \/ \E r \in Runs, own, graphing \in BOOLEAN, docs \in SUBSET Documents :
       main(r, own, docs, graphing) \/ ingest_specific_files(r, docs, graphing)
  \/ \E dead \in SUBSET Runs : Die(dead) /\ (Fail \/ UNCHANGED faults)
  \/ \E d \in Documents : Put(d)
  \/ Settle

Spec == Init /\ [][Next]_vars
-----------------------------------------------------------------------------
\* What a batch of the run has chunked and not yet brought to an end.
InWork(r) ==
  run[r].toEmbed \cup run[r].vectors \cup (IF In(r, "vectors") THEN run[r].sub ELSE {})

\* No chunk disappears from the statistics: what was created is indexed, counted
\* as failed, given up (its embedding is None, its sub-batch was given up, or a
\* signal came), or still in work; the files add up as well.  stats of main.
Accounted ==
  \A r \in Runs : ~In(r, "dead") =>
    /\ stats[r].chunks_created = stats[r].vectors_indexed + stats[r].vectors_failed
                                 + Cardinality(lost[r]) + Cardinality(InWork(r))
    /\ stats[r].files_processed + stats[r].files_failed <= stats[r].files_seen
    /\ (exit[r] = "one" /\ run[r].worked) => lost[r] = {} /\ stats[r].vectors_indexed = 0

\* Points Qdrant was ever handed.
Taken == points \cup underway \cup discarded

\* What a set of points, and what the nodes have of each run.
Vectors(these) == {<<p.chunk, p.run>> : p \in these}
Graphs == {<<n.entity, n.run>> : n \in nodes}

\* What the documents of a run can leave in the stores.
Leaves(docs) ==
  LET chunks == UNION {ChunksOf[d] : d \in docs \cap Supported}
  IN  chunks \cup EntitiesIn(chunks)

Phase(r) == IF run[r].stage \in {"idle", "dead"} THEN run[r].stage
            ELSE IF exit[r] = "none" THEN "running" ELSE exit[r]

\* The pipeline keeps the promise of Ingestion: exit code 1 means that the run has
\* handed neither store anything, whatever attempts failed on the way, so that
\* nothing of it can turn up later; and after a run returned it hands over nothing,
\* though what it had handed over may still arrive.  main, ingest_specific_files.
P == INSTANCE Ingestion WITH
       Things <- Chunks \cup Entities,
       phase  <- [r \in Runs |-> Phase(r)],
       given  <- [r \in Runs |-> Leaves(run[r].docs)],
       handed <- Vectors(Taken) \cup Graphs,
       left   <- Vectors(points) \cup Graphs

KeepsPromise == P!Spec

\* vectors_indexed counts each chunk once, and none that Qdrant was not handed by
\* this run: a counted chunk is in the collection, unless Qdrant has still to apply
\* it or has discarded it, which no action of the pipeline ever finds out.
\* QdrantIndexer.write, _process_file_batch.
CountedIsTaken ==
  \A r \in Runs :
    /\ stats[r].vectors_indexed = Cardinality(counted[r])
    /\ \A c \in counted[r] : <<c, r>> \in Vectors(Taken)

\* A run stores a chunk twice only if a whole call of write raised for it: the
\* attempts inside a call repeat the same points, in whatever order and however
\* late Qdrant applies them.  QdrantIndexer.write.
StoredTwiceByCallsOnly ==
  \A p, q \in points \cup underway : p.chunk = q.chunk /\ p.run = q.run /\ p # q
                                      => p.chunk \in raised[p.run]

\* Two nodes for one entity come from two runs whose transactions were open at
\* the same time, never from a retry or from a later run.  Neo4jIndexer.write:
\* "Uses MERGE operations for idempotency - repeated writes are safe."
EntityTwiceByOverlapOnly ==
  \A n, m \in nodes : n.entity = m.entity /\ n # m => <<n.run, m.run>> \in overlaps

\* The graph of a sub-batch whose write returned is there: its entities, and every
\* relationship of a valid type between two entities of a chunk, unless the query
\* for that type failed in the very transaction that committed.  No entity is
\* missing because an edge was, and no edge because another transaction had
\* created its ends.  _merge_graph_data.
MergedIsWhole ==
  \A r \in Runs :
    /\ \A e \in EntitiesIn(merged[r]) : \E n \in nodes : n.entity = e
    /\ \A c \in merged[r] : \A e \in OfTypes(ValidRelations, EdgesOf[c]) :
         {e[1], e[3]} \subseteq EntitiesOf[c] => e \in links \cup unlinked[r]

\* After the signal a run downloads no batch, does not go on to embed what it has
\* parsed, and begins no sub-batch: what it had begun it finishes or drops.
\* signal_handler and the checks of _shutdown_requested.
NothingBegunAfterSignal ==
  [][\A r \in Runs : signalled[r] =>
       /\ run'[r].names \in {run[r].names, {}}
       /\ run'[r].stage = "fork" => run[r].stage = "fork" /\ run'[r].toEmbed = run[r].toEmbed
       /\ run[r].sub = {} => run'[r].sub = {}]_vars
=============================================================================
