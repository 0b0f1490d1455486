------------------------- MODULE IngestPipelineProofs -------------------------
(***************************************************************************)
(* Proofs about IngestPipeline: for any runs, documents, chunks, sizes of  *)
(* batches, numbers of attempts and failures.                              *)
(***************************************************************************)
EXTENDS IngestPipeline, FiniteSetTheorems, WellFoundedInduction, TLAPS

USE DEF qdrant, neo4j, Taken

\* The chunks of the documents of a run, and what it still holds of them.
OwnChunks(r) == UNION {ChunksOf[d] : d \in run[r].docs \cap Supported}

Held(r) == run[r].toEmbed \cup run[r].vectors \cup run[r].toGraph \cup run[r].graphs
           \cup run[r].sub

LeftNothing(r) == /\ \A p \in Taken : p.run # r
                  /\ \A n \in nodes : n.run # r

\* A run returns once, works only on what its documents hold, and holds chunks
\* only after it has processed a file.
RunConsistent(r) ==
  /\ exit[r] # "none" <=> In(r, "over")
  /\ run[r].names \cup run[r].files \subseteq run[r].docs \cap Supported
  /\ run[r].entry = "specific" => run[r].names = {}
  /\ Held(r) \subseteq OwnChunks(r)
  /\ In(r, "idle") \/ In(r, "list") \/ (In(r, "parse") /\ run[r].entry = "specific")
       => stats[r].files_processed = 0
  /\ stats[r].files_processed = 0 => Held(r) = {} /\ LeftNothing(r)
  /\ run[r].sub # {} => In(r, "vectors") \/ In(r, "graph")
  /\ run[r].open => In(r, "graph") /\ run[r].sub # {}

\* A second call of write, and the points it sends, come after one that raised.
CallConsistent(r) ==
  In(r, "vectors") /\ run[r].call # 1 => Valid(r) \subseteq raised[r]

PointConsistent(p) ==
  p.id.try = 1 /\ (p.id.call = 1 \/ p.chunk \in raised[p.run])

\* An open transaction knows the nodes, except those of transactions that were
\* open with it.
MergeConsistent(r) ==
  run[r].open =>
    /\ \A e \in run[r].known : \E n \in nodes : n.entity = e
    /\ \A n \in nodes : n.entity \in run[r].known
                        \/ {<<n.run, r>>, <<r, n.run>>} \subseteq overlaps
    /\ \A q \in Runs \ {r} : run[q].open => <<q, r>> \in overlaps

CountedTaken ==
  \A r \in Runs : \A c \in counted[r] : \E p \in Taken : p.chunk = c /\ p.run = r

\* The inductive invariant.
IInv ==
  /\ TypeOK
  /\ \A r \in Runs : RunConsistent(r)
  /\ \A r \in Runs : CallConsistent(r)
  /\ \A p \in Taken : PointConsistent(p)
  /\ \A r \in Runs : MergeConsistent(r)
  /\ CountedTaken
  /\ EntityTwiceByOverlapOnly
  /\ MergedIsWhole

-----------------------------------------------------------------------------
\* What is counted.
LEMMA FiniteCount ==
  ASSUME NEW S, NEW T, IsFiniteSet(T), S \subseteq T
  PROVE  /\ Cardinality(S) \in Nat
         /\ Cardinality(S) = 0 <=> S = {}
BY FS_Subset, FS_CardinalityType, FS_EmptySet

\* Counts of documents and of chunks.
LEMMA Counts ==
  /\ \A S \in SUBSET Documents : Cardinality(S) \in Nat /\ (Cardinality(S) = 0 <=> S = {})
  /\ \A S \in SUBSET Chunks : Cardinality(S) \in Nat /\ (Cardinality(S) = 0 <=> S = {})
BY FiniteCount, IngestPipelineAssumption

\* Counting adds to the counters of the run alone.
LEMMA Adds ==
  ASSUME TypeOK, NEW r \in Runs, NEW new, Add(r, new),
         \A c \in DOMAIN new \cap Counters : new[c] \in Nat
  PROVE  /\ stats' \in [Runs -> [Counters -> Nat]]
         /\ \A q \in Runs \ {r} : stats'[q] = stats[q]
         /\ stats'[r].files_processed = stats[r].files_processed
              + (IF "files_processed" \in DOMAIN new THEN new["files_processed"] ELSE 0)
<1> DEFINE counters == [c \in Counters |-> stats[r][c] + IF c \in DOMAIN new THEN new[c] ELSE 0]
<1>1. stats' = [stats EXCEPT ![r] = counters] /\ stats \in [Runs -> [Counters -> Nat]]
  BY DEF Add, TypeOK
<1>2. counters \in [Counters -> Nat]
  BY <1>1
<1>3. "files_processed" \in Counters
  BY DEF Counters
<1>4. counters.files_processed = stats[r].files_processed
              + (IF "files_processed" \in DOMAIN new THEN new["files_processed"] ELSE 0)
  BY <1>3
<1> HIDE DEF counters
<1> QED
  BY <1>1, <1>2, <1>4

\* What a run that is not touched keeps.
LEMMA Untouched ==
  ASSUME NEW q \in Runs, RunConsistent(q), CallConsistent(q),
         run'[q] = run[q], stats'[q] = stats[q], exit'[q] = exit[q],
         LeftNothing(q) => LeftNothing(q)', raised[q] \subseteq raised'[q]
  PROVE  RunConsistent(q)' /\ CallConsistent(q)'
BY DEF RunConsistent, CallConsistent, Held, OwnChunks, In, Valid

\* A step that leaves the stores alone, and opens no transaction.
LEMMA StoresKept ==
  ASSUME IInv, TypeOK',
         Taken' = Taken, UNCHANGED <<neo4j, counted, merged, raised, overlaps>>,
         \A q \in Runs : run'[q].open => run[q].open /\ run'[q].known = run[q].known,
         \A q \in Runs : RunConsistent(q)' /\ CallConsistent(q)'
  PROVE  IInv'
<1>1. \A p \in Taken' : PointConsistent(p)'
  BY DEF IInv, PointConsistent
<1>2. ASSUME NEW q \in Runs
      PROVE  MergeConsistent(q)'
  BY <1>2 DEF IInv, MergeConsistent
<1>3. CountedTaken' /\ EntityTwiceByOverlapOnly' /\ MergedIsWhole'
  BY DEF IInv, CountedTaken, EntityTwiceByOverlapOnly, MergedIsWhole, EntitiesIn, OfTypes
<1> QED
  BY <1>1, <1>2, <1>3 DEF IInv

\* One in which the run r goes on to x.
LEMMA RunMoves ==
  ASSUME IInv, NEW r \in Runs, NEW x \in RunState, Become(r, x), ~x.open,
         UNCHANGED <<qdrant, neo4j, counted, merged, raised, overlaps>>,
         bucket' \subseteq Documents, down' \subseteq Stores, faults' \in Nat,
         stats' \in [Runs -> [Counters -> Nat]], exit' \in [Runs -> {"none", "zero", "one"}],
         signalled' \in [Runs -> BOOLEAN], lost' \in [Runs -> SUBSET Chunks],
         \A q \in Runs \ {r} : stats'[q] = stats[q] /\ exit'[q] = exit[q],
         RunConsistent(r)', CallConsistent(r)'
  PROVE  IInv'
<1>1. TypeOK'
  <2>1. run' \in [Runs -> RunState]
    BY DEF IInv, TypeOK, Become
  <2>2. {counted, merged, raised} \subseteq [Runs -> SUBSET Chunks]
    BY DEF IInv, TypeOK
  <2> QED
    BY <2>1, <2>2 DEF IInv, TypeOK
<1>2. run'[r] = x /\ \A q \in Runs \ {r} : run'[q] = run[q]
  BY DEF IInv, TypeOK, Become
<1>3. ASSUME NEW q \in Runs \ {r}
      PROVE  RunConsistent(q)' /\ CallConsistent(q)'
  <2>1. LeftNothing(q) => LeftNothing(q)'
    BY DEF LeftNothing
  <2>2. RunConsistent(q) /\ CallConsistent(q)
    BY DEF IInv
  <2> QED
    BY <1>2, <2>1, <2>2, Untouched
<1> QED
  BY <1>1, <1>2, <1>3, StoresKept

-----------------------------------------------------------------------------
LEMMA InitConsistent == Init => IInv
<1> SUFFICES ASSUME Init PROVE IInv
  OBVIOUS
<1>1. Idle \in RunState
  BY IngestPipelineAssumption DEF Idle, RunState, Stages, Entries
<1>2. TypeOK
  BY <1>1, IngestPipelineAssumption DEF Init, TypeOK, None
<1>3. ASSUME NEW r \in Runs
      PROVE  RunConsistent(r) /\ CallConsistent(r) /\ MergeConsistent(r)
  BY <1>3 DEF Init, Idle, RunConsistent, CallConsistent, MergeConsistent, Held, LeftNothing,
     In, Counters
<1>4. CountedTaken /\ EntityTwiceByOverlapOnly
  BY DEF Init, None, CountedTaken, EntityTwiceByOverlapOnly
<1>5. MergedIsWhole
  BY DEF Init, None, MergedIsWhole, EntitiesIn
<1> QED
  BY <1>2, <1>3, <1>4, <1>5 DEF IInv, Init

-----------------------------------------------------------------------------
\* A run goes on with its documents, at another stage or the same.
GoesTo(r, after) ==
  /\ run'[r].docs = run[r].docs
  /\ run'[r].stage \in after
  /\ \A q \in Runs \ {r} : run'[q] = run[q]

Working == {"list", "download", "parse", "fork", "vectors", "graph"}

\* One lemma per action.
LEMMA RunTypes ==
  ASSUME IInv, NEW r \in Runs
  PROVE  /\ run[r] \in RunState
         /\ RunConsistent(r) /\ CallConsistent(r) /\ MergeConsistent(r)
         /\ stats[r].files_processed \in Nat
         /\ \A x : Become(r, x) => run'[r] = x /\ \A q \in Runs \ {r} : run'[q] = run[q]
<1>1. "files_processed" \in Counters
  BY DEF Counters
<1> QED
  BY <1>1 DEF IInv, TypeOK, Become

LEMMA StartKeeps ==
  ASSUME IInv, NEW r \in Runs, NEW entry \in Entries, NEW own \in BOOLEAN,
         NEW docs \in SUBSET Documents, NEW graphing \in BOOLEAN,
         Start(r, entry, own, docs, graphing)
  PROVE  IInv'
<1> DEFINE x == [Idle EXCEPT !.stage = "list", !.entry = entry, !.own = own,
                             !.docs = docs, !.graphing = graphing]
<1>1. x \in RunState /\ ~x.open
  <2>1. Idle \in RunState /\ ~Idle.open
    BY IngestPipelineAssumption DEF Idle, RunState, Stages, Entries
  <2> QED
    BY <2>1 DEF RunState, Stages
<1>2. Become(r, x)
  BY DEF Start
<1>3. run'[r] = x
  BY <1>2, RunTypes
<1>4. /\ x.stage = "list" /\ x.names = {} /\ x.files = {} /\ x.toEmbed = {} /\ x.vectors = {}
      /\ x.toGraph = {} /\ x.graphs = {} /\ x.sub = {}
  BY DEF Idle
<1>5. RunConsistent(r)' /\ CallConsistent(r)'
  <2>1. exit[r] = "none" /\ stats[r].files_processed = 0 /\ LeftNothing(r)
    BY RunTypes DEF RunConsistent, Start, In
  <2>2. exit'[r] = exit[r] /\ stats'[r] = stats[r] /\ LeftNothing(r)'
    BY <2>1 DEF Start, stores, LeftNothing
  <2> HIDE DEF x
  <2> QED
    BY <1>1, <1>3, <1>4, <2>1, <2>2 DEF RunConsistent, CallConsistent, In, Held
<1> HIDE DEF x
<1> QED
  BY <1>1, <1>2, <1>5, RunMoves DEF Start, IInv, TypeOK, stores, past

LEMMA SignalKeeps ==
  ASSUME IInv, NEW r \in Runs, Signal(r)
  PROVE  IInv'
<1>1. TypeOK'
  BY DEF Signal, IInv, TypeOK, stores, past
<1>2. \A q \in Runs : RunConsistent(q)' /\ CallConsistent(q)'
  BY DEF Signal, IInv, stores, past, RunConsistent, CallConsistent, Held, OwnChunks, In, Valid,
     LeftNothing
<1> QED
  BY <1>1, <1>2, StoresKept DEF Signal, stores, past

LEMMA UnreachableKeeps ==
  ASSUME IInv, NEW r \in Runs, Unreachable(r)
  PROVE  IInv'
<1> DEFINE x == [run[r] EXCEPT !.stage = "over", !.files = {}]
<1>1. Become(r, x)
  BY DEF Unreachable
<1>2. run[r] \in RunState /\ RunConsistent(r) /\ run'[r] = x
  BY <1>1, RunTypes
<1>3. In(r, "list") \/ (In(r, "parse") /\ run[r].entry = "specific")
  BY <1>2 DEF Unreachable, Connects, In, RunState, Entries
<1>4. x \in RunState /\ ~x.open
  BY <1>2, <1>3 DEF RunState, Stages, RunConsistent, In
<1>5. exit'[r] = "one" /\ \A q \in Runs \ {r} : exit'[q] = exit[q]
  BY DEF Unreachable, IInv, TypeOK
<1>6. RunConsistent(r)' /\ CallConsistent(r)'
  <2>1. stats[r].files_processed = 0 /\ LeftNothing(r) /\ Held(r) = {}
    BY <1>2, <1>3 DEF RunConsistent
  <2>2. stats'[r] = stats[r] /\ LeftNothing(r)'
    BY <2>1 DEF Unreachable, stores, LeftNothing
  <2>3. /\ x.stage = "over" /\ x.files = {} /\ x.names = run[r].names /\ x.docs = run[r].docs
        /\ x.entry = run[r].entry /\ x.open = run[r].open /\ x.toEmbed = {} /\ x.vectors = {}
        /\ x.toGraph = {} /\ x.graphs = {} /\ x.sub = {}
    BY <1>2, <2>1 DEF RunState, Held
  <2> HIDE DEF x
  <2> QED
    BY <1>2, <1>4, <1>5, <2>1, <2>2, <2>3 DEF RunConsistent, CallConsistent, In, Held
<1>7. faults' \in Nat
  BY DEF Unreachable, Fail, IInv, TypeOK
<1> HIDE DEF x
<1> QED
  BY <1>1, <1>4, <1>5, <1>6, <1>7, RunMoves DEF Unreachable, IInv, TypeOK, stores, past

\* Steps at which nothing has been processed yet in the batch: the stage moves,
\* documents are listed or fetched.
LEMMA FilesMove ==
  ASSUME IInv, NEW r \in Runs, NEW x \in RunState, Become(r, x),
         x = [run[r] EXCEPT !.stage = x.stage, !.names = x.names, !.files = x.files],
         x.stage \in {"download", "parse"}, run[r].stage \in {"list", "download", "parse"},
         x.names \cup x.files \subseteq run[r].docs \cap Supported,
         run[r].entry = "specific" => x.names = {} /\ (In(r, "list") \/ x.stage # "parse"),
         UNCHANGED <<qdrant, neo4j, counted, merged, raised, overlaps>>,
         bucket' \subseteq Documents, down' \subseteq Stores, faults' \in Nat,
         stats' \in [Runs -> [Counters -> Nat]], UNCHANGED exit,
         signalled' \in [Runs -> BOOLEAN], lost' \in [Runs -> SUBSET Chunks],
         \A q \in Runs \ {r} : stats'[q] = stats[q],
         stats'[r].files_processed = stats[r].files_processed
  PROVE  IInv' /\ GoesTo(r, Working)
<1>1. run[r] \in RunState /\ RunConsistent(r) /\ run'[r] = x
  BY RunTypes
<1>2. /\ x.docs = run[r].docs /\ x.entry = run[r].entry /\ x.open = run[r].open
      /\ x.toEmbed = run[r].toEmbed /\ x.vectors = run[r].vectors /\ x.toGraph = run[r].toGraph
      /\ x.graphs = run[r].graphs /\ x.sub = run[r].sub
  BY <1>1 DEF RunState
<1>3. ~x.open /\ run[r].sub = {}
  BY <1>1, <1>2 DEF RunConsistent, In
<1>4. LeftNothing(r) => LeftNothing(r)'
  BY DEF LeftNothing
<1>5. Held(r)' = Held(r) /\ OwnChunks(r)' = OwnChunks(r)
  BY <1>1, <1>2 DEF Held, OwnChunks
<1>6. RunConsistent(r)'
  BY <1>1, <1>2, <1>3, <1>4, <1>5 DEF RunConsistent, In
<1>7. CallConsistent(r)'
  BY <1>1 DEF CallConsistent, In
<1>8. GoesTo(r, Working)
  BY <1>2, RunTypes DEF GoesTo, Working
<1> QED
  BY <1>3, <1>6, <1>7, <1>8, RunMoves DEF IInv, TypeOK

LEMMA ListKeeps ==
  ASSUME IInv, NEW r \in Runs, List(r)
  PROVE  IInv' /\ GoesTo(r, Working)
<1> DEFINE listed == run[r].docs \cap bucket
           x == [run[r] EXCEPT !.stage = "download", !.names = listed \cap Supported]
<1>1. Become(r, x) /\ Add(r, [files_seen |-> Cardinality(listed)])
  BY DEF List
<1>2. run[r] \in RunState /\ RunConsistent(r)
  BY RunTypes
<1>3. x \in RunState /\ x.stage = "download" /\ x.names = listed \cap Supported /\ x.files = run[r].files
  BY <1>2 DEF RunState, Stages
<1>4. Cardinality(listed) \in Nat
  BY <1>2, Counts DEF RunState
<1>5. /\ stats' \in [Runs -> [Counters -> Nat]]
      /\ \A q \in Runs \ {r} : stats'[q] = stats[q]
      /\ stats'[r].files_processed = stats[r].files_processed
  <2> DEFINE new == [files_seen |-> Cardinality(listed)]
  <2>1. (\A c \in DOMAIN new \cap Counters : new[c] \in Nat) /\ "files_processed" \notin DOMAIN new
    BY <1>4
  <2>2. TypeOK /\ Add(r, new) /\ stats[r].files_processed \in Nat
    BY <1>1, RunTypes DEF IInv
  <2> HIDE DEF new
  <2> QED
    BY <2>1, <2>2, Adds
<1>6. run[r].entry # "specific" /\ run[r].stage = "list"
  BY DEF List, In
<1>7. x = [run[r] EXCEPT !.stage = x.stage, !.names = x.names, !.files = x.files]
  BY <1>2, <1>3 DEF RunState
<1>8. x.names \cup x.files \subseteq run[r].docs \cap Supported
  BY <1>2, <1>3 DEF RunConsistent
<1> HIDE DEF x, listed
<1> QED
  BY <1>1, <1>3, <1>5, <1>6, <1>7, <1>8, FilesMove DEF List, IInv, TypeOK, stores, past

\* The chunks that are fetched do not matter, the documents do.
LEMMA FetchKeeps ==
  ASSUME IInv, NEW r \in Runs, NEW batch \in SUBSET (run[r].docs \cap Supported), Fetch(r, batch),
         \/ In(r, "download") /\ run[r].names # {}
         \/ In(r, "list") /\ batch = run[r].docs \cap Supported
  PROVE  IInv' /\ GoesTo(r, Working)
<1> PICK got \in SUBSET (batch \cap bucket) :
      /\ FailIf(got # batch)
      /\ Become(r, [run[r] EXCEPT !.stage = IF got = {} THEN "download" ELSE "parse",
                                  !.names = @ \ batch, !.files = got])
      /\ Add(r, [files_seen   |-> IF In(r, "list") THEN Cardinality(batch) ELSE 0,
                 files_failed |-> Cardinality(batch \ got)])
  BY DEF Fetch
<1> DEFINE x == [run[r] EXCEPT !.stage = IF got = {} THEN "download" ELSE "parse",
                               !.names = @ \ batch, !.files = got]
           new == [files_seen   |-> IF In(r, "list") THEN Cardinality(batch) ELSE 0,
                   files_failed |-> Cardinality(batch \ got)]
<1>1. Become(r, x) /\ Add(r, new)
  OBVIOUS
<1>2. run[r] \in RunState /\ RunConsistent(r) /\ TypeOK
  BY RunTypes DEF IInv
<1>3. /\ x \in RunState /\ x.stage \in {"download", "parse"}
      /\ x.names = run[r].names \ batch /\ x.files = got
      /\ x = [run[r] EXCEPT !.stage = x.stage, !.names = x.names, !.files = x.files]
  BY <1>2 DEF RunState, Stages
<1>4. Cardinality(batch) \in Nat /\ Cardinality(batch \ got) \in Nat
  BY <1>2, Counts DEF RunState
<1>5. /\ stats' \in [Runs -> [Counters -> Nat]]
      /\ \A q \in Runs \ {r} : stats'[q] = stats[q]
      /\ stats'[r].files_processed = stats[r].files_processed
  <2>1. (\A c \in DOMAIN new \cap Counters : new[c] \in Nat) /\ "files_processed" \notin DOMAIN new
    BY <1>4
  <2>2. stats[r].files_processed \in Nat
    BY RunTypes
  <2> HIDE DEF new
  <2> QED
    BY <1>1, <1>2, <2>1, <2>2, Adds
<1>6. run[r].stage \in {"list", "download", "parse"} /\ x.names \cup x.files \subseteq run[r].docs \cap Supported
  BY <1>2, <1>3 DEF In, RunConsistent
<1>7. run[r].entry = "specific" => x.names = {} /\ (In(r, "list") \/ x.stage # "parse")
  BY <1>2, <1>3 DEF In, RunConsistent
<1>8. faults' \in Nat
  BY <1>2 DEF FailIf, Fail, TypeOK
<1>9. /\ UNCHANGED <<bucket, qdrant, neo4j, down, exit, signalled>>
      /\ UNCHANGED <<counted, merged, lost, raised, overlaps>>
  BY DEF Fetch, stores, past
<1> HIDE DEF x
<1> QED
  BY <1>1, <1>2, <1>3, <1>5, <1>6, <1>7, <1>8, <1>9, FilesMove DEF TypeOK

LEMMA DownloadKeeps ==
  ASSUME IInv, NEW r \in Runs, Download(r) \/ _download_specific(r)
  PROVE  IInv' /\ GoesTo(r, Working)
<1>1. RunConsistent(r)
  BY RunTypes
<1>2. CASE Download(r)
  <2>1. PICK batch \in NextOf(run[r].names, FileBatch) : Fetch(r, batch)
    BY <1>2 DEF Download
  <2>2. batch \in SUBSET (run[r].docs \cap Supported)
    BY <1>1 DEF RunConsistent, NextOf
  <2> QED
    BY <1>2, <2>1, <2>2, FetchKeeps DEF Download
<1>3. CASE _download_specific(r)
  BY <1>3, FetchKeeps DEF _download_specific
<1> QED
  BY <1>2, <1>3

LEMMA ParseKeeps ==
  ASSUME IInv, NEW r \in Runs, Parse(r)
  PROVE  IInv' /\ GoesTo(r, Working)
<1> PICK through \in SUBSET run[r].files, good \in SUBSET run[r].files :
      /\ good \subseteq through
      /\ FailIf(good # through)
      /\ LET chunks == UNION {process_single_file(f, f \in good) : f \in through}
             stop   == chunks = {} \/ signalled[r]
         IN  /\ Become(r, [run[r] EXCEPT
                  !.stage = IF stop THEN "download" ELSE "fork", !.files = {}, !.worked = TRUE,
                  !.toEmbed = IF stop THEN {} ELSE chunks,
                  !.toGraph = IF stop \/ ~run[r].graphing THEN {} ELSE chunks])
             /\ Add(r, [files_processed |-> Cardinality(good),
                        files_failed    |-> Cardinality(through \ good),
                        chunks_created  |-> Cardinality(chunks)])
             /\ Lose(r, IF stop THEN chunks ELSE {})
  BY DEF Parse
<1> DEFINE chunks == UNION {process_single_file(f, f \in good) : f \in through}
           stop   == chunks = {} \/ signalled[r]
           x      == [run[r] EXCEPT
                  !.stage = IF stop THEN "download" ELSE "fork", !.files = {}, !.worked = TRUE,
                  !.toEmbed = IF stop THEN {} ELSE chunks,
                  !.toGraph = IF stop \/ ~run[r].graphing THEN {} ELSE chunks]
           new    == [files_processed |-> Cardinality(good),
                      files_failed    |-> Cardinality(through \ good),
                      chunks_created  |-> Cardinality(chunks)]
<1>1. Become(r, x) /\ Add(r, new) /\ Lose(r, IF stop THEN chunks ELSE {})
  OBVIOUS
<1>2. /\ run[r] \in RunState /\ RunConsistent(r) /\ CallConsistent(r) /\ TypeOK
      /\ run'[r] = x /\ stats[r].files_processed \in Nat
  BY <1>1, RunTypes DEF IInv
<1>3. /\ run[r].stage = "parse" /\ run[r].sub = {} /\ ~run[r].open
      /\ run[r].files \subseteq run[r].docs \cap Supported
  BY <1>2 DEF Parse, In, RunConsistent
<1>4. /\ chunks \subseteq OwnChunks(r) /\ chunks \subseteq Chunks
      /\ good = {} => chunks = {}
  <2>1. \A f \in through : f \in run[r].docs \cap Supported /\ ChunksOf[f] \subseteq Chunks
    BY <1>3, IngestPipelineAssumption
  <2>2. \A f \in through : process_single_file(f, f \in good) \subseteq ChunksOf[f]
    BY DEF process_single_file
  <2>3. good = {} => \A f \in through : process_single_file(f, f \in good) = {}
    BY DEF process_single_file
  <2> QED
    BY <2>1, <2>2, <2>3 DEF OwnChunks
<1> HIDE DEF chunks
<1>5. /\ x.docs = run[r].docs /\ x.entry = run[r].entry /\ x.names = run[r].names /\ x.files = {}
      /\ x.sub = {} /\ ~x.open /\ x.vectors = run[r].vectors /\ x.graphs = run[r].graphs
      /\ x.toEmbed \subseteq chunks /\ x.toGraph \subseteq chunks
      /\ x.stage \in {"download", "fork"} /\ x \in RunState
  BY <1>2, <1>3, <1>4 DEF RunState, Stages
<1>6. Cardinality(good) \in Nat /\ (Cardinality(good) = 0 <=> good = {})
  BY <1>2, Counts DEF RunState
<1>7. Cardinality(through \ good) \in Nat /\ Cardinality(chunks) \in Nat
  BY <1>2, <1>4, Counts DEF RunState
<1>8. /\ stats' \in [Runs -> [Counters -> Nat]]
      /\ \A q \in Runs \ {r} : stats'[q] = stats[q]
      /\ stats'[r].files_processed = stats[r].files_processed + Cardinality(good)
  <2>1. /\ \A c \in DOMAIN new \cap Counters : new[c] \in Nat
        /\ "files_processed" \in DOMAIN new /\ new["files_processed"] = Cardinality(good)
    BY <1>6, <1>7
  <2> HIDE DEF new
  <2> QED
    BY <1>1, <1>2, <2>1, Adds
<1>9. /\ UNCHANGED <<bucket, qdrant, neo4j, down, exit, signalled>>
      /\ UNCHANGED <<counted, merged, raised, overlaps>>
  BY DEF Parse, stores, past
<1>10. RunConsistent(r)'
  <2>1. LeftNothing(r) => LeftNothing(r)'
    BY <1>9 DEF LeftNothing
  <2>2. OwnChunks(r)' = OwnChunks(r)
    BY <1>2, <1>5 DEF OwnChunks
  <2>3. Held(r)' \subseteq Held(r) \cup chunks
    BY <1>2, <1>5 DEF Held
  <2>4. stats'[r].files_processed = 0 => stats[r].files_processed = 0 /\ chunks = {}
    BY <1>2, <1>4, <1>6, <1>8
  <2> HIDE DEF x
  <2> QED
    BY <1>2, <1>3, <1>4, <1>5, <1>9, <2>1, <2>2, <2>3, <2>4 DEF RunConsistent, In
<1>11. CallConsistent(r)'
  BY <1>2, <1>5 DEF CallConsistent, In
<1>12. faults' \in Nat /\ lost' \in [Runs -> SUBSET Chunks]
  <2>1. faults' \in Nat
    BY <1>2 DEF FailIf, Fail, TypeOK
  <2> HIDE DEF x
  <2>2. lost' = [lost EXCEPT ![r] = @ \cup IF stop THEN chunks ELSE {}]
    BY <1>1 DEF Lose
  <2> QED
    BY <1>2, <1>4, <2>1, <2>2 DEF TypeOK
<1> HIDE DEF x
<1>13. GoesTo(r, Working)
  BY <1>1, <1>5, RunTypes DEF GoesTo, Working
<1> QED
  BY <1>1, <1>2, <1>5, <1>8, <1>9, <1>10, <1>11, <1>12, <1>13, RunMoves DEF TypeOK

\* A step of a run that has chunks in work.
LEMMA HeldMoves ==
  ASSUME NEW r \in Runs, RunConsistent(r), run[r] \in RunState, NEW x \in RunState, run'[r] = x,
         run[r].stage \in {"fork", "vectors", "graph"},
         x.stage \in {"fork", "vectors", "graph", "download"},
         x.docs = run[r].docs, x.entry = run[r].entry,
         x.names = run[r].names, x.files = run[r].files,
         x.toEmbed \cup x.vectors \cup x.toGraph \cup x.graphs \cup x.sub \subseteq Held(r),
         x.sub # {} => x.stage = "vectors" \/ x.stage = "graph",
         x.open => x.stage = "graph" /\ x.sub # {},
         stats'[r].files_processed = stats[r].files_processed, exit'[r] = exit[r],
         stats[r].files_processed = 0 => (LeftNothing(r) => LeftNothing(r)')
  PROVE  RunConsistent(r)'
<1>1. Held(r)' \subseteq Held(r) /\ OwnChunks(r)' = OwnChunks(r)
  BY DEF Held, OwnChunks
<1> QED
  BY <1>1 DEF RunConsistent, In

\* One that touches no store.
LEMMA ChunksMove ==
  ASSUME IInv, NEW r \in Runs, NEW x \in RunState, Become(r, x),
         run[r].stage \in {"fork", "vectors", "graph"},
         x.stage \in {"fork", "vectors", "graph", "download"},
         x.docs = run[r].docs, x.entry = run[r].entry,
         x.names = run[r].names, x.files = run[r].files,
         x.toEmbed \cup x.vectors \cup x.toGraph \cup x.graphs \cup x.sub \subseteq Held(r),
         x.sub # {} => x.call = 1 /\ (x.stage = "vectors" \/ x.stage = "graph"),
         ~x.open,
         UNCHANGED <<bucket, qdrant, neo4j, down, exit, signalled>>,
         UNCHANGED <<counted, merged, raised, overlaps>>,
         faults' \in Nat, stats' \in [Runs -> [Counters -> Nat]], lost' \in [Runs -> SUBSET Chunks],
         \A q \in Runs \ {r} : stats'[q] = stats[q],
         stats'[r].files_processed = stats[r].files_processed
  PROVE  IInv' /\ GoesTo(r, Working)
<1>1. run[r] \in RunState /\ RunConsistent(r) /\ run'[r] = x /\ TypeOK
  BY RunTypes DEF IInv
<1>2. LeftNothing(r) => LeftNothing(r)'
  BY DEF LeftNothing
<1>3. RunConsistent(r)'
  BY <1>1, <1>2, HeldMoves
<1>4. CallConsistent(r)'
  BY <1>1 DEF CallConsistent, Valid
<1>5. GoesTo(r, Working)
  BY RunTypes DEF GoesTo, Working
<1> QED
  BY <1>1, <1>3, <1>4, <1>5, RunMoves DEF TypeOK

LEMMA EmbedKeeps ==
  ASSUME IInv, NEW r \in Runs, Embed(r)
  PROVE  IInv' /\ GoesTo(r, Working)
<1> PICK batch \in SUBSET run[r].toEmbed, good \in SUBSET run[r].toEmbed :
      /\ good \subseteq batch
      /\ FailIf(good # batch)
      /\ Become(r, IF good = {} THEN [run[r] EXCEPT !.toEmbed = @ \ batch]
                   ELSE [run[r] EXCEPT !.toEmbed = @ \ batch,
                           !.vectors = @ \cup batch, !.blank = @ \cup (batch \ good)])
      /\ Add(r, [vectors_failed |-> IF good = {} THEN Cardinality(batch) ELSE 0])
  BY DEF Embed, BatchEmbedder, NextOf
<1> DEFINE x == IF good = {} THEN [run[r] EXCEPT !.toEmbed = @ \ batch]
                ELSE [run[r] EXCEPT !.toEmbed = @ \ batch,
                        !.vectors = @ \cup batch, !.blank = @ \cup (batch \ good)]
           new == [vectors_failed |-> IF good = {} THEN Cardinality(batch) ELSE 0]
<1>1. Become(r, x) /\ Add(r, new)
  OBVIOUS
<1>2. run[r] \in RunState /\ RunConsistent(r) /\ TypeOK /\ batch \subseteq run[r].toEmbed
  BY RunTypes DEF IInv
<1>3. run[r].stage = "fork" /\ run[r].sub = {} /\ ~run[r].open
  BY <1>2 DEF Embed, RunConsistent, In
<1>4. /\ x \in RunState /\ x.stage = "fork" /\ x.docs = run[r].docs /\ x.entry = run[r].entry
      /\ x.names = run[r].names /\ x.files = run[r].files /\ x.sub = {} /\ ~x.open
      /\ x.toEmbed \cup x.vectors \cup x.toGraph \cup x.graphs \cup x.sub \subseteq Held(r)
  <2>1. CASE good = {}
    BY <1>2, <1>3, <2>1 DEF RunState, Held
  <2>2. CASE good # {}
    <3>1. x = [run[r] EXCEPT !.toEmbed = run[r].toEmbed \ batch,
                 !.vectors = run[r].vectors \cup batch, !.blank = run[r].blank \cup (batch \ good)]
      BY <2>2
    <3>2. batch \in SUBSET Chunks /\ batch \ good \in SUBSET Chunks
      BY <1>2 DEF RunState
    <3> HIDE DEF x
    <3>3. x \in RunState
      BY <1>2, <3>1, <3>2 DEF RunState
    <3>4. /\ x.stage = "fork" /\ x.docs = run[r].docs /\ x.entry = run[r].entry
          /\ x.names = run[r].names /\ x.files = run[r].files /\ x.sub = {} /\ ~x.open
          /\ x.toEmbed = run[r].toEmbed \ batch /\ x.vectors = run[r].vectors \cup batch
          /\ x.toGraph = run[r].toGraph /\ x.graphs = run[r].graphs
      BY <1>2, <1>3, <3>1 DEF RunState
    <3> QED
      BY <1>2, <3>3, <3>4 DEF Held
  <2> QED
    BY <2>1, <2>2
<1>5. Cardinality(batch) \in Nat
  BY <1>2, Counts DEF RunState
<1>6. /\ stats' \in [Runs -> [Counters -> Nat]]
      /\ \A q \in Runs \ {r} : stats'[q] = stats[q]
      /\ stats'[r].files_processed = stats[r].files_processed
  <2>1. (\A c \in DOMAIN new \cap Counters : new[c] \in Nat) /\ "files_processed" \notin DOMAIN new
    BY <1>5
  <2>2. stats[r].files_processed \in Nat
    BY RunTypes
  <2> HIDE DEF new
  <2> QED
    BY <1>1, <1>2, <2>1, <2>2, Adds
<1>7. faults' \in Nat
  BY <1>2 DEF FailIf, Fail, TypeOK
<1>8. /\ UNCHANGED <<bucket, qdrant, neo4j, down, exit, signalled>>
      /\ UNCHANGED <<counted, merged, lost, raised, overlaps>>
  BY DEF Embed, stores, past
<1> HIDE DEF x
<1> QED
  BY <1>1, <1>2, <1>3, <1>4, <1>6, <1>7, <1>8, ChunksMove DEF TypeOK

LEMMA ExtractKeeps ==
  ASSUME IInv, NEW r \in Runs, Extract(r)
  PROVE  IInv' /\ GoesTo(r, Working)
<1> PICK batch \in SUBSET run[r].toGraph, good \in SUBSET run[r].toGraph :
      /\ good \subseteq batch
      /\ FailIf(good # batch)
      /\ Become(r, [run[r] EXCEPT !.toGraph = @ \ batch,
           !.graphs = @ \cup batch, !.empty = @ \cup (batch \ good)])
  BY DEF Extract, GraphExtractor, NextOf
<1> DEFINE x == [run[r] EXCEPT !.toGraph = @ \ batch,
           !.graphs = @ \cup batch, !.empty = @ \cup (batch \ good)]
<1>1. Become(r, x)
  OBVIOUS
<1>2. run[r] \in RunState /\ RunConsistent(r) /\ TypeOK /\ batch \subseteq run[r].toGraph
  BY RunTypes DEF IInv
<1>3. run[r].stage = "fork" /\ run[r].sub = {} /\ ~run[r].open
  BY <1>2 DEF Extract, RunConsistent, In
<1>4. /\ x \in RunState /\ x.stage = "fork" /\ x.docs = run[r].docs /\ x.entry = run[r].entry
      /\ x.names = run[r].names /\ x.files = run[r].files /\ x.sub = {} /\ ~x.open
      /\ x.toEmbed \cup x.vectors \cup x.toGraph \cup x.graphs \cup x.sub \subseteq Held(r)
  BY <1>2, <1>3 DEF RunState, Held
<1>5. faults' \in Nat
  BY <1>2 DEF FailIf, Fail, TypeOK
<1>6. /\ UNCHANGED <<bucket, qdrant, neo4j, down, exit, signalled>>
      /\ UNCHANGED <<stats, counted, merged, lost, raised, overlaps>>
  BY DEF Extract, stores, past
<1> HIDE DEF x
<1> QED
  BY <1>1, <1>2, <1>3, <1>4, <1>5, <1>6, ChunksMove DEF TypeOK

LEMMA JoinKeeps ==
  ASSUME IInv, NEW r \in Runs, Join(r)
  PROVE  IInv' /\ GoesTo(r, Working)
<1> DEFINE x == [run[r] EXCEPT !.stage = "vectors", !.toEmbed = {}, !.toGraph = {}]
<1>1. Become(r, x) /\ Lose(r, run[r].toEmbed)
  BY DEF Join
<1>2. run[r] \in RunState /\ RunConsistent(r) /\ TypeOK
  BY RunTypes DEF IInv
<1>3. run[r].stage = "fork" /\ run[r].sub = {} /\ ~run[r].open
  BY <1>2 DEF Join, RunConsistent, In
<1>4. /\ x \in RunState /\ x.stage = "vectors" /\ x.docs = run[r].docs /\ x.entry = run[r].entry
      /\ x.names = run[r].names /\ x.files = run[r].files /\ x.sub = {} /\ ~x.open
      /\ x.toEmbed \cup x.vectors \cup x.toGraph \cup x.graphs \cup x.sub \subseteq Held(r)
  BY <1>2, <1>3 DEF RunState, Held, Stages
<1>5. lost' \in [Runs -> SUBSET Chunks]
  BY <1>1, <1>2 DEF Lose, TypeOK, RunState
<1>6. /\ UNCHANGED <<bucket, qdrant, neo4j, down, faults, exit, signalled>>
      /\ UNCHANGED <<stats, counted, merged, raised, overlaps>>
  BY DEF Join, stores
<1> HIDE DEF x
<1> QED
  BY <1>1, <1>2, <1>3, <1>4, <1>5, <1>6, ChunksMove DEF TypeOK

\* What starting, repeating and ending the attempts for a sub-batch leaves alone.
Same(x, y) ==
  /\ y.stage = x.stage /\ y.docs = x.docs /\ y.entry = x.entry
  /\ y.names = x.names /\ y.files = x.files /\ y.toEmbed = x.toEmbed
  /\ y.vectors = x.vectors /\ y.blank = x.blank /\ y.toGraph = x.toGraph
  /\ y.graphs = x.graphs /\ ~y.open

LEMMA Attempts ==
  ASSUME NEW x \in RunState
  PROVE  /\ \A s \in SUBSET Chunks : Fresh(x, s) \in RunState /\ Same(x, Fresh(x, s))
         /\ Raises(x) /\ ~GivesUp(x) => CallAgain(x) \in RunState /\ Same(x, CallAgain(x))
         /\ ~Raises(x) => Retry(x) \in RunState /\ Same(x, Retry(x))
<1>0. 1 \in 1..Calls /\ 1 \in 1..Tries /\ Calls \in Nat /\ Tries \in Nat
  BY IngestPipelineAssumption
<1>1. \A s \in SUBSET Chunks : Fresh(x, s) \in RunState
  BY <1>0 DEF Fresh, RunState
<1>2. Raises(x) /\ ~GivesUp(x) => CallAgain(x) \in RunState
  <2>1. Fresh(x, x.sub) \in RunState
    BY <1>1 DEF RunState
  <2>2. x.call # Calls => x.call + 1 \in 1..Calls
    BY <1>0 DEF RunState
  <2> QED
    BY <2>1, <2>2 DEF CallAgain, GivesUp, RunState
<1>3. ~Raises(x) => Retry(x) \in RunState
  <2>1. x.try # Tries => x.try + 1 \in 1..Tries
    BY <1>0 DEF RunState
  <2> QED
    BY <2>1 DEF Retry, Raises, RunState
<1>4. /\ \A s \in SUBSET Chunks : Same(x, Fresh(x, s))
      /\ Same(x, CallAgain(x)) /\ Same(x, Retry(x))
  BY DEF Same, Fresh, CallAgain, Retry, RunState
<1> QED
  BY <1>1, <1>2, <1>3, <1>4

LEMMA TakeVectorsKeeps ==
  ASSUME IInv, NEW r \in Runs, TakeVectors(r)
  PROVE  IInv' /\ GoesTo(r, Working)
<1> PICK sub \in SUBSET run[r].vectors :
      /\ Become(r, Fresh([run[r] EXCEPT !.vectors = @ \ sub],
                         IF sub \subseteq run[r].blank THEN {} ELSE sub))
      /\ Lose(r, IF sub \subseteq run[r].blank THEN sub ELSE {})
  BY DEF TakeVectors, NextOf
<1> DEFINE rest == [run[r] EXCEPT !.vectors = @ \ sub]
           some == IF sub \subseteq run[r].blank THEN {} ELSE sub
           x    == Fresh(rest, some)
<1>1. Become(r, x) /\ Lose(r, IF sub \subseteq run[r].blank THEN sub ELSE {})
  OBVIOUS
<1>2. run[r] \in RunState /\ TypeOK
  BY RunTypes DEF IInv
<1>3. /\ rest \in RunState /\ some \in SUBSET Chunks /\ some \subseteq run[r].vectors
      /\ rest.stage = run[r].stage /\ rest.docs = run[r].docs /\ rest.entry = run[r].entry
      /\ rest.names = run[r].names /\ rest.files = run[r].files
      /\ rest.toEmbed = run[r].toEmbed /\ rest.vectors \subseteq run[r].vectors
      /\ rest.toGraph = run[r].toGraph /\ rest.graphs = run[r].graphs
  BY <1>2 DEF RunState
<1> HIDE DEF rest, some
<1>4. x \in RunState /\ Same(rest, x)
  BY <1>3, Attempts
<1>5. x.sub = some /\ x.call = 1
  BY <1>3 DEF Fresh, RunState
<1>6. run[r].stage = "vectors"
  BY DEF TakeVectors, In
<1>7. lost' \in [Runs -> SUBSET Chunks]
  BY <1>1, <1>2 DEF Lose, TypeOK, RunState
<1>8. /\ UNCHANGED <<bucket, qdrant, neo4j, down, faults, exit, signalled>>
      /\ UNCHANGED <<stats, counted, merged, raised, overlaps>>
  BY DEF TakeVectors, stores
<1>9. x.toEmbed \cup x.vectors \cup x.toGraph \cup x.graphs \cup x.sub \subseteq Held(r)
  BY <1>3, <1>4, <1>5 DEF Same, Held
<1> HIDE DEF x
<1> QED
  BY <1>1, <1>2, <1>3, <1>4, <1>5, <1>6, <1>7, <1>8, <1>9, ChunksMove DEF TypeOK, Same

LEMMA VectorsWrittenKeeps ==
  ASSUME IInv, NEW r \in Runs, VectorsWritten(r)
  PROVE  IInv' /\ GoesTo(r, Working)
<1> DEFINE x == [run[r] EXCEPT !.stage = "graph", !.vectors = {}, !.blank = {}]
<1>1. Become(r, x) /\ Lose(r, run[r].vectors)
  BY DEF VectorsWritten
<1>2. run[r] \in RunState /\ RunConsistent(r) /\ TypeOK
  BY RunTypes DEF IInv
<1>3. run[r].stage = "vectors" /\ run[r].sub = {} /\ ~run[r].open
  BY <1>2 DEF VectorsWritten, RunConsistent, In
<1>4. /\ x \in RunState /\ x.stage = "graph" /\ x.docs = run[r].docs /\ x.entry = run[r].entry
      /\ x.names = run[r].names /\ x.files = run[r].files /\ x.sub = {} /\ ~x.open
      /\ x.toEmbed \cup x.vectors \cup x.toGraph \cup x.graphs \cup x.sub \subseteq Held(r)
  BY <1>2, <1>3 DEF RunState, Held, Stages
<1>5. lost' \in [Runs -> SUBSET Chunks]
  BY <1>1, <1>2 DEF Lose, TypeOK, RunState
<1>6. /\ UNCHANGED <<bucket, qdrant, neo4j, down, faults, exit, signalled>>
      /\ UNCHANGED <<stats, counted, merged, raised, overlaps>>
  BY DEF VectorsWritten, stores
<1> HIDE DEF x
<1> QED
  BY <1>1, <1>2, <1>3, <1>4, <1>5, <1>6, ChunksMove DEF TypeOK

LEMMA TakeGraphKeeps ==
  ASSUME IInv, NEW r \in Runs, TakeGraph(r)
  PROVE  IInv' /\ GoesTo(r, Working)
<1> PICK sub \in SUBSET run[r].graphs, some \in SUBSET run[r].graphs :
      Become(r, Fresh([run[r] EXCEPT !.graphs = @ \ sub], some))
  <2>1. PICK sub \in NextOf(run[r].graphs, SubBatch) :
          LET full == sub \ run[r].empty
              data == EntitiesIn(full) # {} \/ EdgesIn(full) # {}
          IN  Become(r, Fresh([run[r] EXCEPT !.graphs = @ \ sub], IF data THEN full ELSE {}))
    BY DEF TakeGraph
  <2>2. sub \subseteq run[r].graphs
    BY DEF NextOf
  <2> QED
    BY <2>1, <2>2
<1> DEFINE rest == [run[r] EXCEPT !.graphs = @ \ sub]
           x    == Fresh(rest, some)
<1>1. Become(r, x)
  OBVIOUS
<1>2. run[r] \in RunState /\ TypeOK
  BY RunTypes DEF IInv
<1>3. /\ rest \in RunState /\ some \in SUBSET Chunks
      /\ rest.stage = run[r].stage /\ rest.docs = run[r].docs /\ rest.entry = run[r].entry
      /\ rest.names = run[r].names /\ rest.files = run[r].files
      /\ rest.toEmbed = run[r].toEmbed /\ rest.vectors = run[r].vectors
      /\ rest.toGraph = run[r].toGraph /\ rest.graphs \subseteq run[r].graphs
  BY <1>2 DEF RunState
<1> HIDE DEF rest
<1>4. x \in RunState /\ Same(rest, x)
  BY <1>3, Attempts
<1>5. x.sub = some /\ x.call = 1
  BY <1>3 DEF Fresh, RunState
<1>6. run[r].stage = "graph"
  BY DEF TakeGraph, In
<1>7. /\ UNCHANGED <<bucket, qdrant, neo4j, down, faults, exit, signalled>>
      /\ UNCHANGED <<stats, counted, merged, lost, raised, overlaps>>
  BY DEF TakeGraph, stores, past
<1>8. x.toEmbed \cup x.vectors \cup x.toGraph \cup x.graphs \cup x.sub \subseteq Held(r)
  BY <1>3, <1>4, <1>5 DEF Same, Held
<1> HIDE DEF x
<1> QED
  BY <1>1, <1>2, <1>3, <1>4, <1>5, <1>6, <1>7, <1>8, ChunksMove DEF TypeOK, Same

LEMMA GraphWrittenKeeps ==
  ASSUME IInv, NEW r \in Runs, GraphWritten(r)
  PROVE  IInv' /\ GoesTo(r, Working)
<1> DEFINE x == [run[r] EXCEPT !.stage = "download", !.graphs = {}, !.empty = {}]
<1>1. Become(r, x)
  BY DEF GraphWritten
<1>2. run[r] \in RunState /\ RunConsistent(r) /\ TypeOK
  BY RunTypes DEF IInv
<1>3. run[r].stage = "graph" /\ run[r].sub = {} /\ ~run[r].open
  BY <1>2 DEF GraphWritten, RunConsistent, In
<1>4. /\ x \in RunState /\ x.stage = "download" /\ x.docs = run[r].docs /\ x.entry = run[r].entry
      /\ x.names = run[r].names /\ x.files = run[r].files /\ x.sub = {} /\ ~x.open
      /\ x.toEmbed \cup x.vectors \cup x.toGraph \cup x.graphs \cup x.sub \subseteq Held(r)
  BY <1>2, <1>3 DEF RunState, Held, Stages
<1>5. /\ UNCHANGED <<bucket, qdrant, neo4j, down, faults, exit, signalled>>
      /\ UNCHANGED <<stats, counted, merged, lost, raised, overlaps>>
  BY DEF GraphWritten, stores, past
<1> HIDE DEF x
<1> QED
  BY <1>1, <1>2, <1>3, <1>4, <1>5, ChunksMove DEF TypeOK

LEMMA ReturnKeeps ==
  ASSUME IInv, NEW r \in Runs, Return(r)
  PROVE  IInv'
<1> DEFINE x == [run[r] EXCEPT !.stage = "over", !.names = {}, !.files = {}]
<1>1. Become(r, x)
  BY DEF Return
<1>2. run[r] \in RunState /\ RunConsistent(r) /\ run'[r] = x /\ TypeOK
  BY <1>1, RunTypes DEF IInv
<1>3. run[r].stage \in {"list", "download", "parse"}
  BY <1>2 DEF Return, In
<1>4. run[r].sub = {} /\ ~run[r].open
  BY <1>2, <1>3 DEF RunConsistent, In
<1>5. /\ x \in RunState /\ ~x.open /\ x.stage = "over" /\ x.names = {} /\ x.files = {}
      /\ x.docs = run[r].docs /\ x.entry = run[r].entry /\ x.sub = {}
      /\ x.toEmbed = run[r].toEmbed /\ x.vectors = run[r].vectors
      /\ x.toGraph = run[r].toGraph /\ x.graphs = run[r].graphs
  BY <1>2, <1>4 DEF RunState, Stages
<1>6. exit'[r] # "none" /\ exit' \in [Runs -> {"none", "zero", "one"}]
      /\ \A q \in Runs \ {r} : exit'[q] = exit[q]
  BY <1>2 DEF Return, TypeOK, Code
<1>7. /\ UNCHANGED <<bucket, qdrant, neo4j, down, faults, stats, signalled>>
      /\ UNCHANGED <<counted, merged, lost, raised, overlaps>>
  BY DEF Return, stores, past
<1>8. RunConsistent(r)' /\ CallConsistent(r)'
  <2>1. LeftNothing(r) => LeftNothing(r)'
    BY <1>7 DEF LeftNothing
  <2>2. Held(r)' = Held(r) /\ OwnChunks(r)' = OwnChunks(r)
    BY <1>2, <1>4, <1>5 DEF Held, OwnChunks
  <2> HIDE DEF x
  <2> QED
    BY <1>2, <1>5, <1>6, <1>7, <2>1, <2>2 DEF RunConsistent, CallConsistent, In
<1> HIDE DEF x
<1> QED
  BY <1>1, <1>2, <1>5, <1>6, <1>7, <1>8, RunMoves DEF TypeOK

LEMMA DieKeeps ==
  ASSUME IInv, NEW dead \in SUBSET Runs, Die(dead), Fail \/ UNCHANGED faults
  PROVE  IInv'
<1> DEFINE x == [Idle EXCEPT !.stage = "dead"]
<1>1. /\ x \in RunState /\ ~x.open /\ x.stage = "dead" /\ x.names = {} /\ x.files = {}
      /\ x.toEmbed = {} /\ x.vectors = {} /\ x.toGraph = {} /\ x.graphs = {} /\ x.sub = {}
      /\ x.entry = "main"
  <2>1. Idle \in RunState
    BY IngestPipelineAssumption DEF Idle, RunState, Stages, Entries
  <2>2. x \in RunState
    BY <2>1 DEF RunState, Stages
  <2> QED
    BY <2>2 DEF Idle
<1>2. /\ UNCHANGED <<bucket, qdrant, neo4j, down, stats, exit, signalled>>
      /\ UNCHANGED <<counted, merged, lost, raised, overlaps>>
  BY DEF Die, stores, past
<1>3. run' = [q \in Runs |-> IF q \in dead /\ run[q].stage \notin {"idle", "over", "dead"} THEN x ELSE run[q]]
  BY DEF Die
<1> HIDE DEF x
<1>4. TypeOK'
  BY <1>1, <1>2, <1>3 DEF Fail, IInv, TypeOK
<1>5. ASSUME NEW q \in Runs
      PROVE  /\ RunConsistent(q)' /\ CallConsistent(q)'
             /\ run'[q].open => run[q].open /\ run'[q].known = run[q].known
  <2>1. LeftNothing(q) => LeftNothing(q)'
    BY <1>2 DEF LeftNothing
  <2>2. RunConsistent(q) /\ CallConsistent(q)
    BY DEF IInv
  <2>3. CASE run'[q] = run[q]
    BY <1>2, <2>1, <2>2, <2>3, Untouched
  <2>4. CASE run'[q] = x /\ run[q].stage # "over"
    <3>1. Held(q)' = {}
      BY <1>1, <2>4 DEF Held
    <3>2. stats[q].files_processed = 0 => LeftNothing(q)'
      BY <2>1, <2>2 DEF RunConsistent
    <3> QED
      BY <1>1, <1>2, <2>2, <2>4, <3>1, <3>2 DEF RunConsistent, CallConsistent, In
  <2> QED
    BY <1>3, <2>3, <2>4
<1> QED
  BY <1>2, <1>4, <1>5, StoresKept

\* What the stores do by themselves, and a document that is stored.
LEMMA OutsideKeeps ==
  ASSUME IInv, Settle \/ (\E d \in Documents : Put(d))
  PROVE  IInv'
<1>1. UNCHANGED <<neo4j, run, stats, exit, counted, merged, raised, overlaps>>
  BY DEF Settle, Back, Apply, Discard, Put, locals, past
<1>2. Taken' = Taken /\ {points, underway, discarded}' \subseteq SUBSET Point
  <2>1. /\ points \subseteq Point /\ underway \subseteq Point /\ discarded \subseteq Point
    BY DEF IInv, TypeOK
  <2>2. CASE UNCHANGED qdrant
    BY <2>1, <2>2
  <2>3. ASSUME NEW p \in underway, Apply(p)
        PROVE  Taken' = Taken /\ {points, underway, discarded}' \subseteq SUBSET Point
    BY <2>1, <2>3 DEF Apply
  <2>4. ASSUME NEW gone \in SUBSET underway, Discard(gone)
        PROVE  Taken' = Taken /\ {points, underway, discarded}' \subseteq SUBSET Point
    BY <2>1, <2>4 DEF Discard
  <2>5. UNCHANGED qdrant \/ (\E p \in underway : Apply(p)) \/ \E gone \in SUBSET underway : Discard(gone)
    BY DEF Settle, Back, Put
  <2> QED
    BY <2>2, <2>3, <2>4, <2>5
<1>3. TypeOK'
  <2>1. /\ bucket' \subseteq Documents /\ down' \subseteq Stores /\ faults' \in Nat
        /\ UNCHANGED <<signalled, lost>>
    BY DEF Settle, Back, Apply, Discard, Fail, Put, locals, past, IInv, TypeOK
  <2> QED
    BY <1>1, <1>2, <2>1 DEF IInv, TypeOK
<1>4. ASSUME NEW q \in Runs
      PROVE  RunConsistent(q)' /\ CallConsistent(q)'
  <2>1. LeftNothing(q) => LeftNothing(q)'
    BY <1>1, <1>2 DEF LeftNothing
  <2> QED
    BY <1>1, <2>1, Untouched DEF IInv
<1> QED
  BY <1>1, <1>2, <1>3, <1>4, StoresKept

-----------------------------------------------------------------------------
\* The writes.  A run that writes holds chunks, so it has processed a file.
LEMMA WritersHold ==
  ASSUME IInv, NEW r \in Runs, run[r].sub # {}
  PROVE  stats[r].files_processed # 0 /\ run[r].sub \subseteq OwnChunks(r)
BY RunTypes DEF RunConsistent, Held

LEMMA PointsWritten ==
  ASSUME IInv, NEW r \in Runs, NEW x \in RunState, Become(r, x), Same(run[r], x),
         In(r, "vectors"), run[r].sub # {}, x.sub \in {{}, run[r].sub},
         x.sub # {} /\ x.call # 1 => Valid(r) \subseteq raised'[r],
         UNCHANGED <<points, discarded>>, underway' = underway \/ underway' = TakenIn(r),
         raised' \in [Runs -> SUBSET Chunks], \A q \in Runs : raised[q] \subseteq raised'[q],
         counted' \in [Runs -> SUBSET Chunks], CountedTaken',
         UNCHANGED <<bucket, neo4j, exit, signalled, merged, overlaps>>,
         down' \subseteq Stores, faults' \in Nat,
         stats' \in [Runs -> [Counters -> Nat]], lost' \in [Runs -> SUBSET Chunks],
         \A q \in Runs \ {r} : stats'[q] = stats[q],
         stats'[r].files_processed = stats[r].files_processed
  PROVE  IInv' /\ GoesTo(r, Working)
<1>1. /\ run[r] \in RunState /\ RunConsistent(r) /\ CallConsistent(r) /\ TypeOK
      /\ run'[r] = x /\ \A q \in Runs \ {r} : run'[q] = run[q]
  BY RunTypes DEF IInv
<1>2. stats[r].files_processed # 0
  BY WritersHold
<1>3. \A p \in Taken' : p \in Taken \/ (p.run = r /\ p.chunk \in Valid(r) /\ p.id = IdOf(run[r]))
  BY DEF NewPoints, TakenIn
<1>4. NewPoints(r) \subseteq Point
  <2>1. IdOf(run[r]) \in PointId
    BY <1>1, IngestPipelineAssumption DEF IdOf, PointId, RunState
  <2>2. Valid(r) \subseteq Chunks
    BY <1>1 DEF Valid, RunState
  <2> QED
    BY <2>1, <2>2 DEF NewPoints, Point
<1>5. TypeOK'
  <2>1. run' \in [Runs -> RunState]
    BY <1>1 DEF TypeOK, Become
  <2>2. {points, underway, discarded}' \subseteq SUBSET Point
    <3>1. points \subseteq Point /\ underway \subseteq Point /\ discarded \subseteq Point
      BY <1>1 DEF TypeOK
    <3>2. underway' \subseteq Point
      BY <1>4, <3>1 DEF TakenIn
    <3> QED
      BY <3>1, <3>2
  <2>3. {counted, merged, lost, raised}' \subseteq [Runs -> SUBSET Chunks]
    BY <1>1 DEF TypeOK
  <2> QED
    BY <1>1, <2>1, <2>2, <2>3 DEF TypeOK
<1>6. RunConsistent(r)'
  <2>1. x.toEmbed \cup x.vectors \cup x.toGraph \cup x.graphs \cup x.sub \subseteq Held(r)
    BY DEF Same, Held
  <2> QED
    BY <1>1, <1>2, <2>1, HeldMoves DEF Same, In
<1>7. CallConsistent(r)'
  BY <1>1 DEF CallConsistent, Valid, Same
<1>8. ASSUME NEW q \in Runs \ {r}
      PROVE  RunConsistent(q)' /\ CallConsistent(q)'
  <2>1. LeftNothing(q) => LeftNothing(q)'
    BY <1>3 DEF LeftNothing
  <2>2. RunConsistent(q) /\ CallConsistent(q)
    BY DEF IInv
  <2> QED
    BY <1>1, <2>1, <2>2, Untouched
<1>9. ASSUME NEW p \in Taken'
      PROVE  PointConsistent(p)'
  <2>1. CASE p \in Taken
    <3>1. PointConsistent(p) /\ p.run \in Runs
      BY <1>1, <2>1 DEF IInv, TypeOK, Point
    <3> QED
      BY <3>1 DEF PointConsistent
  <2>2. CASE p.run = r /\ p.chunk \in Valid(r) /\ p.id = IdOf(run[r])
    BY <1>1, <2>2 DEF IdOf, PointConsistent, CallConsistent
  <2> QED
    BY <1>3, <2>1, <2>2
<1>10. ASSUME NEW q \in Runs
       PROVE  MergeConsistent(q)'
  <2>1. \A k \in Runs : run'[k].open => run[k].open /\ run'[k] = run[k]
    BY <1>1 DEF Same
  <2> QED
    BY <2>1 DEF IInv, MergeConsistent
<1>11. EntityTwiceByOverlapOnly' /\ MergedIsWhole'
  BY DEF IInv, EntityTwiceByOverlapOnly, MergedIsWhole, EntitiesIn, OfTypes
<1>12. GoesTo(r, Working)
  BY <1>1 DEF GoesTo, Working, Same, In
<1> QED
  BY <1>5, <1>6, <1>7, <1>8, <1>9, <1>10, <1>11, <1>12 DEF IInv

LEMMA UpsertKeeps ==
  ASSUME IInv, NEW r \in Runs, Upsert(r)
  PROVE  IInv' /\ GoesTo(r, Working)
<1> DEFINE x == Fresh(run[r], {})
           new == [vectors_indexed |-> Cardinality(Valid(r))]
<1>1. /\ Become(r, x) /\ Add(r, new) /\ Lose(r, run[r].sub \cap run[r].blank)
      /\ In(r, "vectors") /\ run[r].sub # {} /\ underway' = TakenIn(r)
      /\ counted' = [counted EXCEPT ![r] = @ \cup Valid(r)]
      /\ UNCHANGED <<bucket, points, discarded, neo4j, down, faults, exit, signalled>>
      /\ UNCHANGED <<merged, raised, overlaps>>
  BY DEF Upsert
<1>2. run[r] \in RunState /\ TypeOK /\ stats[r].files_processed \in Nat
  BY RunTypes DEF IInv
<1>3. x \in RunState /\ Same(run[r], x) /\ x.sub = {}
  <2>1. x.sub = {}
    BY <1>2 DEF Fresh, RunState
  <2> QED
    BY <1>2, <2>1, Attempts
<1>4. Valid(r) \subseteq Chunks /\ Cardinality(Valid(r)) \in Nat
  BY <1>2, Counts DEF Valid, RunState
<1>5. /\ stats' \in [Runs -> [Counters -> Nat]]
      /\ \A q \in Runs \ {r} : stats'[q] = stats[q]
      /\ stats'[r].files_processed = stats[r].files_processed
  <2>1. (\A c \in DOMAIN new \cap Counters : new[c] \in Nat) /\ "files_processed" \notin DOMAIN new
    BY <1>4
  <2> HIDE DEF new
  <2> QED
    BY <1>1, <1>2, <2>1, Adds
<1>6. counted' \in [Runs -> SUBSET Chunks] /\ lost' \in [Runs -> SUBSET Chunks]
  BY <1>1, <1>2, <1>4 DEF TypeOK, Lose, RunState
<1>7. CountedTaken'
  <2> SUFFICES ASSUME NEW q \in Runs, NEW c \in counted'[q]
               PROVE  \E p \in Taken' : p.chunk = c /\ p.run = q
    BY DEF CountedTaken
  <2>1. CASE c \in counted[q]
    BY <1>1, <2>1 DEF IInv, CountedTaken, TakenIn
  <2>2. CASE q = r /\ c \in Valid(r)
    <3> DEFINE p == [chunk |-> c, run |-> r, id |-> IdOf(run[r])]
    <3>1. p \in NewPoints(r) /\ p.chunk = c /\ p.run = r
      BY <2>2 DEF NewPoints
    <3>2. p \in Taken'
      BY <1>1, <3>1 DEF TakenIn
    <3> QED
      BY <2>2, <3>1, <3>2
  <2> QED
    BY <1>1, <1>2, <2>1, <2>2 DEF TypeOK
<1> HIDE DEF x
<1> QED
  BY <1>1, <1>2, <1>3, <1>5, <1>6, <1>7, PointsWritten DEF TypeOK

\* The attempt after one that failed.
LEMMA Afterwards ==
  ASSUME NEW x \in RunState
  PROVE  /\ AfterFailure(x) \in RunState /\ Same(x, AfterFailure(x))
         /\ AfterFailure(x).sub \in {{}, x.sub}
         /\ ~Raises(x) => AfterFailure(x).call = x.call
<1>1. Fresh(x, {}) \in RunState /\ Same(x, Fresh(x, {})) /\ Fresh(x, {}).sub = {}
  <2>1. Fresh(x, {}).sub = {}
    BY DEF Fresh, RunState
  <2> QED
    BY <2>1, Attempts
<1>2. CallAgain(x).sub = x.sub /\ Retry(x).sub = x.sub /\ Retry(x).call = x.call
  BY DEF CallAgain, Retry, Fresh, RunState
<1> QED
  BY <1>1, <1>2, Attempts DEF AfterFailure, GivesUp

LEMMA UpsertFailsKeeps ==
  ASSUME IInv, NEW r \in Runs, UpsertFails(r)
  PROVE  IInv' /\ GoesTo(r, Working)
<1> DEFINE x == AfterFailure(run[r])
<1>1. /\ Become(r, x) /\ In(r, "vectors") /\ run[r].sub # {}
      /\ raised' = [raised EXCEPT ![r] = IF Raises(run[r]) THEN @ \cup Valid(r) ELSE @]
      /\ Lose(r, IF GivesUp(run[r]) THEN run[r].sub ELSE {})
      /\ UNCHANGED <<bucket, points, discarded, neo4j, stats, exit, signalled>>
      /\ UNCHANGED <<counted, merged, overlaps>>
  BY DEF UpsertFails
<1>2. run[r] \in RunState /\ TypeOK /\ CallConsistent(r)
  BY RunTypes DEF IInv
<1>3. x \in RunState /\ Same(run[r], x) /\ x.sub \in {{}, run[r].sub}
      /\ (~Raises(run[r]) => x.call = run[r].call)
  BY <1>2, Afterwards
<1>4. underway' = underway \/ underway' = TakenIn(r)
  BY DEF UpsertFails
<1>5. down' \subseteq Stores /\ faults' \in Nat
  <2>1. \/ UNCHANGED <<down, faults>>
        \/ faults' = faults + 1 /\ down' \in {down, down \cup {"qdrant"}}
    BY DEF UpsertFails, FailsAt, Fail
  <2>2. down \subseteq Stores /\ faults \in Nat
    BY <1>2 DEF TypeOK
  <2>3. "qdrant" \in Stores
    BY DEF Stores
  <2> QED
    BY <2>1, <2>2, <2>3
<1>6. Valid(r) \subseteq Chunks
  BY <1>2 DEF Valid, RunState
<1>7. /\ raised' \in [Runs -> SUBSET Chunks] /\ \A q \in Runs : raised[q] \subseteq raised'[q]
      /\ Raises(run[r]) => Valid(r) \subseteq raised'[r]
  BY <1>1, <1>2, <1>6 DEF TypeOK
<1>8. lost' \in [Runs -> SUBSET Chunks]
  BY <1>1, <1>2 DEF TypeOK, Lose, RunState
<1>9. x.sub # {} /\ x.call # 1 => Valid(r) \subseteq raised'[r]
  BY <1>1, <1>2, <1>3, <1>7 DEF CallConsistent
<1>10. CountedTaken'
  <2>1. Taken \subseteq Taken'
    BY <1>1, <1>4 DEF TakenIn
  <2> QED
    BY <1>1, <2>1 DEF IInv, CountedTaken
<1> HIDE DEF x
<1> QED
  BY <1>1, <1>2, <1>3, <1>4, <1>5, <1>7, <1>8, <1>9, <1>10, PointsWritten DEF TypeOK

LEMMA OpenMergeKeeps ==
  ASSUME IInv, NEW r \in Runs, OpenMerge(r)
  PROVE  IInv' /\ GoesTo(r, Working)
<1> DEFINE x == [run[r] EXCEPT !.open = TRUE, !.known = {n.entity : n \in nodes}]
<1>1. /\ Become(r, x) /\ In(r, "graph") /\ run[r].sub # {}
      /\ overlaps' = overlaps \cup ({r} \X Open) \cup (Open \X {r})
      /\ UNCHANGED <<bucket, qdrant, neo4j, down, faults, stats, exit, signalled>>
      /\ UNCHANGED <<counted, merged, lost, raised>>
  BY DEF OpenMerge, stores
<1>2. /\ run[r] \in RunState /\ RunConsistent(r) /\ CallConsistent(r) /\ TypeOK
      /\ run'[r] = x /\ \A q \in Runs \ {r} : run'[q] = run[q]
  BY <1>1, RunTypes DEF IInv
<1>3. \A n \in nodes : n.entity \in Entities
  BY <1>2 DEF TypeOK, Node
<1>4. /\ x \in RunState /\ x.stage = "graph" /\ x.open /\ x.known = {n.entity : n \in nodes}
      /\ x.docs = run[r].docs /\ x.entry = run[r].entry /\ x.names = run[r].names
      /\ x.files = run[r].files /\ x.sub = run[r].sub
      /\ x.toEmbed = run[r].toEmbed /\ x.vectors = run[r].vectors
      /\ x.toGraph = run[r].toGraph /\ x.graphs = run[r].graphs
  <2>1. {n.entity : n \in nodes} \in SUBSET Entities
    BY <1>3
  <2> QED
    BY <1>1, <1>2, <2>1 DEF RunState, In
<1> HIDE DEF x
<1>5. TypeOK'
  <2>1. run' \in [Runs -> RunState]
    BY <1>1, <1>2, <1>4 DEF TypeOK, Become
  <2>2. overlaps' \subseteq Runs \X Runs
    BY <1>1, <1>2 DEF TypeOK, Open
  <2> QED
    BY <1>1, <1>2, <2>1, <2>2 DEF TypeOK
<1>6. ASSUME NEW q \in Runs
      PROVE  RunConsistent(q)' /\ CallConsistent(q)'
  <2>1. LeftNothing(q) => LeftNothing(q)'
    BY <1>1 DEF LeftNothing
  <2>2. CASE q # r
    BY <1>1, <1>2, <2>1, <2>2, Untouched DEF IInv
  <2>3. CASE q = r
    <3>1. x.toEmbed \cup x.vectors \cup x.toGraph \cup x.graphs \cup x.sub \subseteq Held(r)
      BY <1>4 DEF Held
    <3>2. RunConsistent(r)'
      BY <1>1, <1>2, <1>4, <2>1, <2>3, <3>1, HeldMoves DEF In
    <3> QED
      BY <1>2, <1>4, <2>3, <3>2 DEF CallConsistent, In
  <2> QED
    BY <2>2, <2>3
<1>7. ASSUME NEW q \in Runs, run'[q].open
      PROVE  MergeConsistent(q)'
  <2>1. CASE q # r
    <3>1. run[q].open /\ run'[q] = run[q] /\ MergeConsistent(q)
      BY <1>2, <1>7, <2>1 DEF IInv
    <3>2. <<r, q>> \in overlaps'
      BY <1>1, <3>1 DEF Open
    <3> QED
      BY <1>1, <1>2, <3>1, <3>2 DEF MergeConsistent
  <2>2. CASE q = r
    <3>1. \A e \in run'[r].known : \E n \in nodes' : n.entity = e
      BY <1>1, <1>2, <1>4
    <3>2. \A n \in nodes' : n.entity \in run'[r].known
      BY <1>1, <1>2, <1>4
    <3>3. \A k \in Runs \ {r} : run'[k].open => <<k, r>> \in overlaps'
      BY <1>1, <1>2 DEF Open
    <3> QED
      BY <2>2, <3>1, <3>2, <3>3 DEF MergeConsistent
  <2> QED
    BY <2>1, <2>2
<1>8. \A q \in Runs : MergeConsistent(q)'
  BY <1>7 DEF MergeConsistent
<1>9. /\ \A p \in Taken' : PointConsistent(p)'
      /\ CountedTaken' /\ EntityTwiceByOverlapOnly' /\ MergedIsWhole'
  BY <1>1 DEF IInv, PointConsistent, CountedTaken, EntityTwiceByOverlapOnly, MergedIsWhole,
     EntitiesIn, OfTypes
<1>10. GoesTo(r, Working)
  BY <1>2, <1>4 DEF GoesTo, Working
<1> QED
  BY <1>5, <1>6, <1>8, <1>9, <1>10 DEF IInv

\* The edges of types in failing are known not to be linked.
Returned(r, failing) ==
  /\ unlinked' = [unlinked EXCEPT ![r] = @ \cup OfTypes(failing, EdgesIn(run[r].sub))]
  /\ merged' = [merged EXCEPT ![r] = @ \cup run[r].sub]

\* What a transaction leaves, whether or not its answer arrives.
LEMMA GraphMerged ==
  ASSUME IInv, NEW r \in Runs, NEW x \in RunState, Become(r, x), Same(run[r], x),
         In(r, "graph"), run[r].sub # {}, x.sub \in {{}, run[r].sub},
         NEW failing \in SUBSET ValidRelations,
         \/ UNCHANGED <<neo4j, merged>>
         \/ /\ run[r].open /\ _merge_graph_data(r, failing)
            /\ UNCHANGED <<unlinked, merged>> \/ Returned(r, failing),
         UNCHANGED <<bucket, qdrant, stats, exit, signalled, counted, lost, raised, overlaps>>,
         down' \subseteq Stores, faults' \in Nat
  PROVE  IInv' /\ GoesTo(r, Working)
<1>1. /\ run[r] \in RunState /\ RunConsistent(r) /\ CallConsistent(r) /\ MergeConsistent(r) /\ TypeOK
      /\ run'[r] = x /\ \A q \in Runs \ {r} : run'[q] = run[q]
  BY RunTypes DEF IInv
<1>2. stats[r].files_processed # 0
  BY WritersHold
<1>3. /\ nodes \subseteq nodes' /\ links \subseteq links'
      /\ \A n \in nodes' : n \in nodes \/ (run[r].open /\ n.run = r /\ n.entity \in Created(r))
  BY DEF _merge_graph_data
<1>4. TypeOK'
  <2>1. run' \in [Runs -> RunState]
    BY <1>1 DEF TypeOK, Become
  <2>2. run[r].sub \subseteq Chunks
    BY <1>1 DEF RunState
  <2>3. EntitiesIn(run[r].sub) \subseteq Entities /\ EdgesIn(run[r].sub) \subseteq Edge
    BY <2>2, IngestPipelineAssumption DEF EntitiesIn, EdgesIn, Edge
  <2>4. nodes' \subseteq Node
    BY <1>1, <2>3 DEF _merge_graph_data, Created, TypeOK, Node
  <2>5. links' \subseteq Edge
    BY <1>1, <2>3 DEF _merge_graph_data, Linked, OfTypes, TypeOK
  <2>6. merged' \in [Runs -> SUBSET Chunks]
    BY <1>1, <2>2 DEF Returned, TypeOK
  <2>7. unlinked' \in [Runs -> SUBSET Edge]
    BY <1>1, <2>3 DEF Returned, OfTypes, TypeOK
  <2> QED
    BY <1>1, <2>1, <2>4, <2>5, <2>6, <2>7 DEF TypeOK
<1>5. ASSUME NEW q \in Runs
      PROVE  RunConsistent(q)' /\ CallConsistent(q)'
  <2>1. q # r \/ stats[q].files_processed = 0 => (LeftNothing(q) => LeftNothing(q)')
    BY <1>2, <1>3 DEF LeftNothing
  <2>2. CASE q # r
    BY <1>1, <2>1, <2>2, Untouched DEF IInv
  <2>3. CASE q = r
    <3>1. x.toEmbed \cup x.vectors \cup x.toGraph \cup x.graphs \cup x.sub \subseteq Held(r)
      BY DEF Same, Held
    <3>2. RunConsistent(r)'
      BY <1>1, <1>2, <3>1, HeldMoves DEF In, Same
    <3> QED
      BY <1>1, <2>3, <3>2 DEF CallConsistent, In, Same
  <2> QED
    BY <2>2, <2>3
<1>6. ASSUME NEW q \in Runs, run'[q].open
      PROVE  MergeConsistent(q)'
  <2>1. q # r /\ run'[q] = run[q] /\ MergeConsistent(q)
    BY <1>1, <1>6 DEF IInv, Same
  <2>2. run[r].open => {<<r, q>>, <<q, r>>} \subseteq overlaps
    BY <1>1, <1>6, <2>1 DEF MergeConsistent
  <2>3. \A n \in nodes' : n.entity \in run[q].known \/ {<<n.run, q>>, <<q, n.run>>} \subseteq overlaps
    BY <1>3, <1>6, <2>1, <2>2 DEF MergeConsistent
  <2>4. \A k \in Runs \ {q} : run'[k].open => <<k, q>> \in overlaps
    BY <1>1, <1>6, <2>1 DEF MergeConsistent, Same
  <2>5. \A e \in run[q].known : \E n \in nodes' : n.entity = e
    BY <1>3, <1>6, <2>1 DEF MergeConsistent
  <2> QED
    BY <2>1, <2>3, <2>4, <2>5 DEF MergeConsistent
<1>7. \A q \in Runs : MergeConsistent(q)'
  BY <1>6 DEF MergeConsistent
<1>8. EntityTwiceByOverlapOnly'
  <2> SUFFICES ASSUME NEW n \in nodes', NEW m \in nodes', n.entity = m.entity, n # m
               PROVE  <<n.run, m.run>> \in overlaps
    BY DEF EntityTwiceByOverlapOnly
  <2>1. n \in nodes' \cap Node /\ m \in nodes' \cap Node
    BY <1>4 DEF TypeOK
  <2>2. CASE n \in nodes /\ m \in nodes
    BY <2>2 DEF IInv, EntityTwiceByOverlapOnly
  <2>3. CASE n \notin nodes /\ m \in nodes
    BY <1>1, <1>3, <2>3 DEF MergeConsistent, Created
  <2>4. CASE n \in nodes /\ m \notin nodes
    BY <1>1, <1>3, <2>4 DEF MergeConsistent, Created
  <2>5. ~(n \notin nodes /\ m \notin nodes)
    BY <1>3, <2>1 DEF Node
  <2> QED
    BY <2>2, <2>3, <2>4, <2>5
<1>9. MergedIsWhole'
  <2> SUFFICES ASSUME NEW q \in Runs, NEW c \in merged'[q]
               PROVE  /\ \A e \in EntitiesOf[c] : \E n \in nodes' : n.entity = e
                      /\ \A e \in EdgesOf[c] : e[2] \in ValidRelations /\ {e[1], e[3]} \subseteq EntitiesOf[c]
                           => e \in links' \cup unlinked'[q]
    BY DEF MergedIsWhole, EntitiesIn, OfTypes
  <2>1. CASE c \in merged[q]
    <3>1. unlinked[q] \subseteq unlinked'[q]
      BY <1>1 DEF Returned, TypeOK
    <3> QED
      BY <1>3, <2>1, <3>1 DEF IInv, MergedIsWhole, EntitiesIn, OfTypes
  <2>2. CASE /\ q = r /\ c \in run[r].sub /\ run[r].open
             /\ _merge_graph_data(r, failing) /\ Returned(r, failing)
    <3>1. ASSUME NEW e \in EntitiesOf[c]
          PROVE  (e \in run[r].known \cup Created(r)) /\ \E n \in nodes' : n.entity = e
      <4>1. CASE e \in run[r].known
        BY <1>1, <1>3, <2>2, <4>1 DEF MergeConsistent
      <4>2. CASE e \notin run[r].known
        <5> DEFINE n == [entity |-> e, run |-> r]
        <5>1. e \in Created(r)
          BY <2>2, <3>1, <4>2 DEF Created, EntitiesIn
        <5>2. n \in nodes' /\ n.entity = e
          BY <2>2, <5>1 DEF _merge_graph_data
        <5> QED
          BY <5>1, <5>2
      <4> QED
        BY <4>1, <4>2
    <3>2. ASSUME NEW e \in EdgesOf[c], e[2] \in ValidRelations, {e[1], e[3]} \subseteq EntitiesOf[c]
          PROVE  e \in links' \cup unlinked'[r]
      <4>1. e \in EdgesIn(run[r].sub)
        BY <2>2 DEF EdgesIn
      <4>2. CASE e[2] \in failing
        BY <1>1, <2>2, <4>1, <4>2 DEF Returned, OfTypes, TypeOK
      <4>3. CASE e[2] \notin failing
        BY <2>2, <3>1, <3>2, <4>1, <4>3 DEF _merge_graph_data, Linked, OfTypes
      <4> QED
        BY <4>2, <4>3
    <3> QED
      BY <2>2, <3>1, <3>2
  <2>3. c \in merged[q] \/ (q = r /\ c \in run[r].sub /\ Returned(r, failing))
    BY <1>1 DEF Returned, TypeOK
  <2>4. UNCHANGED merged \/ (run[r].open /\ _merge_graph_data(r, failing))
    OBVIOUS
  <2> QED
    BY <2>1, <2>2, <2>3, <2>4
<1>10. (\A p \in Taken' : PointConsistent(p)') /\ CountedTaken'
  BY DEF IInv, PointConsistent, CountedTaken
<1>11. GoesTo(r, Working)
  BY <1>1 DEF GoesTo, Working, Same, In
<1> QED
  BY <1>4, <1>5, <1>7, <1>8, <1>9, <1>10, <1>11 DEF IInv

LEMMA MergeKeeps ==
  ASSUME IInv, NEW r \in Runs, Merge(r) \/ MergeFails(r)
  PROVE  IInv' /\ GoesTo(r, Working)
<1>1. run[r] \in RunState /\ RunConsistent(r) /\ TypeOK
  BY RunTypes DEF IInv
<1>2. CASE Merge(r)
  <2> DEFINE x == Fresh(run[r], {})
  <2>0. PICK failing \in SUBSET ValidRelations :
          /\ FailIf(failing # {})
          /\ _merge_graph_data(r, failing)
          /\ unlinked' = [unlinked EXCEPT ![r] = @ \cup OfTypes(failing, EdgesIn(run[r].sub))]
    BY <1>2 DEF Merge
  <2>1. /\ Become(r, x) /\ run[r].open /\ _merge_graph_data(r, failing) /\ Returned(r, failing)
        /\ UNCHANGED <<bucket, qdrant, down, stats, exit, signalled>>
        /\ UNCHANGED <<counted, lost, raised, overlaps>>
    BY <1>2, <2>0 DEF Merge, Returned
  <2>2. In(r, "graph") /\ run[r].sub # {}
    BY <1>1, <2>1 DEF RunConsistent
  <2>3. x \in RunState /\ Same(run[r], x) /\ x.sub \in {{}, run[r].sub}
    <3>1. x.sub = {}
      BY <1>1 DEF Fresh, RunState
    <3> QED
      BY <1>1, <3>1, Attempts
  <2>4. down' \subseteq Stores /\ faults' \in Nat
    BY <1>1, <2>0, <2>1 DEF FailIf, Fail, TypeOK
  <2> HIDE DEF x
  <2> QED
    BY <2>1, <2>2, <2>3, <2>4, GraphMerged
<1>3. CASE MergeFails(r)
  <2> DEFINE x == AfterFailure(run[r])
  <2>1. /\ Become(r, x) /\ In(r, "graph") /\ run[r].sub # {}
        /\ UNCHANGED <<bucket, qdrant, unlinked, stats, exit, signalled>>
        /\ UNCHANGED <<counted, merged, lost, raised, overlaps>>
    BY <1>3 DEF MergeFails, past
  <2>0. PICK failing \in SUBSET ValidRelations :
          UNCHANGED <<nodes, links>> \/ (run[r].open /\ _merge_graph_data(r, failing))
    BY <1>3 DEF MergeFails
  <2>2. x \in RunState /\ Same(run[r], x) /\ x.sub \in {{}, run[r].sub}
    BY <1>1, Afterwards
  <2>3. down' \subseteq Stores /\ faults' \in Nat
    <3>1. \/ UNCHANGED <<down, faults>>
          \/ faults' = faults + 1 /\ down' \in {down, down \cup {"neo4j"}}
      BY <1>3 DEF MergeFails, FailsAt, Fail
    <3>2. down \subseteq Stores /\ faults \in Nat
      BY <1>1 DEF TypeOK
    <3>3. "neo4j" \in Stores
      BY DEF Stores
    <3> QED
      BY <3>1, <3>2, <3>3
  <2> HIDE DEF x
  <2> QED
    BY <2>0, <2>1, <2>2, <2>3, GraphMerged
<1> QED
  BY <1>2, <1>3

-----------------------------------------------------------------------------
LEMMA StepConsistent ==
  ASSUME IInv, [Next]_vars
  PROVE  IInv'
<1>1. ASSUME NEW r \in Runs, Work(r)
      PROVE  IInv'
  BY <1>1, SignalKeeps, UnreachableKeeps, ListKeeps, DownloadKeeps, ParseKeeps, EmbedKeeps,
     ExtractKeeps, JoinKeeps, TakeVectorsKeeps, UpsertKeeps, UpsertFailsKeeps,
     VectorsWrittenKeeps, TakeGraphKeeps, OpenMergeKeeps, MergeKeeps, GraphWrittenKeeps,
     ReturnKeeps DEF Work, Stage
<1>2. ASSUME NEW r \in Runs, NEW own \in BOOLEAN, NEW graphing \in BOOLEAN,
             NEW docs \in SUBSET Documents,
             main(r, own, docs, graphing) \/ ingest_specific_files(r, docs, graphing)
      PROVE  IInv'
  BY <1>2, StartKeeps DEF main, ingest_specific_files, Entries
<1>3. ASSUME NEW dead \in SUBSET Runs, Die(dead), Fail \/ UNCHANGED faults
      PROVE  IInv'
  BY <1>3, DieKeeps
<1>4. CASE UNCHANGED vars
  BY <1>4 DEF vars, stores, locals, past, IInv, TypeOK, RunConsistent, CallConsistent,
     PointConsistent, MergeConsistent, CountedTaken, EntityTwiceByOverlapOnly, MergedIsWhole,
     EntitiesIn, OfTypes, Held, OwnChunks, LeftNothing, In, Valid
<1> QED
  BY <1>1, <1>2, <1>3, <1>4, OutsideKeeps DEF Next

(* The run states, the stores and the history hang together in every       *)
(* reachable state: the invariant that the other results are read off.     *)
(* main, ingest_specific_files, QdrantIndexer.write, Neo4jIndexer.write.   *)
THEOREM InductiveInvariant == Spec => []IInv
BY InitConsistent, StepConsistent, PTL DEF Spec

(* Type correctness.                                                       *)
THEOREM TypeCorrect == Spec => []TypeOK
<1>1. IInv => TypeOK
  BY DEF IInv
<1> QED
  BY <1>1, InductiveInvariant, PTL

(* Two points for one chunk of a run, applied or still on their way, come  *)
(* from two calls of write, the first of which raised: the attempts inside *)
(* a call repeat their ids.                                                *)
(* QdrantIndexer.write, _process_file_batch.                               *)
THEOREM StoredTwice == Spec => []StoredTwiceByCallsOnly
<1>1. IInv => StoredTwiceByCallsOnly
  <2> SUFFICES ASSUME IInv, NEW p \in points \cup underway, NEW q \in points \cup underway,
                      p.chunk = q.chunk, p.run = q.run, p.chunk \notin raised[p.run]
               PROVE  p = q
    BY DEF StoredTwiceByCallsOnly
  <2>1. p \in Point /\ q \in Point /\ PointConsistent(p) /\ PointConsistent(q)
    BY DEF IInv, TypeOK
  <2>2. p.id = q.id
    <3>1. p.id.call = 1 /\ q.id.call = 1 /\ p.id.try = 1 /\ q.id.try = 1
      BY <2>1 DEF PointConsistent
    <3> QED
      BY <2>1, <3>1 DEF Point, PointId
  <2> QED
    BY <2>1, <2>2 DEF Point
<1> QED
  BY <1>1, InductiveInvariant, PTL

(* An entity has two nodes only if two runs merged it in transactions that *)
(* were open together.  Neo4jIndexer.write.                                *)
THEOREM EntityTwice == Spec => []EntityTwiceByOverlapOnly
<1>1. IInv => EntityTwiceByOverlapOnly
  BY DEF IInv
<1> QED
  BY <1>1, InductiveInvariant, PTL

(* The entities of a sub-batch whose write returned are in the graph,      *)
(* whoever merged them, and so is every edge of a valid type between two   *)
(* entities of a chunk whose query did not fail in that transaction.       *)
(* _merge_graph_data.                                                      *)
THEOREM Merged == Spec => []MergedIsWhole
<1>1. IInv => MergedIsWhole
  BY DEF IInv
<1> QED
  BY <1>1, InductiveInvariant, PTL

-----------------------------------------------------------------------------
\* What Ingestion sees of a state.
Phases == [r \in Runs |-> Phase(r)]
Given  == [r \in Runs |-> Leaves(run[r].docs)]
Handed == Vectors(Taken) \cup Graphs
Left   == Vectors(points) \cup Graphs

USE DEF Vectors, Graphs

Seen == <<Phases, Given, Handed, Left>>

LEMMA LeavesThings ==
  ASSUME NEW docs
  PROVE  Leaves(docs) \subseteq Chunks \cup Entities
<1>1. \A d \in docs \cap Supported : ChunksOf[d] \subseteq Chunks
  BY IngestPipelineAssumption
<1>2. \A c \in Chunks : EntitiesOf[c] \subseteq Entities
  BY IngestPipelineAssumption
<1> QED
  BY <1>1, <1>2 DEF Leaves, EntitiesIn

\* A run that is in progress.
LEMMA Running ==
  ASSUME IInv, NEW r \in Runs, run[r].stage \notin {"idle", "over", "dead"}
  PROVE  Phase(r) = "running" /\ exit[r] = "none"
BY RunTypes DEF RunConsistent, Phase, In

\* A run goes on, and writes nothing.
LEMMA GoesOn ==
  ASSUME IInv, NEW r \in Runs, GoesTo(r, Working), run[r].stage \in Working,
         UNCHANGED <<qdrant, nodes, exit>>
  PROVE  UNCHANGED Seen
<1>1. \A q \in Runs : Phase(q)' = Phase(q) /\ run'[q].docs = run[q].docs
  BY DEF GoesTo, Working, Phase
<1> QED
  BY <1>1 DEF Seen, Phases, Given, Handed, Left

\* It hands over some of what its documents can leave.
LEMMA Writes ==
  ASSUME IInv, NEW r \in Runs, GoesTo(r, Working), run[r].stage \in Working, UNCHANGED exit,
         NEW T, T \subseteq Leaves(run[r].docs), Handed' = Handed \cup (T \X {r}),
         Left' \in {Left, Left \cup (T \X {r})}
  PROVE  P!Next
<1>1. \A q \in Runs : Phase(q)' = Phase(q) /\ run'[q].docs = run[q].docs
  BY DEF GoesTo, Working, Phase
<1>2. Phases' = Phases /\ Given' = Given
  BY <1>1 DEF Phases, Given
<1>3. Phases[r] = "running" /\ Given[r] = Leaves(run[r].docs)
  BY Running DEF Phases, Given, Working
<1>4. T \in SUBSET Given[r]
  BY <1>3
<1>5. P!Leave(r)
  BY <1>2, <1>3, <1>4 DEF P!Leave, Phases, Given, Handed, Left
<1> QED
  BY <1>5 DEF P!Next

\* It returns, and has handed over nothing if its exit code is 1.
LEMMA Returns ==
  ASSUME IInv, NEW r \in Runs, NEW x, NEW code \in {"zero", "one"}, Become(r, x),
         x.docs = run[r].docs, x.stage = "over", run[r].stage \notin {"idle", "over", "dead"},
         exit' = [exit EXCEPT ![r] = code], code = "one" => stats[r].files_processed = 0,
         UNCHANGED <<qdrant, nodes>>
  PROVE  P!Next
<1>1. run'[r] = x /\ (\A q \in Runs \ {r} : run'[q] = run[q]) /\ RunConsistent(r) /\ TypeOK
  BY RunTypes DEF IInv
<1>2. exit'[r] = code /\ \A q \in Runs \ {r} : exit'[q] = exit[q]
  BY <1>1 DEF TypeOK
<1>3. Phase(r)' = code /\ \A q \in Runs \ {r} : Phase(q)' = Phase(q)
  BY <1>1, <1>2 DEF Phase
<1>4. Phases' = [Phases EXCEPT ![r] = code] /\ Given' = Given /\ Handed' = Handed /\ Left' = Left
  BY <1>1, <1>3 DEF Phases, Given, Handed, Left
<1>5. Phases[r] = "running"
  BY Running DEF Phases
<1>6. code = "one" => \A y \in Handed : y[2] # r
  BY <1>1 DEF RunConsistent, LeftNothing, Handed
<1>7. P!Return(r, code)
  BY <1>4, <1>5, <1>6 DEF P!Return, Phases, Given, Handed, Left
<1> QED
  BY <1>7 DEF P!Next

LEMMA BeginsStep ==
  ASSUME IInv, NEW r \in Runs, NEW entry, NEW own, NEW graphing, NEW docs \in SUBSET Documents,
         Start(r, entry, own, docs, graphing)
  PROVE  P!Next
<1> DEFINE x == [Idle EXCEPT !.stage = "list", !.entry = entry, !.own = own,
                             !.docs = docs, !.graphing = graphing]
<1>1. Become(r, x) /\ In(r, "idle") /\ UNCHANGED <<qdrant, nodes, exit>>
  BY DEF Start, stores
<1>2. x.stage = "list" /\ x.docs = docs
  BY DEF Idle
<1>3. run'[r] = x /\ (\A q \in Runs \ {r} : run'[q] = run[q]) /\ exit[r] = "none"
  BY <1>1, RunTypes DEF RunConsistent, In
<1> HIDE DEF x
<1>4. Phase(r) = "idle" /\ Phase(r)' = "running" /\ \A q \in Runs \ {r} : Phase(q)' = Phase(q)
  BY <1>1, <1>2, <1>3 DEF Phase, In
<1>5. Phases[r] = "idle" /\ Phases' = [Phases EXCEPT ![r] = "running"]
  BY <1>4 DEF Phases
<1>6. Given' = [Given EXCEPT ![r] = Leaves(docs)]
  BY <1>2, <1>3 DEF Given
<1>7. Handed' = Handed /\ Left' = Left
  BY <1>1 DEF Handed, Left
<1>8. P!Begin(r)
  BY <1>5, <1>6, <1>7, LeavesThings DEF P!Begin, Phases, Given, Handed, Left
<1> QED
  BY <1>8 DEF P!Next

LEMMA DiesStep ==
  ASSUME IInv, NEW dead \in SUBSET Runs, Die(dead)
  PROVE  P!Next
<1> DEFINE D == {r \in dead : run[r].stage \notin {"idle", "over", "dead"}}
           x == [Idle EXCEPT !.stage = "dead"]
<1>1. \A r \in Runs : run'[r] = IF r \in D THEN x ELSE run[r]
  BY DEF Die
<1>2. UNCHANGED <<qdrant, nodes, exit>>
  BY DEF Die, stores
<1>3. x.stage = "dead" /\ x.docs = {}
  BY DEF Idle
<1>4. \A r \in D : Phase(r) = "running"
  BY Running
<1> HIDE DEF x, D
<1>5. \A r \in Runs : Phase(r)' = IF r \in D THEN "dead" ELSE Phase(r)
  BY <1>1, <1>2, <1>3 DEF Phase
<1>6. Leaves({}) = {}
  BY DEF Leaves, EntitiesIn
<1>7. \A r \in Runs : Leaves(run'[r].docs) = IF r \in D THEN {} ELSE Leaves(run[r].docs)
  BY <1>1, <1>3, <1>6
<1>8. /\ Phases' = [r \in Runs |-> IF r \in D THEN "dead" ELSE Phases[r]]
      /\ Given' = [r \in Runs |-> IF r \in D THEN {} ELSE Given[r]]
      /\ Handed' = Handed /\ Left' = Left
  BY <1>2, <1>5, <1>7 DEF Phases, Given, Handed, Left
<1>9. D \in SUBSET Runs /\ \A r \in D : Phases[r] = "running"
  BY <1>4 DEF D, Phases
<1>10. P!Die(D)
  BY <1>8, <1>9 DEF P!Die, Phases, Given, Handed, Left
<1> QED
  BY <1>9, <1>10 DEF P!Next

\* One step of a run.
LEMMA StageStep ==
  ASSUME IInv, NEW r \in Runs, Stage(r)
  PROVE  P!Next \/ UNCHANGED Seen
<1> USE DEF In
<1>1. /\ run[r] \in RunState /\ RunConsistent(r) /\ TypeOK
      /\ run[r].sub # {} => run[r].sub \subseteq OwnChunks(r)
  BY RunTypes, WritersHold DEF IInv
<1>2. CASE Unreachable(r)
  <2> DEFINE x == [run[r] EXCEPT !.stage = "over", !.files = {}]
  <2>1. /\ Become(r, x) /\ exit' = [exit EXCEPT ![r] = "one"] /\ UNCHANGED <<qdrant, nodes>>
        /\ Connects(r) \/ In(r, "list")
    BY <1>2 DEF Unreachable, stores
  <2>2. x.docs = run[r].docs /\ x.stage = "over"
    BY <1>1 DEF RunState
  <2>3. run[r].stage \in {"list", "parse"} /\ stats[r].files_processed = 0
    BY <1>1, <2>1 DEF Connects, RunConsistent, RunState, Entries
  <2> HIDE DEF x
  <2> QED
    BY <2>1, <2>2, <2>3, Returns
<1>3. CASE Return(r)
  <2> DEFINE x == [run[r] EXCEPT !.stage = "over", !.names = {}, !.files = {}]
  <2>1. Become(r, x) /\ exit' = [exit EXCEPT ![r] = Code(r)] /\ UNCHANGED <<qdrant, nodes>>
    BY <1>3 DEF Return, stores
  <2>2. x.docs = run[r].docs /\ x.stage = "over"
    BY <1>1 DEF RunState
  <2>3. run[r].stage \in {"list", "download", "parse"}
    BY <1>3 DEF Return
  <2>4. Code(r) \in {"zero", "one"} /\ (Code(r) = "one" => stats[r].files_processed = 0)
    BY RunTypes DEF Code
  <2> HIDE DEF x
  <2> QED
    BY <2>1, <2>2, <2>3, <2>4, Returns
<1>4. CASE Upsert(r) \/ UpsertFails(r)
  <2>1. GoesTo(r, Working)
    BY <1>4, UpsertKeeps, UpsertFailsKeeps
  <2>2. run[r].stage = "vectors" /\ run[r].sub # {} /\ UNCHANGED <<points, discarded, nodes, exit>>
    BY <1>4 DEF Upsert, UpsertFails
  <2>3. CASE underway' = underway
    BY <2>1, <2>2, <2>3, GoesOn DEF Working
  <2>4. CASE underway' = TakenIn(r)
    <3>1. {<<p.chunk, p.run>> : p \in NewPoints(r)} = Valid(r) \X {r}
      <4>1. ASSUME NEW p \in NewPoints(r)
            PROVE  <<p.chunk, p.run>> \in Valid(r) \X {r}
        BY <4>1 DEF NewPoints
      <4>2. ASSUME NEW c \in Valid(r)
            PROVE  \E p \in NewPoints(r) : <<c, r>> = <<p.chunk, p.run>>
        <5> DEFINE p == [chunk |-> c, run |-> r, id |-> IdOf(run[r])]
        <5>1. p \in NewPoints(r) /\ p.chunk = c /\ p.run = r
          BY <4>2 DEF NewPoints
        <5> QED
          BY <5>1
      <4> QED
        BY <4>1, <4>2
    <3>2. Handed' = Handed \cup (Valid(r) \X {r}) /\ Left' = Left
      <4>1. Taken' = Taken \cup NewPoints(r)
        BY <2>2, <2>4 DEF TakenIn
      <4>2. Vectors(Taken') = Vectors(Taken) \cup (Valid(r) \X {r})
        BY <3>1, <4>1
      <4> QED
        BY <2>2, <4>2 DEF Handed, Left
    <3>3. Valid(r) \subseteq Leaves(run[r].docs)
      BY <1>1, <2>2 DEF Valid, OwnChunks, Leaves
    <3> QED
      BY <2>1, <2>2, <3>2, <3>3, Writes DEF Working
  <2> QED
    BY <1>4, <2>3, <2>4 DEF Upsert, UpsertFails
<1>5. CASE Merge(r) \/ MergeFails(r)
  <2>1. GoesTo(r, Working)
    BY <1>5, MergeKeeps
  <2>2. run[r].stage = "graph" /\ run[r].sub # {} /\ UNCHANGED <<qdrant, exit>>
    BY <1>1, <1>5 DEF Merge, MergeFails, RunConsistent
  <2>3. CASE nodes' = nodes
    BY <2>1, <2>2, <2>3, GoesOn DEF Working
  <2>4. CASE nodes' = nodes \cup {[entity |-> e, run |-> r] : e \in Created(r)}
    <3> DEFINE new == {[entity |-> e, run |-> r] : e \in Created(r)}
    <3>1. {<<n.entity, n.run>> : n \in new} = Created(r) \X {r}
      <4>1. ASSUME NEW n \in new
            PROVE  <<n.entity, n.run>> \in Created(r) \X {r}
        BY <4>1
      <4>2. ASSUME NEW e \in Created(r)
            PROVE  \E n \in new : <<e, r>> = <<n.entity, n.run>>
        <5> DEFINE n == [entity |-> e, run |-> r]
        <5>1. n \in new /\ n.entity = e /\ n.run = r
          BY <4>2
        <5> QED
          BY <5>1
      <4> HIDE DEF new
      <4> QED
        BY <4>1, <4>2
    <3>2. nodes' = nodes \cup new
      BY <2>4
    <3> HIDE DEF new
    <3>3. Handed' = Handed \cup (Created(r) \X {r}) /\ Left' = Left \cup (Created(r) \X {r})
      BY <2>2, <3>1, <3>2 DEF Handed, Left
    <3>4. Created(r) \subseteq Leaves(run[r].docs)
      BY <1>1, <2>2 DEF Created, EntitiesIn, OwnChunks, Leaves
    <3> QED
      BY <2>1, <2>2, <3>3, <3>4, Writes DEF Working
  <2> QED
    BY <1>5, <2>3, <2>4 DEF Merge, MergeFails, _merge_graph_data
<1>6. CASE List(r) \/ Download(r) \/ _download_specific(r) \/ Parse(r)
  <2>1. GoesTo(r, Working)
    BY <1>6, ListKeeps, DownloadKeeps, ParseKeeps
  <2>2. run[r].stage \in {"list", "download", "parse"} /\ UNCHANGED <<qdrant, nodes, exit>>
    BY <1>6 DEF List, Download, _download_specific, Fetch, Parse, stores
  <2> QED
    BY <2>1, <2>2, GoesOn DEF Working
<1>7. CASE Embed(r) \/ Extract(r) \/ Join(r)
  <2>1. GoesTo(r, Working)
    BY <1>7, EmbedKeeps, ExtractKeeps, JoinKeeps
  <2>2. run[r].stage = "fork" /\ UNCHANGED <<qdrant, nodes, exit>>
    BY <1>7 DEF Embed, Extract, Join, stores
  <2> QED
    BY <2>1, <2>2, GoesOn DEF Working
<1>8. CASE TakeVectors(r) \/ VectorsWritten(r) \/ TakeGraph(r) \/ GraphWritten(r) \/ OpenMerge(r)
  <2>1. GoesTo(r, Working)
    BY <1>8, TakeVectorsKeeps, VectorsWrittenKeeps, TakeGraphKeeps, GraphWrittenKeeps, OpenMergeKeeps
  <2>2. run[r].stage \in {"vectors", "graph"} /\ UNCHANGED <<qdrant, nodes, exit>>
    BY <1>8 DEF TakeVectors, VectorsWritten, TakeGraph, GraphWritten, OpenMerge, stores
  <2> QED
    BY <2>1, <2>2, GoesOn DEF Working
<1> QED
  BY <1>2, <1>3, <1>4, <1>5, <1>6, <1>7, <1>8 DEF Stage

LEMMA SeenStep ==
  ASSUME IInv, [Next]_vars
  PROVE  P!Next \/ UNCHANGED Seen
<1>1. ASSUME NEW r \in Runs, Signal(r)
      PROVE  UNCHANGED Seen
  BY <1>1 DEF Signal, stores, Seen, Phases, Given, Handed, Left, Phase, In
<1>2. CASE (\E s \in Stores : Back(s)) \/ (\E d \in Documents : Put(d)) \/ UNCHANGED vars
  <2>1. UNCHANGED <<qdrant, nodes, run, exit>>
    BY <1>2 DEF Back, Put, locals, vars, stores
  <2> QED
    BY <2>1 DEF Seen, Phases, Given, Handed, Left, Phase, In
<1>3. ASSUME NEW r \in Runs, NEW own \in BOOLEAN, NEW graphing \in BOOLEAN,
             NEW docs \in SUBSET Documents,
             main(r, own, docs, graphing) \/ ingest_specific_files(r, docs, graphing)
      PROVE  P!Next
  BY <1>3, BeginsStep DEF main, ingest_specific_files
<1>4. ASSUME NEW dead \in SUBSET Runs, Die(dead)
      PROVE  P!Next
  BY <1>4, DiesStep
<1>5. ASSUME NEW p \in underway, Apply(p)
      PROVE  P!Next
  <2>1. /\ Taken' = Taken /\ points' = points \cup {p} /\ p \in Taken
        /\ UNCHANGED <<nodes, run, exit>>
    BY <1>5 DEF Apply, locals
  <2>2. <<p.chunk, p.run>> \in Handed /\ Left' = Left \cup {<<p.chunk, p.run>>}
    BY <2>1 DEF Handed, Left
  <2>3. UNCHANGED <<Phases, Given, Handed>>
    BY <2>1 DEF Phases, Given, Handed, Phase, In
  <2>4. P!Arrive
    BY <2>2, <2>3 DEF P!Arrive, Phases, Given, Handed, Left
  <2> QED
    BY <2>4 DEF P!Next
<1>6. ASSUME NEW gone \in SUBSET underway, Discard(gone)
      PROVE  UNCHANGED Seen
  <2>1. Taken' = Taken /\ UNCHANGED <<points, nodes, run, exit>>
    BY <1>6 DEF Discard, locals
  <2> QED
    BY <2>1 DEF Seen, Phases, Given, Handed, Left, Phase, In
<1> QED
  BY <1>1, <1>2, <1>3, <1>4, <1>5, <1>6, StageStep DEF Next, Settle, Work

LEMMA SeenInit == Init => P!Init
<1> SUFFICES ASSUME Init PROVE P!Init
  OBVIOUS
<1>1. Leaves({}) = {}
  BY DEF Leaves, EntitiesIn
<1>2. \A r \in Runs : Phase(r) = "idle" /\ Leaves(run[r].docs) = {}
  BY <1>1 DEF Init, Idle, Phase
<1> QED
  BY <1>2 DEF Init, P!Init

(* The pipeline implements Ingestion: whatever fails, is retried, comes    *)
(* twice, arrives late or is killed, a run that exits with 1 has handed    *)
(* neither store anything, and a run hands over only what its documents    *)
(* hold, and only before it returned; what it has handed over may arrive   *)
(* later or never.  main, ingest_specific_files, _process_file_batch.      *)
THEOREM PipelineKeepsPromise == Spec => KeepsPromise
<1>1. IInv /\ [Next]_vars => [P!Next]_Seen
  BY SeenStep
<1> QED
  BY <1>1, SeenInit, InductiveInvariant, PTL DEF Spec, KeepsPromise, P!Spec, Seen, Phases, Given, Handed, Left

-----------------------------------------------------------------------------
(* The statistics.  Chunks in work, given up and indexed are apart, and     *)
(* apart from those of the files a run has not come to.                     *)
ChunksFor(D) == UNION {ChunksOf[d] : d \in D}

Spent(r) == InWork(r) \cup lost[r] \cup counted[r]

\* What a run spends it takes from files it is through with.
RunSpends(r) ==
  /\ ~(In(r, "fork") \/ In(r, "vectors")) => run[r].toEmbed = {} /\ run[r].vectors = {}
  /\ In(r, "vectors") => run[r].toEmbed = {} /\ run[r].sub \cap run[r].vectors = {}
  /\ run[r].toEmbed \cap run[r].vectors = {}
  /\ InWork(r) \cap (lost[r] \cup counted[r]) = {}
  /\ Spent(r) \cap ChunksFor(run[r].names \cup run[r].files) = {}
  /\ stats[r].files_processed = 0 => Spent(r) = {}

RunFiles(r) ==
  /\ run[r].names \cap run[r].files = {}
  /\ ~In(r, "parse") => run[r].files = {}
  /\ In(r, "idle") \/ In(r, "list") => run[r].names = {}
  /\ exit[r] = "one" => stats[r].files_processed = 0
  /\ stats[r].files_processed + stats[r].files_failed
       + Cardinality(run[r].names) + Cardinality(run[r].files) <= stats[r].files_seen

RunCounts(r) ==
  /\ stats[r].vectors_indexed = Cardinality(counted[r])
  /\ ~In(r, "dead") =>
       stats[r].chunks_created = stats[r].vectors_indexed + stats[r].vectors_failed
                                 + Cardinality(lost[r]) + Cardinality(InWork(r))

Tidy(r) == RunSpends(r) /\ RunFiles(r) /\ RunCounts(r)

CInv == IInv /\ \A r \in Runs : Tidy(r)

-----------------------------------------------------------------------------
\* The sizes of a set and of its parts.
LEMMA Sizes ==
  ASSUME NEW S, NEW T, IsFiniteSet(S), T \subseteq S
  PROVE  /\ Cardinality(S) \in Nat /\ Cardinality(T) \in Nat /\ Cardinality(S \ T) \in Nat
         /\ Cardinality(S) = Cardinality(T) + Cardinality(S \ T)
<1>1. S \cap T = T /\ IsFiniteSet(T) /\ IsFiniteSet(S \ T)
  BY FS_Subset
<1>2. Cardinality(S) \in Nat /\ Cardinality(T) \in Nat /\ Cardinality(S \ T) \in Nat
  BY <1>1, FS_CardinalityType
<1>3. Cardinality(S \ T) = Cardinality(S) - Cardinality(T)
  BY <1>1, FS_Difference
<1> QED
  BY <1>2, <1>3

LEMMA Joined ==
  ASSUME NEW S, NEW T, IsFiniteSet(S), IsFiniteSet(T), S \cap T = {}
  PROVE  /\ Cardinality(S) \in Nat /\ Cardinality(T) \in Nat
         /\ Cardinality(S \cup T) = Cardinality(S) + Cardinality(T)
<1>1. Cardinality(S) \in Nat /\ Cardinality(T) \in Nat
  BY FS_CardinalityType
<1>2. Cardinality(S \cup T) = Cardinality(S) + Cardinality(T) - Cardinality(S \cap T)
  BY FS_Union
<1>3. Cardinality(S \cap T) = 0
  BY FS_EmptySet, Zenon
<1> QED
  BY <1>1, <1>2, <1>3

LEMMA ChunkCounts == \A S \in SUBSET Chunks : IsFiniteSet(S) /\ Cardinality(S) \in Nat
BY Counts, IngestPipelineAssumption, FS_Subset

\* Chunks that leave the work W: given go to the lost L, up to the indexed.
Shared(W, L, gone, given, up) ==
  /\ W \in SUBSET Chunks /\ L \in SUBSET Chunks /\ W \cap L = {}
  /\ gone \subseteq W /\ given \cup up \subseteq gone /\ given \cap up = {}

LEMMA Shares ==
  ASSUME NEW W, NEW L, NEW gone, NEW given, NEW up, Shared(W, L, gone, given, up)
  PROVE  Cardinality(L) + Cardinality(W)
           = Cardinality(L \cup given) + Cardinality(W \ gone) + Cardinality(up)
             + Cardinality(gone \ (given \cup up))
<1>1. /\ IsFiniteSet(W) /\ IsFiniteSet(L) /\ IsFiniteSet(gone)
      /\ IsFiniteSet(given) /\ IsFiniteSet(up) /\ L \cap given = {} /\ given \cap up = {}
      /\ gone \subseteq W /\ given \cup up \subseteq gone
  BY ChunkCounts DEF Shared
<1>2. /\ Cardinality(L \cup given) = Cardinality(L) + Cardinality(given)
      /\ Cardinality(L) \in Nat /\ Cardinality(given) \in Nat
  BY <1>1, Joined
<1>3. /\ Cardinality(W) = Cardinality(gone) + Cardinality(W \ gone)
      /\ Cardinality(W) \in Nat /\ Cardinality(gone) \in Nat /\ Cardinality(W \ gone) \in Nat
  BY <1>1, Sizes
<1>4. /\ Cardinality(gone) = Cardinality(given \cup up) + Cardinality(gone \ (given \cup up))
      /\ Cardinality(gone \ (given \cup up)) \in Nat
  BY <1>1, Sizes
<1>5. Cardinality(given \cup up) = Cardinality(given) + Cardinality(up) /\ Cardinality(up) \in Nat
  BY <1>1, Joined
<1> QED
  BY <1>2, <1>3, <1>4, <1>5

\* Counting, counter by counter.
LEMMA CountsUp ==
  ASSUME TypeOK, NEW r \in Runs, NEW new, Add(r, new),
         \A c \in DOMAIN new \cap Counters : new[c] \in Nat
  PROVE  \A c \in Counters : stats'[r][c] = stats[r][c] + (IF c \in DOMAIN new THEN new[c] ELSE 0)
<1> DEFINE counters == [c \in Counters |-> stats[r][c] + IF c \in DOMAIN new THEN new[c] ELSE 0]
<1>1. stats' = [stats EXCEPT ![r] = counters] /\ stats \in [Runs -> [Counters -> Nat]]
  BY DEF Add, TypeOK
<1>2. stats'[r] = counters
  BY <1>1
<1> QED
  BY <1>2

LEMMA CounterTypes ==
  ASSUME TypeOK, NEW r \in Runs
  PROVE  /\ \A c \in Counters : stats[r][c] \in Nat
         /\ stats[r].files_seen \in Nat /\ stats[r].files_processed \in Nat
         /\ stats[r].files_failed \in Nat /\ stats[r].chunks_created \in Nat
         /\ stats[r].vectors_indexed \in Nat /\ stats[r].vectors_failed \in Nat
<1>1. \A c \in Counters : stats[r][c] \in Nat
  BY DEF TypeOK
<1> QED
  BY <1>1 DEF Counters

\* A step of a run is its own affair.
Only(r) ==
  \A q \in Runs \ {r} : /\ run'[q] = run[q] /\ stats'[q] = stats[q] /\ exit'[q] = exit[q]
                        /\ lost'[q] = lost[q] /\ counted'[q] = counted[q]

LEMMA OwnAffair ==
  ASSUME TypeOK, NEW r \in Runs, Stage(r)
  PROVE  Only(r)
<1>1. /\ \A x : Become(r, x) => \A q \in Runs \ {r} : run'[q] = run[q]
      /\ \A new : Add(r, new) => \A q \in Runs \ {r} : stats'[q] = stats[q]
      /\ \A s : Lose(r, s) => \A q \in Runs \ {r} : lost'[q] = lost[q]
  BY DEF Become, Add, Lose, TypeOK
<1>2. CASE Unreachable(r) \/ List(r) \/ Download(r) \/ _download_specific(r) \/ Return(r)
  <2>1. UNCHANGED <<lost, counted>> /\ \A q \in Runs \ {r} : exit'[q] = exit[q]
    BY <1>2 DEF Unreachable, List, Download, _download_specific, Fetch, Return, past, TypeOK
  <2>2. (\E x : Become(r, x)) /\ (UNCHANGED stats \/ \E new : Add(r, new))
    BY <1>2 DEF Unreachable, List, Download, _download_specific, Fetch, Return
  <2> QED
    BY <1>1, <2>1, <2>2 DEF Only
<1>3. CASE Parse(r) \/ Embed(r) \/ Extract(r) \/ Join(r)
  <2>1. UNCHANGED <<exit, counted>> /\ (UNCHANGED lost \/ \E s : Lose(r, s))
    BY <1>3 DEF Parse, Embed, Extract, Join, past
  <2>2. (\E x : Become(r, x)) /\ (UNCHANGED stats \/ \E new : Add(r, new))
    BY <1>3 DEF Parse, Embed, Extract, Join
  <2> QED
    BY <1>1, <2>1, <2>2 DEF Only
<1>4. CASE TakeVectors(r) \/ Upsert(r) \/ UpsertFails(r) \/ VectorsWritten(r)
  <2>1. UNCHANGED exit /\ \A q \in Runs \ {r} : counted'[q] = counted[q]
    BY <1>4 DEF TakeVectors, Upsert, UpsertFails, VectorsWritten, TypeOK
  <2>2. /\ \E x : Become(r, x)
        /\ UNCHANGED stats \/ \E new : Add(r, new)
        /\ \E s : Lose(r, s)
    BY <1>4 DEF TakeVectors, Upsert, UpsertFails, VectorsWritten
  <2> QED
    BY <1>1, <2>1, <2>2 DEF Only
<1>5. CASE TakeGraph(r) \/ OpenMerge(r) \/ Merge(r) \/ MergeFails(r) \/ GraphWritten(r)
  <2>1. UNCHANGED <<stats, exit, lost, counted>> /\ \E x : Become(r, x)
    BY <1>5 DEF TakeGraph, OpenMerge, Merge, MergeFails, GraphWritten, past
  <2> QED
    BY <1>1, <2>1 DEF Only
<1> QED
  BY <1>2, <1>3, <1>4, <1>5 DEF Stage

\* A run that is not touched keeps its counts.
LEMMA TidyKept ==
  ASSUME NEW q \in Runs, Tidy(q), run'[q] = run[q], stats'[q] = stats[q], exit'[q] = exit[q],
         lost'[q] = lost[q], counted'[q] = counted[q]
  PROVE  Tidy(q)'
BY DEF Tidy, RunSpends, RunFiles, RunCounts, Spent, InWork, In

-----------------------------------------------------------------------------
\* The steps on chunks.  Chunks gone leave the work: as lost, as indexed, or as
\* failed; the run goes on to x.
Takes(r, gone, given, up) ==
  /\ gone \subseteq InWork(r) /\ given \cup up \subseteq gone /\ given \cap up = {}
  /\ lost'[r] = lost[r] \cup given
  /\ counted'[r] = counted[r] \cup up
  /\ stats'[r].vectors_indexed = stats[r].vectors_indexed + Cardinality(up)
  /\ stats'[r].vectors_failed = stats[r].vectors_failed + Cardinality(gone \ (given \cup up))
  /\ stats'[r].files_seen = stats[r].files_seen
  /\ stats'[r].files_processed = stats[r].files_processed
  /\ stats'[r].files_failed = stats[r].files_failed
  /\ stats'[r].chunks_created = stats[r].chunks_created
  /\ exit'[r] = exit[r]

WorkOf(x) == x.toEmbed \cup x.vectors \cup (IF x.stage = "vectors" THEN x.sub ELSE {})

Goes(r, x, gone) ==
  /\ run'[r] = x
  /\ {run[r].stage, x.stage} \subseteq {"fork", "vectors", "graph", "download"}
  /\ x.names = run[r].names /\ x.files = run[r].files
  /\ x.stage \in {"graph", "download"} => x.toEmbed = {} /\ x.vectors = {}
  /\ x.stage = "vectors" => x.toEmbed = {} /\ x.sub \cap x.vectors = {}
  /\ x.toEmbed \cap x.vectors = {}
  /\ WorkOf(x) = WorkOf(run[r]) \ gone

LEMMA WorkTypes ==
  ASSUME IInv, NEW r \in Runs
  PROVE  /\ InWork(r) = WorkOf(run[r])
         /\ InWork(r) \in SUBSET Chunks /\ lost[r] \in SUBSET Chunks /\ counted[r] \in SUBSET Chunks
<1>1. run[r] \in RunState /\ TypeOK
  BY RunTypes DEF IInv
<1>2. InWork(r) = WorkOf(run[r])
  BY DEF InWork, WorkOf, In
<1> QED
  BY <1>1, <1>2 DEF TypeOK, WorkOf, RunState

LEMMA ChunksTidy ==
  ASSUME IInv, NEW r \in Runs, Tidy(r), NEW x, NEW gone, NEW given, NEW up,
         Goes(r, x, gone), Takes(r, gone, given, up)
  PROVE  Tidy(r)'
<1> DEFINE W == WorkOf(run[r])
           V == WorkOf(x)
<1>1. TypeOK /\ InWork(r) = W /\ run'[r] = x
  BY WorkTypes DEF IInv, Goes
<1>2. InWork(r)' = V
  BY <1>1 DEF InWork, WorkOf, In
<1>3. /\ W \in SUBSET Chunks /\ lost[r] \in SUBSET Chunks /\ counted[r] \in SUBSET Chunks
  BY <1>1, WorkTypes
<1>4. /\ gone \subseteq W /\ given \cup up \subseteq gone /\ given \cap up = {}
      /\ lost'[r] = lost[r] \cup given /\ counted'[r] = counted[r] \cup up /\ V = W \ gone
  BY <1>1 DEF Takes, Goes
<1>5. W \cap (lost[r] \cup counted[r]) = {}
  BY <1>1 DEF Tidy, RunSpends
<1> HIDE DEF W, V
<1>6. Spent(r)' \subseteq Spent(r) /\ InWork(r)' \cap (lost[r] \cup counted[r])' = {}
  BY <1>1, <1>2, <1>4, <1>5 DEF Spent
<1>7. RunSpends(r)'
  BY <1>1, <1>6 DEF Tidy, RunSpends, Goes, Takes, In
<1>8. RunFiles(r)'
  BY <1>1 DEF Tidy, RunFiles, Goes, Takes, In
<1>9. RunCounts(r)'
  <2>1. /\ stats[r].vectors_indexed = Cardinality(counted[r])
        /\ stats[r].chunks_created = stats[r].vectors_indexed + stats[r].vectors_failed
                                     + Cardinality(lost[r]) + Cardinality(W)
    BY <1>1 DEF Tidy, RunCounts, Goes, In
  <2>2. /\ Cardinality(W) \in Nat /\ Cardinality(lost[r]) \in Nat /\ Cardinality(counted[r]) \in Nat
        /\ Cardinality(up) \in Nat /\ Cardinality(V) \in Nat
        /\ Cardinality(gone \ (given \cup up)) \in Nat /\ Cardinality(lost'[r]) \in Nat
        /\ Cardinality(counted'[r]) = Cardinality(counted[r]) + Cardinality(up)
        /\ Cardinality(lost[r]) + Cardinality(W)
             = Cardinality(lost'[r]) + Cardinality(V) + Cardinality(up)
               + Cardinality(gone \ (given \cup up))
    <3>1. Shared(W, lost[r], gone, given, up)
      BY <1>3, <1>4, <1>5 DEF Shared
    <3>2. Cardinality(lost[r]) + Cardinality(W)
            = Cardinality(lost[r] \cup given) + Cardinality(W \ gone) + Cardinality(up)
              + Cardinality(gone \ (given \cup up))
      BY <3>1, Shares
    <3>3. Cardinality(counted[r] \cup up) = Cardinality(counted[r]) + Cardinality(up)
      <4>1. IsFiniteSet(counted[r]) /\ IsFiniteSet(up) /\ counted[r] \cap up = {}
        BY <1>3, <1>4, <1>5, ChunkCounts
      <4> QED
        BY <4>1, Joined
    <3>4. /\ up \in SUBSET Chunks /\ V \in SUBSET Chunks /\ gone \ (given \cup up) \in SUBSET Chunks
          /\ lost'[r] \in SUBSET Chunks
      BY <1>3, <1>4
    <3>5. /\ Cardinality(W) \in Nat /\ Cardinality(lost[r]) \in Nat /\ Cardinality(counted[r]) \in Nat
          /\ Cardinality(up) \in Nat /\ Cardinality(V) \in Nat
          /\ Cardinality(gone \ (given \cup up)) \in Nat /\ Cardinality(lost'[r]) \in Nat
      BY <1>3, <3>4, ChunkCounts
    <3> QED
      BY <1>4, <3>2, <3>3, <3>5
  <2>3. stats[r].vectors_failed \in Nat
    BY <1>1, CounterTypes
  <2>4. /\ stats'[r].vectors_indexed = stats[r].vectors_indexed + Cardinality(up)
        /\ stats'[r].vectors_failed = stats[r].vectors_failed + Cardinality(gone \ (given \cup up))
        /\ stats'[r].chunks_created = stats[r].chunks_created
    BY DEF Takes
  <2>5. /\ stats'[r].vectors_indexed = Cardinality(counted'[r])
        /\ stats'[r].chunks_created = stats'[r].vectors_indexed + stats'[r].vectors_failed
                                      + Cardinality(lost'[r]) + Cardinality(V)
    BY <2>1, <2>2, <2>3, <2>4
  <2> QED
    BY <1>2, <2>5 DEF RunCounts
<1> QED
  BY <1>7, <1>8, <1>9 DEF Tidy

\* What is lost is neither indexed nor failed; and a step may take nothing.
LEMMA TakesLost ==
  ASSUME TypeOK, NEW r \in Runs, NEW given, given \subseteq InWork(r),
         lost'[r] = lost[r] \cup given, counted'[r] = counted[r],
         stats'[r] = stats[r], exit'[r] = exit[r]
  PROVE  Takes(r, given, given, {})
<1>1. Cardinality({}) = 0 /\ given \ (given \cup {}) = {}
  BY FS_EmptySet
<1>2. stats[r].vectors_indexed \in Nat /\ stats[r].vectors_failed \in Nat
  BY CounterTypes
<1> QED
  BY <1>1, <1>2 DEF Takes

LEMMA TakesNothing ==
  ASSUME TypeOK, NEW r \in Runs, lost'[r] = lost[r], counted'[r] = counted[r],
         stats'[r] = stats[r], exit'[r] = exit[r]
  PROVE  Takes(r, {}, {}, {})
BY TakesLost

LEMMA EmbedTidy ==
  ASSUME IInv, NEW r \in Runs, Tidy(r), Embed(r)
  PROVE  Tidy(r)'
<1> PICK batch \in SUBSET run[r].toEmbed, good \in SUBSET run[r].toEmbed :
      /\ Become(r, IF good = {} THEN [run[r] EXCEPT !.toEmbed = @ \ batch]
                   ELSE [run[r] EXCEPT !.toEmbed = @ \ batch,
                           !.vectors = @ \cup batch, !.blank = @ \cup (batch \ good)])
      /\ Add(r, [vectors_failed |-> IF good = {} THEN Cardinality(batch) ELSE 0])
  BY DEF Embed, BatchEmbedder, NextOf
<1> DEFINE new == [vectors_failed |-> IF good = {} THEN Cardinality(batch) ELSE 0]
<1>1. /\ TypeOK /\ run[r] \in RunState /\ run[r].stage = "fork"
      /\ UNCHANGED <<exit, lost, counted>> /\ run[r].toEmbed \cap run[r].vectors = {}
  BY RunTypes DEF IInv, Embed, In, past, Tidy, RunSpends
<1>2. Cardinality(batch) \in Nat
  BY <1>1, Counts DEF RunState
<1>3. \A c \in Counters :
        stats'[r][c] = stats[r][c] + (IF c = "vectors_failed" /\ good = {} THEN Cardinality(batch) ELSE 0)
  <2>1. /\ \A c \in DOMAIN new \cap Counters : new[c] \in Nat
        /\ DOMAIN new = {"vectors_failed"} /\ Add(r, new)
        /\ new["vectors_failed"] = IF good = {} THEN Cardinality(batch) ELSE 0
    BY <1>2
  <2> HIDE DEF new
  <2>2. \A c \in Counters : stats'[r][c] = stats[r][c] + (IF c \in DOMAIN new THEN new[c] ELSE 0)
    BY <1>1, <2>1, CountsUp
  <2> QED
    BY <2>1, <2>2
<1>4. /\ \A c \in Counters : stats[r][c] \in Nat
      /\ stats[r].vectors_indexed \in Nat /\ stats[r].vectors_failed \in Nat
  BY <1>1, CounterTypes
<1>5. InWork(r) = run[r].toEmbed \cup run[r].vectors
  BY <1>1 DEF InWork, In
<1>6. CASE good = {}
  <2> DEFINE x == [run[r] EXCEPT !.toEmbed = @ \ batch]
  <2>1. run'[r] = x
    BY <1>6, RunTypes
  <2>2. /\ x.stage = "fork" /\ x.names = run[r].names /\ x.files = run[r].files
        /\ x.toEmbed = run[r].toEmbed \ batch /\ x.vectors = run[r].vectors
    BY <1>1 DEF RunState
  <2> HIDE DEF x
  <2>3. Goes(r, x, batch)
    BY <1>1, <2>1, <2>2 DEF Goes, WorkOf
  <2>4. Cardinality({}) = 0 /\ batch \ ({} \cup {}) = batch
    BY FS_EmptySet
  <2>5. /\ stats'[r].vectors_indexed = stats[r].vectors_indexed
        /\ stats'[r].vectors_failed = stats[r].vectors_failed + Cardinality(batch)
        /\ \A c \in Counters \ {"vectors_failed"} : stats'[r][c] = stats[r][c]
    BY <1>3, <1>4, <1>6 DEF Counters
  <2>6. Takes(r, batch, {}, {})
    BY <1>1, <1>4, <1>5, <2>4, <2>5 DEF Takes, Counters
  <2> QED
    BY <2>3, <2>6, ChunksTidy
<1>7. CASE good # {}
  <2> DEFINE x == [run[r] EXCEPT !.toEmbed = @ \ batch,
                     !.vectors = @ \cup batch, !.blank = @ \cup (batch \ good)]
  <2>1. run'[r] = x
    BY <1>7, RunTypes
  <2>2. /\ x.stage = "fork" /\ x.names = run[r].names /\ x.files = run[r].files
        /\ x.toEmbed = run[r].toEmbed \ batch /\ x.vectors = run[r].vectors \cup batch
    BY <1>1 DEF RunState
  <2> HIDE DEF x
  <2>3. Goes(r, x, {})
    BY <1>1, <2>1, <2>2 DEF Goes, WorkOf
  <2>4. stats'[r] = stats[r]
    <3>1. \A c \in Counters : stats'[r][c] = stats[r][c]
      BY <1>3, <1>4, <1>7
    <3>2. stats[r] \in [Counters -> Nat]
      BY <1>1 DEF TypeOK
    <3>3. stats'[r] \in [Counters -> Nat]
      BY <1>1, EmbedKeeps DEF IInv, TypeOK
    <3> QED
      BY <3>1, <3>2, <3>3
  <2>5. Takes(r, {}, {}, {})
    BY <1>1, <2>4, TakesNothing
  <2> QED
    BY <2>3, <2>5, ChunksTidy
<1> QED
  BY <1>6, <1>7

LEMMA JoinTidy ==
  ASSUME IInv, NEW r \in Runs, Tidy(r), Join(r)
  PROVE  Tidy(r)'
<1> DEFINE x == [run[r] EXCEPT !.stage = "vectors", !.toEmbed = {}, !.toGraph = {}]
<1>1. /\ TypeOK /\ run[r] \in RunState /\ run[r].stage = "fork" /\ run[r].sub = {}
      /\ run'[r] = x /\ UNCHANGED <<stats, exit, counted>> /\ lost'[r] = lost[r] \cup run[r].toEmbed
      /\ run[r].toEmbed \cap run[r].vectors = {}
  <2>1. /\ TypeOK /\ run[r] \in RunState /\ RunConsistent(r) /\ run'[r] = x /\ Lose(r, run[r].toEmbed)
        /\ UNCHANGED <<stats, exit, counted>> /\ In(r, "fork")
    BY RunTypes DEF IInv, Join
  <2>2. run[r].stage = "fork" /\ run[r].sub = {}
    BY <2>1 DEF In, RunConsistent
  <2>3. lost'[r] = lost[r] \cup run[r].toEmbed /\ run[r].toEmbed \cap run[r].vectors = {}
    BY <2>1 DEF Lose, TypeOK, Tidy, RunSpends
  <2> HIDE DEF x
  <2> QED
    BY <2>1, <2>2, <2>3
<1>2. /\ x.stage = "vectors" /\ x.names = run[r].names /\ x.files = run[r].files
      /\ x.toEmbed = {} /\ x.vectors = run[r].vectors /\ x.sub = {}
  BY <1>1 DEF RunState
<1> HIDE DEF x
<1>3. Goes(r, x, run[r].toEmbed)
  BY <1>1, <1>2 DEF Goes, WorkOf
<1>4. Takes(r, run[r].toEmbed, run[r].toEmbed, {})
  <2>1. run[r].toEmbed \subseteq InWork(r)
    BY DEF InWork
  <2> QED
    BY <1>1, <2>1, TakesLost
<1> QED
  BY <1>3, <1>4, ChunksTidy

LEMMA VectorsWrittenTidy ==
  ASSUME IInv, NEW r \in Runs, Tidy(r), VectorsWritten(r)
  PROVE  Tidy(r)'
<1> DEFINE x == [run[r] EXCEPT !.stage = "graph", !.vectors = {}, !.blank = {}]
<1>1. /\ TypeOK /\ run[r] \in RunState /\ run[r].stage = "vectors" /\ run[r].sub = {}
      /\ run'[r] = x /\ UNCHANGED <<stats, exit, counted>> /\ lost'[r] = lost[r] \cup run[r].vectors
      /\ run[r].toEmbed = {}
  BY RunTypes DEF IInv, VectorsWritten, In, TypeOK, Lose, Tidy, RunSpends
<1>2. /\ x.stage = "graph" /\ x.names = run[r].names /\ x.files = run[r].files
      /\ x.toEmbed = {} /\ x.vectors = {}
  BY <1>1 DEF RunState
<1> HIDE DEF x
<1>3. Goes(r, x, run[r].vectors)
  BY <1>1, <1>2 DEF Goes, WorkOf
<1>4. Takes(r, run[r].vectors, run[r].vectors, {})
  <2>1. run[r].vectors \subseteq InWork(r)
    BY DEF InWork
  <2> QED
    BY <1>1, <2>1, TakesLost
<1> QED
  BY <1>3, <1>4, ChunksTidy

\* A sub-batch is taken up, or dropped because it has no vector.
LEMMA TakeVectorsTidy ==
  ASSUME IInv, NEW r \in Runs, Tidy(r), TakeVectors(r)
  PROVE  Tidy(r)'
<1> PICK sub \in SUBSET run[r].vectors :
      /\ Become(r, Fresh([run[r] EXCEPT !.vectors = @ \ sub],
                         IF sub \subseteq run[r].blank THEN {} ELSE sub))
      /\ Lose(r, IF sub \subseteq run[r].blank THEN sub ELSE {})
  BY DEF TakeVectors, NextOf
<1> DEFINE void == sub \subseteq run[r].blank
           x    == Fresh([run[r] EXCEPT !.vectors = @ \ sub], IF void THEN {} ELSE sub)
<1>1. /\ TypeOK /\ run[r] \in RunState /\ run[r].stage = "vectors" /\ run[r].sub = {}
      /\ run'[r] = x /\ UNCHANGED <<stats, exit, counted>>
      /\ lost'[r] = lost[r] \cup IF void THEN sub ELSE {}
      /\ run[r].toEmbed = {}
  BY RunTypes DEF IInv, TakeVectors, In, TypeOK, Lose, Tidy, RunSpends
<1>2. /\ x.stage = "vectors" /\ x.names = run[r].names /\ x.files = run[r].files
      /\ x.toEmbed = {} /\ x.vectors = run[r].vectors \ sub /\ x.sub = IF void THEN {} ELSE sub
  BY <1>1 DEF RunState, Fresh
<1> HIDE DEF x, void
<1>3. CASE void
  <2>1. Goes(r, x, sub)
    BY <1>1, <1>2, <1>3 DEF Goes, WorkOf
  <2>2. Takes(r, sub, sub, {})
    <3>1. sub \subseteq InWork(r)
      BY DEF InWork
    <3> QED
      BY <1>1, <1>3, <3>1, TakesLost
  <2> QED
    BY <2>1, <2>2, ChunksTidy
<1>4. CASE ~void
  <2>1. Goes(r, x, {})
    BY <1>1, <1>2, <1>4 DEF Goes, WorkOf
  <2>2. Takes(r, {}, {}, {})
    BY <1>1, <1>4, TakesNothing
  <2> QED
    BY <2>1, <2>2, ChunksTidy
<1> QED
  BY <1>3, <1>4

\* A sub-batch is written: its rows with a vector are counted, the others lost.
LEMMA UpsertTidy ==
  ASSUME IInv, NEW r \in Runs, Tidy(r), Upsert(r)
  PROVE  Tidy(r)'
<1> DEFINE x     == Fresh(run[r], {})
           sub   == run[r].sub
           blank == run[r].sub \cap run[r].blank
           new   == [vectors_indexed |-> Cardinality(Valid(r))]
<1>1. /\ TypeOK /\ run[r] \in RunState /\ run[r].stage = "vectors" /\ run'[r] = x
      /\ UNCHANGED exit /\ Add(r, new)
      /\ lost'[r] = lost[r] \cup blank /\ counted'[r] = counted[r] \cup Valid(r)
      /\ run[r].toEmbed = {} /\ sub \cap run[r].vectors = {}
  BY RunTypes DEF IInv, Upsert, In, TypeOK, Lose, Tidy, RunSpends
<1>2. /\ x.stage = "vectors" /\ x.names = run[r].names /\ x.files = run[r].files
      /\ x.toEmbed = {} /\ x.vectors = run[r].vectors /\ x.sub = {}
  BY <1>1 DEF RunState, Fresh
<1>3. /\ Valid(r) \in SUBSET Chunks /\ blank \cup Valid(r) = sub /\ blank \cap Valid(r) = {}
      /\ sub \subseteq InWork(r)
  BY <1>1 DEF Valid, RunState, InWork, In
<1>4. Cardinality(Valid(r)) \in Nat
  BY <1>3, ChunkCounts
<1>5. \A c \in Counters :
        stats'[r][c] = stats[r][c] + (IF c = "vectors_indexed" THEN Cardinality(Valid(r)) ELSE 0)
  <2>1. /\ \A c \in DOMAIN new \cap Counters : new[c] \in Nat
        /\ DOMAIN new = {"vectors_indexed"} /\ new["vectors_indexed"] = Cardinality(Valid(r))
    BY <1>4
  <2> HIDE DEF new
  <2>2. \A c \in Counters : stats'[r][c] = stats[r][c] + (IF c \in DOMAIN new THEN new[c] ELSE 0)
    BY <1>1, <2>1, CountsUp
  <2> QED
    BY <2>1, <2>2
<1>6. /\ stats'[r].vectors_indexed = stats[r].vectors_indexed + Cardinality(Valid(r))
      /\ \A c \in Counters \ {"vectors_indexed"} : stats'[r][c] = stats[r][c]
      /\ stats[r].vectors_failed \in Nat
  <2>1. \A c \in Counters : stats[r][c] \in Nat
    BY <1>1, CounterTypes
  <2> QED
    BY <1>5, <2>1 DEF Counters
<1> HIDE DEF x, new
<1>7. Goes(r, x, sub)
  BY <1>1, <1>2 DEF Goes, WorkOf
<1>8. Takes(r, sub, blank, Valid(r))
  <2>1. sub \ (blank \cup Valid(r)) = {} /\ Cardinality({}) = 0
    BY <1>3, FS_EmptySet
  <2>2. stats'[r].vectors_failed = stats[r].vectors_failed + Cardinality(sub \ (blank \cup Valid(r)))
    BY <1>6, <2>1 DEF Counters
  <2> QED
    BY <1>1, <1>3, <1>6, <2>2 DEF Takes, Counters
<1> QED
  BY <1>7, <1>8, ChunksTidy

\* A failed attempt keeps the sub-batch, or gives it up and loses all of it.
LEMMA UpsertFailsTidy ==
  ASSUME IInv, NEW r \in Runs, Tidy(r), UpsertFails(r)
  PROVE  Tidy(r)'
<1> DEFINE x    == AfterFailure(run[r])
           gone == IF GivesUp(run[r]) THEN run[r].sub ELSE {}
<1>1. /\ TypeOK /\ run[r] \in RunState /\ run[r].stage = "vectors" /\ run'[r] = x
      /\ UNCHANGED <<stats, exit, counted>> /\ lost'[r] = lost[r] \cup gone
      /\ run[r].toEmbed = {} /\ run[r].sub \cap run[r].vectors = {}
  BY RunTypes DEF IInv, UpsertFails, In, TypeOK, Lose, Tidy, RunSpends
<1>2. Same(run[r], x)
  BY <1>1, Afterwards
<1>3. x.sub = run[r].sub \ gone
  BY <1>1 DEF AfterFailure, GivesUp, Fresh, CallAgain, Retry, RunState
<1> HIDE DEF x, gone
<1>4. gone \subseteq run[r].sub
  BY DEF gone
<1>5. Goes(r, x, gone)
  BY <1>1, <1>2, <1>3, <1>4 DEF Goes, WorkOf, Same
<1>6. Takes(r, gone, gone, {})
  <2>1. gone \subseteq InWork(r)
    BY <1>1, <1>4 DEF InWork, In
  <2> QED
    BY <1>1, <2>1, TakesLost
<1> QED
  BY <1>5, <1>6, ChunksTidy

\* The graph takes no chunk from the statistics: a run that leaves its chunks as
\* they are, in the same stage or back at the downloads, counts as before.
LEMMA GraphGoes ==
  ASSUME IInv, NEW r \in Runs, Tidy(r), NEW x, run'[r] = x,
         UNCHANGED <<stats, exit, lost, counted>>, run[r].stage \in {"fork", "graph"},
         x.stage = run[r].stage \/ (x.stage = "download" /\ run[r].stage = "graph"),
         x.names = run[r].names, x.files = run[r].files,
         x.toEmbed = run[r].toEmbed, x.vectors = run[r].vectors
  PROVE  Tidy(r)'
<1>1. /\ TypeOK /\ run[r].toEmbed \cap run[r].vectors = {}
      /\ run[r].stage = "graph" => run[r].toEmbed = {} /\ run[r].vectors = {}
  BY DEF IInv, In, Tidy, RunSpends
<1>2. Goes(r, x, {})
  BY <1>1 DEF Goes, WorkOf
<1>3. Takes(r, {}, {}, {})
  BY <1>1, TakesNothing
<1> QED
  BY <1>2, <1>3, ChunksTidy

LEMMA GraphTidy ==
  ASSUME IInv, NEW r \in Runs, Tidy(r),
         Extract(r) \/ TakeGraph(r) \/ OpenMerge(r) \/ Merge(r) \/ MergeFails(r) \/ GraphWritten(r)
  PROVE  Tidy(r)'
<1>1. /\ TypeOK /\ run[r] \in RunState
      /\ UNCHANGED <<stats, exit, lost, counted>> /\ run[r].stage \in {"fork", "graph"}
  <2>1. TypeOK /\ run[r] \in RunState /\ RunConsistent(r)
    BY RunTypes DEF IInv
  <2>2. UNCHANGED <<stats, exit, lost, counted>>
    BY DEF Extract, TakeGraph, OpenMerge, Merge, MergeFails, GraphWritten, past
  <2>3. run[r].stage \in {"fork", "graph"}
    BY <2>1 DEF Extract, TakeGraph, OpenMerge, Merge, MergeFails, GraphWritten, In, RunConsistent
  <2> QED
    BY <2>1, <2>2, <2>3
<1>2. CASE Extract(r)
  <2>1. PICK batch, good : Become(r, [run[r] EXCEPT !.toGraph = @ \ batch,
                             !.graphs = @ \cup batch, !.empty = @ \cup (batch \ good)])
    BY <1>2 DEF Extract
  <2> DEFINE x == [run[r] EXCEPT !.toGraph = @ \ batch,
                     !.graphs = @ \cup batch, !.empty = @ \cup (batch \ good)]
  <2>2. /\ x.stage = run[r].stage /\ x.names = run[r].names /\ x.files = run[r].files
        /\ x.toEmbed = run[r].toEmbed /\ x.vectors = run[r].vectors
    BY <1>1 DEF RunState
  <2>3. run'[r] = x
    BY <2>1, RunTypes
  <2> HIDE DEF x
  <2> QED
    BY <1>1, <2>2, <2>3, GraphGoes
<1>3. CASE TakeGraph(r)
  <2>1. PICK sub, some : Become(r, Fresh([run[r] EXCEPT !.graphs = @ \ sub], some))
    BY <1>3 DEF TakeGraph
  <2> DEFINE x == Fresh([run[r] EXCEPT !.graphs = @ \ sub], some)
  <2>2. /\ x.stage = run[r].stage /\ x.names = run[r].names /\ x.files = run[r].files
        /\ x.toEmbed = run[r].toEmbed /\ x.vectors = run[r].vectors
    BY <1>1 DEF RunState, Fresh
  <2>3. run'[r] = x
    BY <2>1, RunTypes
  <2> HIDE DEF x
  <2> QED
    BY <1>1, <2>2, <2>3, GraphGoes
<1>4. CASE OpenMerge(r)
  <2> DEFINE x == [run[r] EXCEPT !.open = TRUE, !.known = {n.entity : n \in nodes}]
  <2>1. /\ x.stage = run[r].stage /\ x.names = run[r].names /\ x.files = run[r].files
        /\ x.toEmbed = run[r].toEmbed /\ x.vectors = run[r].vectors
    BY <1>1 DEF RunState
  <2>2. run'[r] = x
    BY <1>4, RunTypes DEF OpenMerge
  <2> HIDE DEF x
  <2> QED
    BY <1>1, <2>1, <2>2, GraphGoes
<1>5. CASE Merge(r) \/ MergeFails(r)
  <2>1. PICK x \in {Fresh(run[r], {}), AfterFailure(run[r])} : run'[r] = x
    BY <1>5, RunTypes DEF Merge, MergeFails
  <2>2. Same(run[r], x)
    BY <1>1, <2>1, Attempts, Afterwards
  <2>3. /\ x.stage = run[r].stage /\ x.names = run[r].names /\ x.files = run[r].files
        /\ x.toEmbed = run[r].toEmbed /\ x.vectors = run[r].vectors
    BY <2>2 DEF Same
  <2> QED
    BY <1>1, <2>1, <2>3, GraphGoes
<1>6. CASE GraphWritten(r)
  <2> DEFINE x == [run[r] EXCEPT !.stage = "download", !.graphs = {}, !.empty = {}]
  <2>1. /\ x.stage = "download" /\ x.names = run[r].names /\ x.files = run[r].files
        /\ x.toEmbed = run[r].toEmbed /\ x.vectors = run[r].vectors /\ run[r].stage = "graph"
    BY <1>1, <1>6 DEF RunState, GraphWritten, In
  <2>2. run'[r] = x
    BY <1>6, RunTypes DEF GraphWritten
  <2> HIDE DEF x
  <2> QED
    BY <1>1, <2>1, <2>2, GraphGoes
<1> QED
  BY <1>2, <1>3, <1>4, <1>5, <1>6

-----------------------------------------------------------------------------
\* The steps on files.  No chunk moves; a run that has not processed a file may
\* get any, later on only those it had.
LEMMA FilesTidy ==
  ASSUME IInv, NEW r \in Runs, Tidy(r), NEW x, run'[r] = x,
         x.stage \in {"list", "download", "parse", "over", "dead"},
         x.stage = "dead" \/ run[r].stage \in {"idle", "list", "download", "parse"},
         x.toEmbed = {}, x.vectors = {},
         lost'[r] = lost[r], counted'[r] = counted[r],
         stats[r].files_processed = 0 \/ x.names \cup x.files \subseteq run[r].names \cup run[r].files,
         stats'[r].files_processed = stats[r].files_processed,
         stats'[r].vectors_indexed = stats[r].vectors_indexed,
         stats'[r].vectors_failed = stats[r].vectors_failed,
         stats'[r].chunks_created = stats[r].chunks_created,
         RunFiles(r)'
  PROVE  Tidy(r)'
<1>1. InWork(r)' = {}
  BY DEF InWork, In
<1>2. Spent(r)' \subseteq Spent(r)
  BY <1>1 DEF Spent
<1>3. Spent(r)' \cap ChunksFor(run'[r].names \cup run'[r].files) = {}
  <2>1. CASE stats[r].files_processed = 0
    BY <1>2, <2>1 DEF Tidy, RunSpends
  <2>2. CASE x.names \cup x.files \subseteq run[r].names \cup run[r].files
    <3>1. ChunksFor(x.names \cup x.files) \subseteq ChunksFor(run[r].names \cup run[r].files)
      BY <2>2 DEF ChunksFor
    <3>2. Spent(r) \cap ChunksFor(run[r].names \cup run[r].files) = {}
      BY DEF Tidy, RunSpends
    <3> QED
      BY <1>2, <3>1, <3>2
  <2> QED
    BY <2>1, <2>2
<1>4. RunSpends(r)'
  <2>1. stats'[r].files_processed = 0 => Spent(r)' = {}
    BY <1>2 DEF Tidy, RunSpends
  <2> QED
    BY <1>1, <1>3, <2>1 DEF RunSpends, In
<1>5. RunCounts(r)'
  <2>1. x.stage # "dead" => InWork(r) = {} /\ ~In(r, "dead")
    BY DEF Tidy, RunSpends, InWork, In
  <2> QED
    BY <1>1, <2>1 DEF Tidy, RunCounts, In
<1> QED
  BY <1>4, <1>5 DEF Tidy

LEMMA StartTidy ==
  ASSUME IInv, NEW r \in Runs, Tidy(r), NEW entry, NEW own, NEW docs, NEW graphing,
         Start(r, entry, own, docs, graphing)
  PROVE  Tidy(r)'
<1> DEFINE x == [Idle EXCEPT !.stage = "list", !.entry = entry, !.own = own,
                             !.docs = docs, !.graphing = graphing]
<1>1. /\ TypeOK /\ RunConsistent(r) /\ run'[r] = x /\ In(r, "idle")
      /\ UNCHANGED <<stats, exit, lost, counted>>
  BY RunTypes DEF IInv, Start, past
<1>2. /\ x.stage = "list" /\ x.names = {} /\ x.files = {} /\ x.toEmbed = {} /\ x.vectors = {}
  BY DEF Idle
<1> HIDE DEF x
<1>3. RunFiles(r)'
  <2>1. run[r].names = {} /\ run[r].files = {}
    BY <1>1 DEF Tidy, RunFiles, In
  <2>2. stats[r].files_processed + stats[r].files_failed + Cardinality({}) + Cardinality({})
          <= stats[r].files_seen
    BY <2>1 DEF Tidy, RunFiles
  <2>3. exit[r] = "one" => stats[r].files_processed = 0
    BY DEF Tidy, RunFiles
  <2> QED
    BY <1>1, <1>2, <2>2, <2>3 DEF RunFiles, In
<1> QED
  BY <1>1, <1>2, <1>3, FilesTidy DEF In

LEMMA ListTidy ==
  ASSUME IInv, NEW r \in Runs, Tidy(r), List(r)
  PROVE  Tidy(r)'
<1> DEFINE listed == run[r].docs \cap bucket
           x      == [run[r] EXCEPT !.stage = "download", !.names = listed \cap Supported]
           new    == [files_seen |-> Cardinality(listed)]
<1>1. /\ TypeOK /\ run[r] \in RunState /\ RunConsistent(r) /\ run'[r] = x /\ run[r].stage = "list"
      /\ UNCHANGED <<exit, lost, counted>> /\ Add(r, new)
  BY RunTypes DEF IInv, List, past, In
<1>2. /\ x.stage = "download" /\ x.names = listed \cap Supported /\ x.files = run[r].files
      /\ x.toEmbed = run[r].toEmbed /\ x.vectors = run[r].vectors
  BY <1>1 DEF RunState
<1>3. /\ run[r].names = {} /\ run[r].files = {} /\ run[r].toEmbed = {} /\ run[r].vectors = {}
      /\ stats[r].files_processed = 0
      /\ stats[r].files_processed + stats[r].files_failed
           + Cardinality(run[r].names) + Cardinality(run[r].files) <= stats[r].files_seen
  BY <1>1 DEF Tidy, RunFiles, RunSpends, RunConsistent, In
<1>4. /\ IsFiniteSet(listed) /\ Cardinality(listed) \in Nat
      /\ Cardinality(listed \cap Supported) \in Nat
      /\ Cardinality(listed \cap Supported) <= Cardinality(listed)
  <2> DEFINE some == listed \cap Supported
  <2>1. IsFiniteSet(listed) /\ some \subseteq listed
    BY <1>1, IngestPipelineAssumption, FS_Subset DEF RunState
  <2> HIDE DEF listed, some
  <2>2. /\ IsFiniteSet(listed) /\ Cardinality(listed) \in Nat
        /\ Cardinality(some) \in Nat /\ Cardinality(some) <= Cardinality(listed)
    <3>1. /\ Cardinality(listed) \in Nat /\ Cardinality(some) \in Nat
          /\ Cardinality(listed \ some) \in Nat
          /\ Cardinality(listed) = Cardinality(some) + Cardinality(listed \ some)
      BY <2>1, Sizes
    <3> QED
      BY <2>1, <3>1
  <2> QED
    BY <2>2 DEF some
<1>5. \A c \in Counters :
        stats'[r][c] = stats[r][c] + (IF c = "files_seen" THEN Cardinality(listed) ELSE 0)
  <2>1. /\ \A c \in DOMAIN new \cap Counters : new[c] \in Nat
        /\ DOMAIN new = {"files_seen"} /\ new["files_seen"] = Cardinality(listed)
    BY <1>4
  <2> HIDE DEF new
  <2>2. \A c \in Counters : stats'[r][c] = stats[r][c] + (IF c \in DOMAIN new THEN new[c] ELSE 0)
    BY <1>1, <2>1, CountsUp
  <2> QED
    BY <2>1, <2>2
<1>6. /\ stats'[r].files_seen = stats[r].files_seen + Cardinality(listed)
      /\ \A c \in Counters \ {"files_seen"} : stats'[r][c] = stats[r][c]
      /\ stats[r].files_seen \in Nat /\ stats[r].files_processed \in Nat /\ stats[r].files_failed \in Nat
  <2>1. \A c \in Counters : stats[r][c] \in Nat
    BY <1>1, CounterTypes
  <2> QED
    BY <1>5, <2>1 DEF Counters
<1> HIDE DEF x, new, listed
<1>7. RunFiles(r)'
  <2>1. Cardinality({}) = 0
    BY FS_EmptySet
  <2>2. /\ stats'[r].files_processed = stats[r].files_processed
        /\ stats'[r].files_failed = stats[r].files_failed
    BY <1>6 DEF Counters
  <2>3. stats'[r].files_processed + stats'[r].files_failed
          + Cardinality(x.names) + Cardinality(x.files) <= stats'[r].files_seen
    BY <1>2, <1>3, <1>4, <1>6, <2>1, <2>2
  <2> QED
    BY <1>1, <1>2, <1>3, <2>2, <2>3 DEF RunFiles, In
<1>8. /\ stats'[r].files_processed = stats[r].files_processed
      /\ stats'[r].vectors_indexed = stats[r].vectors_indexed
      /\ stats'[r].vectors_failed = stats[r].vectors_failed
      /\ stats'[r].chunks_created = stats[r].chunks_created
  BY <1>6 DEF Counters
<1> QED
  BY <1>1, <1>2, <1>3, <1>7, <1>8, FilesTidy

\* The documents of a batch are fetched, or counted as failed.
LEMMA FetchTidy ==
  ASSUME IInv, NEW r \in Runs, Tidy(r), NEW batch \in SUBSET Documents, Fetch(r, batch),
         \/ In(r, "download") /\ batch \subseteq run[r].names
         \/ In(r, "list")
  PROVE  Tidy(r)'
<1> PICK got \in SUBSET batch :
      /\ Become(r, [run[r] EXCEPT !.stage = IF got = {} THEN "download" ELSE "parse",
                                  !.names = @ \ batch, !.files = got])
      /\ Add(r, [files_seen   |-> IF In(r, "list") THEN Cardinality(batch) ELSE 0,
                 files_failed |-> Cardinality(batch \ got)])
  BY DEF Fetch
<1> DEFINE x == [run[r] EXCEPT !.stage = IF got = {} THEN "download" ELSE "parse",
                               !.names = @ \ batch, !.files = got]
           seen == IF In(r, "list") THEN Cardinality(batch) ELSE 0
           new == [files_seen |-> seen, files_failed |-> Cardinality(batch \ got)]
<1>1. /\ TypeOK /\ run[r] \in RunState /\ RunConsistent(r) /\ run'[r] = x
      /\ run[r].stage \in {"list", "download"}
      /\ UNCHANGED <<exit, lost, counted>> /\ Add(r, new)
  BY RunTypes DEF IInv, Fetch, past, In
<1>2. /\ x.stage = (IF got = {} THEN "download" ELSE "parse")
      /\ x.names = run[r].names \ batch /\ x.files = got
      /\ x.toEmbed = run[r].toEmbed /\ x.vectors = run[r].vectors
  BY <1>1 DEF RunState
<1>3. /\ run[r].files = {} /\ run[r].toEmbed = {} /\ run[r].vectors = {}
      /\ In(r, "list") => run[r].names = {} /\ stats[r].files_processed = 0
      /\ exit[r] = "one" => stats[r].files_processed = 0
      /\ stats[r].files_processed + stats[r].files_failed
           + Cardinality(run[r].names) + Cardinality(run[r].files) <= stats[r].files_seen
  BY <1>1 DEF Tidy, RunFiles, RunSpends, RunConsistent, In
<1>4. /\ Cardinality(batch) \in Nat /\ Cardinality(got) \in Nat /\ Cardinality(batch \ got) \in Nat
      /\ Cardinality(batch) = Cardinality(got) + Cardinality(batch \ got)
  <2>1. IsFiniteSet(batch) /\ got \subseteq batch
    BY IngestPipelineAssumption, FS_Subset
  <2> QED
    BY <2>1, Sizes
<1>5. \A c \in Counters :
        stats'[r][c] = stats[r][c] + (IF c = "files_seen" THEN seen
                                      ELSE IF c = "files_failed" THEN Cardinality(batch \ got) ELSE 0)
  <2>1. /\ \A c \in DOMAIN new \cap Counters : new[c] \in Nat
        /\ DOMAIN new = {"files_seen", "files_failed"}
        /\ new["files_seen"] = seen /\ new["files_failed"] = Cardinality(batch \ got)
    BY <1>4
  <2> HIDE DEF new
  <2>2. \A c \in Counters : stats'[r][c] = stats[r][c] + (IF c \in DOMAIN new THEN new[c] ELSE 0)
    BY <1>1, <2>1, CountsUp
  <2> HIDE DEF seen
  <2> QED
    BY <2>1, <2>2
<1> HIDE DEF x, new
<1>6. /\ stats'[r].files_seen = stats[r].files_seen + seen
      /\ stats'[r].files_failed = stats[r].files_failed + Cardinality(batch \ got)
      /\ stats'[r].files_processed = stats[r].files_processed
      /\ stats'[r].vectors_indexed = stats[r].vectors_indexed
      /\ stats'[r].vectors_failed = stats[r].vectors_failed
      /\ stats'[r].chunks_created = stats[r].chunks_created
      /\ stats[r].files_seen \in Nat /\ stats[r].files_processed \in Nat /\ stats[r].files_failed \in Nat
  <2>1. \A c \in Counters : stats[r][c] \in Nat
    BY <1>1, CounterTypes
  <2> HIDE DEF seen
  <2> QED
    BY <1>5, <2>1 DEF Counters
<1>7. Cardinality({}) = 0
  BY FS_EmptySet
<1>8. stats'[r].files_processed + stats'[r].files_failed
        + Cardinality(x.names) + Cardinality(x.files) <= stats'[r].files_seen
  <2>1. CASE In(r, "list")
    <3>1. seen = Cardinality(batch) /\ x.names = {}
      BY <1>2, <1>3, <2>1
    <3>2. /\ Cardinality(x.names) = 0 /\ Cardinality(x.files) = Cardinality(got)
          /\ Cardinality(run[r].names) = 0 /\ Cardinality(run[r].files) = 0
      BY <1>2, <1>3, <1>7, <2>1, <3>1
    <3> HIDE DEF seen
    <3> QED
      BY <1>3, <1>4, <1>6, <3>1, <3>2
  <2>2. CASE In(r, "download") /\ batch \subseteq run[r].names
    <3>1. seen = 0
      BY <2>2 DEF In
    <3>2. /\ Cardinality(run[r].names) = Cardinality(batch) + Cardinality(run[r].names \ batch)
          /\ Cardinality(run[r].names) \in Nat /\ Cardinality(run[r].names \ batch) \in Nat
      <4>1. IsFiniteSet(run[r].names)
        BY <1>1, IngestPipelineAssumption, FS_Subset DEF RunState
      <4> QED
        BY <2>2, <4>1, Sizes
    <3> HIDE DEF seen
    <3> QED
      BY <1>2, <1>3, <1>4, <1>6, <1>7, <3>1, <3>2
  <2> QED
    BY <2>1, <2>2
<1>9. RunFiles(r)'
  BY <1>1, <1>2, <1>3, <1>6, <1>8 DEF RunFiles, In
<1>10. stats[r].files_processed = 0 \/ x.names \cup x.files \subseteq run[r].names \cup run[r].files
  BY <1>2, <1>3
<1> HIDE DEF seen
<1> QED
  BY <1>1, <1>2, <1>3, <1>6, <1>9, <1>10, FilesTidy

LEMMA DownloadTidy ==
  ASSUME IInv, NEW r \in Runs, Tidy(r), Download(r) \/ _download_specific(r)
  PROVE  Tidy(r)'
<1>1. run[r] \in RunState
  BY RunTypes
<1>2. CASE Download(r)
  <2>1. PICK batch \in NextOf(run[r].names, FileBatch) : Fetch(r, batch)
    BY <1>2 DEF Download
  <2>2. batch \in SUBSET Documents /\ batch \subseteq run[r].names
    BY <1>1 DEF NextOf, RunState
  <2> QED
    BY <1>2, <2>1, <2>2, FetchTidy DEF Download
<1>3. CASE _download_specific(r)
  <2>1. run[r].docs \cap Supported \in SUBSET Documents
    BY <1>1 DEF RunState
  <2> QED
    BY <1>3, <2>1, FetchTidy DEF _download_specific
<1> QED
  BY <1>2, <1>3

\* A run ends before it has anything in work.
LEMMA EndTidy ==
  ASSUME IInv, NEW r \in Runs, Tidy(r), Unreachable(r) \/ Return(r)
  PROVE  Tidy(r)'
<1>1. /\ TypeOK /\ run[r] \in RunState /\ RunConsistent(r)
      /\ UNCHANGED <<stats, lost, counted>>
  BY RunTypes DEF IInv, Unreachable, Return, past
<1>2. run[r].stage \in {"list", "download", "parse"}
  BY <1>1 DEF Unreachable, Return, Connects, In, RunState, Entries
<1>3. PICK x : /\ run'[r] = x /\ x.stage = "over" /\ x.files = {}
               /\ x.names \in {run[r].names, {}}
               /\ x.toEmbed = run[r].toEmbed /\ x.vectors = run[r].vectors
  <2>1. CASE Unreachable(r)
    <3> DEFINE x == [run[r] EXCEPT !.stage = "over", !.files = {}]
    <3>1. run'[r] = x
      BY <2>1, RunTypes DEF Unreachable
    <3>2. /\ x.stage = "over" /\ x.files = {} /\ x.names = run[r].names
          /\ x.toEmbed = run[r].toEmbed /\ x.vectors = run[r].vectors
      BY <1>1 DEF RunState
    <3> HIDE DEF x
    <3> QED
      BY <3>1, <3>2
  <2>2. CASE Return(r)
    <3> DEFINE x == [run[r] EXCEPT !.stage = "over", !.names = {}, !.files = {}]
    <3>1. run'[r] = x
      BY <2>2, RunTypes DEF Return
    <3>2. /\ x.stage = "over" /\ x.files = {} /\ x.names = {}
          /\ x.toEmbed = run[r].toEmbed /\ x.vectors = run[r].vectors
      BY <1>1 DEF RunState
    <3> HIDE DEF x
    <3> QED
      BY <3>1, <3>2
  <2> QED
    BY <2>1, <2>2
<1>4. exit'[r] = "one" => stats[r].files_processed = 0
  <2>1. CASE Unreachable(r)
    <3>1. In(r, "list") \/ (In(r, "parse") /\ run[r].entry = "specific")
      BY <1>1, <2>1 DEF Unreachable, Connects, In, RunState, Entries
    <3> QED
      BY <1>1, <3>1 DEF RunConsistent
  <2>2. CASE Return(r)
    <3>1. exit'[r] = Code(r) /\ stats[r].files_processed \in Nat
      BY <1>1, <2>2, RunTypes DEF Return, TypeOK
    <3> QED
      BY <3>1 DEF Code
  <2> QED
    BY <2>1, <2>2
<1>5. RunFiles(r)'
  <2>1. /\ Cardinality(run[r].names) \in Nat /\ Cardinality(run[r].files) \in Nat
        /\ Cardinality({}) = 0
    BY <1>1, Counts, FS_EmptySet DEF RunState
  <2>2. /\ stats[r].files_seen \in Nat /\ stats[r].files_processed \in Nat
        /\ stats[r].files_failed \in Nat
    BY <1>1, CounterTypes
  <2>3. stats[r].files_processed + stats[r].files_failed
          + Cardinality(run[r].names) + Cardinality(run[r].files) <= stats[r].files_seen
    BY DEF Tidy, RunFiles
  <2>4. Cardinality(x.names) \in Nat /\ Cardinality(x.names) <= Cardinality(run[r].names)
    BY <1>3, <2>1
  <2>5. stats[r].files_processed + stats[r].files_failed
          + Cardinality(x.names) + Cardinality(x.files) <= stats[r].files_seen
    BY <1>3, <2>1, <2>2, <2>3, <2>4
  <2> QED
    BY <1>1, <1>3, <1>4, <2>5 DEF RunFiles, In
<1>6. run[r].toEmbed = {} /\ run[r].vectors = {}
  BY <1>2 DEF Tidy, RunSpends, In
<1> QED
  BY <1>1, <1>2, <1>3, <1>5, <1>6, FilesTidy

\* The batch is chunked: its chunks come into work, or are lost as a whole.
LEMMA ParseTidy ==
  ASSUME IInv, NEW r \in Runs, Tidy(r), Parse(r)
  PROVE  Tidy(r)'
<1> PICK through \in SUBSET run[r].files, good \in SUBSET run[r].files :
      /\ good \subseteq through
      /\ LET chunks == UNION {process_single_file(f, f \in good) : f \in through}
             stop   == chunks = {} \/ signalled[r]
         IN  /\ Become(r, [run[r] EXCEPT
                  !.stage = IF stop THEN "download" ELSE "fork", !.files = {}, !.worked = TRUE,
                  !.toEmbed = IF stop THEN {} ELSE chunks,
                  !.toGraph = IF stop \/ ~run[r].graphing THEN {} ELSE chunks])
             /\ Add(r, [files_processed |-> Cardinality(good),
                        files_failed    |-> Cardinality(through \ good),
                        chunks_created  |-> Cardinality(chunks)])
             /\ Lose(r, IF stop THEN chunks ELSE {})
  BY DEF Parse
<1> DEFINE chunks == UNION {process_single_file(f, f \in good) : f \in through}
           stop   == chunks = {} \/ signalled[r]
           x      == [run[r] EXCEPT
                  !.stage = IF stop THEN "download" ELSE "fork", !.files = {}, !.worked = TRUE,
                  !.toEmbed = IF stop THEN {} ELSE chunks,
                  !.toGraph = IF stop \/ ~run[r].graphing THEN {} ELSE chunks]
           new    == [files_processed |-> Cardinality(good),
                      files_failed    |-> Cardinality(through \ good),
                      chunks_created  |-> Cardinality(chunks)]
<1>1. Become(r, x) /\ Add(r, new) /\ Lose(r, IF stop THEN chunks ELSE {})
  OBVIOUS
<1>2. chunks = ChunksFor(good)
  <2>1. \A f \in through : process_single_file(f, f \in good) = IF f \in good THEN ChunksOf[f] ELSE {}
    BY DEF process_single_file
  <2> QED
    BY <2>1 DEF ChunksFor
<1> HIDE DEF chunks
<1>3. /\ TypeOK /\ run[r] \in RunState /\ RunConsistent(r) /\ run'[r] = x /\ run[r].stage = "parse"
      /\ UNCHANGED <<exit, counted>>
  BY <1>1, RunTypes DEF IInv, Parse, In
<1>4. lost'[r] = lost[r] \cup IF stop THEN chunks ELSE {}
  BY <1>1, <1>3 DEF Lose, TypeOK
<1>5. /\ x.stage = (IF stop THEN "download" ELSE "fork") /\ x.names = run[r].names /\ x.files = {}
      /\ x.toEmbed = (IF stop THEN {} ELSE chunks) /\ x.vectors = run[r].vectors
  BY <1>3 DEF RunState
<1>6. /\ run[r].toEmbed = {} /\ run[r].vectors = {} /\ InWork(r) = {}
      /\ run[r].names \cap run[r].files = {} /\ exit[r] = "none"
      /\ run[r].names \cup run[r].files \subseteq Supported
      /\ Spent(r) \cap ChunksFor(run[r].names \cup run[r].files) = {}
  BY <1>3 DEF Tidy, RunSpends, RunFiles, RunConsistent, InWork, In
<1>7. /\ chunks \subseteq Chunks /\ chunks \cap Spent(r) = {}
      /\ chunks \cap ChunksFor(run[r].names) = {}
      /\ good = {} => chunks = {}
  <2>1. \A d \in good : d \in run[r].files /\ d \in Supported /\ ChunksOf[d] \subseteq Chunks
    BY <1>6, IngestPipelineAssumption
  <2>2. chunks \subseteq ChunksFor(run[r].names \cup run[r].files)
    BY <1>2 DEF ChunksFor
  <2>3. \A d \in good, e \in run[r].names : ChunksOf[d] \cap ChunksOf[e] = {}
    BY <1>6, <2>1, IngestPipelineAssumption
  <2>4. chunks \cap ChunksFor(run[r].names) = {}
    BY <1>2, <2>3 DEF ChunksFor
  <2>5. chunks \subseteq Chunks /\ (good = {} => chunks = {})
    BY <1>2, <2>1 DEF ChunksFor
  <2> QED
    BY <1>6, <2>2, <2>4, <2>5
<1>8. /\ Cardinality(good) \in Nat /\ (Cardinality(good) = 0 <=> good = {})
      /\ Cardinality(through \ good) \in Nat /\ Cardinality(through) \in Nat
      /\ Cardinality(through) = Cardinality(good) + Cardinality(through \ good)
      /\ Cardinality(run[r].files) \in Nat /\ Cardinality(through) <= Cardinality(run[r].files)
  <2>1. IsFiniteSet(run[r].files) /\ IsFiniteSet(through) /\ good \in SUBSET Documents
    BY <1>3, IngestPipelineAssumption, FS_Subset DEF RunState
  <2>2. /\ Cardinality(good) \in Nat /\ Cardinality(through \ good) \in Nat
        /\ Cardinality(through) = Cardinality(good) + Cardinality(through \ good)
        /\ Cardinality(through) \in Nat
    BY <2>1, Sizes
  <2>3. /\ Cardinality(run[r].files) = Cardinality(through) + Cardinality(run[r].files \ through)
        /\ Cardinality(run[r].files) \in Nat /\ Cardinality(run[r].files \ through) \in Nat
    BY <2>1, Sizes
  <2>4. Cardinality(good) = 0 <=> good = {}
    BY <2>1, Counts
  <2> QED
    BY <2>2, <2>3, <2>4
<1>9. Cardinality(chunks) \in Nat
  BY <1>7, ChunkCounts
<1>10. \A c \in Counters :
        stats'[r][c] = stats[r][c] + (IF c = "files_processed" THEN Cardinality(good)
                                      ELSE IF c = "files_failed" THEN Cardinality(through \ good)
                                      ELSE IF c = "chunks_created" THEN Cardinality(chunks) ELSE 0)
  <2>1. /\ \A c \in DOMAIN new \cap Counters : new[c] \in Nat
        /\ DOMAIN new = {"files_processed", "files_failed", "chunks_created"}
        /\ new["files_processed"] = Cardinality(good)
        /\ new["files_failed"] = Cardinality(through \ good)
        /\ new["chunks_created"] = Cardinality(chunks)
    BY <1>8, <1>9
  <2> HIDE DEF new, x
  <2>2. \A c \in Counters : stats'[r][c] = stats[r][c] + (IF c \in DOMAIN new THEN new[c] ELSE 0)
    BY <1>1, <1>3, <2>1, CountsUp
  <2> QED
    BY <2>1, <2>2
<1> HIDE DEF x, new
<1>11. /\ stats'[r].files_seen = stats[r].files_seen
       /\ stats'[r].files_processed = stats[r].files_processed + Cardinality(good)
       /\ stats'[r].files_failed = stats[r].files_failed + Cardinality(through \ good)
       /\ stats'[r].chunks_created = stats[r].chunks_created + Cardinality(chunks)
       /\ stats'[r].vectors_indexed = stats[r].vectors_indexed
       /\ stats'[r].vectors_failed = stats[r].vectors_failed
       /\ stats[r].files_seen \in Nat /\ stats[r].files_processed \in Nat
       /\ stats[r].files_failed \in Nat /\ stats[r].chunks_created \in Nat
       /\ stats[r].vectors_indexed \in Nat /\ stats[r].vectors_failed \in Nat
  <2>1. \A c \in Counters : stats[r][c] \in Nat
    BY <1>3, CounterTypes
  <2> QED
    BY <1>10, <2>1 DEF Counters
<1>12. InWork(r)' = (IF stop THEN {} ELSE chunks)
  BY <1>3, <1>5, <1>6 DEF InWork, In
<1>13. Spent(r)' = Spent(r) \cup chunks
  BY <1>3, <1>4, <1>6, <1>12 DEF Spent
<1>14. RunSpends(r)'
  <2>1. InWork(r)' \cap (lost[r] \cup counted[r])' = {}
    BY <1>3, <1>4, <1>7, <1>12 DEF Spent
  <2>2. Spent(r)' \cap ChunksFor(run[r].names \cup run[r].files)' = {}
    <3>1. ChunksFor(run[r].names) \subseteq ChunksFor(run[r].names \cup run[r].files)
      BY DEF ChunksFor
    <3>2. run'[r].names \cup run'[r].files = run[r].names
      BY <1>3, <1>5
    <3>3. ChunksFor(run[r].names \cup run[r].files)' = ChunksFor(run[r].names)
      BY <3>2 DEF ChunksFor
    <3> QED
      BY <1>6, <1>7, <1>13, <3>1, <3>3
  <2>3. stats'[r].files_processed = 0 => Spent(r)' = {}
    BY <1>7, <1>8, <1>11, <1>13 DEF Tidy, RunSpends
  <2>4. x.stage = "download" => x.toEmbed = {}
    BY <1>5
  <2> QED
    BY <1>3, <1>5, <1>6, <2>1, <2>2, <2>3, <2>4 DEF RunSpends, In
<1>15. RunFiles(r)'
  <2>1. /\ stats[r].files_processed + stats[r].files_failed
             + Cardinality(run[r].names) + Cardinality(run[r].files) <= stats[r].files_seen
        /\ Cardinality(run[r].names) \in Nat /\ Cardinality({}) = 0
    BY <1>3, Counts, FS_EmptySet DEF Tidy, RunFiles, RunState
  <2>2. stats'[r].files_processed + stats'[r].files_failed
          + Cardinality(x.names) + Cardinality(x.files) <= stats'[r].files_seen
    BY <1>5, <1>8, <1>11, <2>1
  <2>3. x.stage \in {"download", "fork"}
    BY <1>5
  <2> QED
    BY <1>3, <1>5, <1>6, <2>2, <2>3 DEF RunFiles, In
<1>16. RunCounts(r)'
  <2>1. /\ stats[r].vectors_indexed = Cardinality(counted[r])
        /\ stats[r].chunks_created = stats[r].vectors_indexed + stats[r].vectors_failed
                                     + Cardinality(lost[r]) + Cardinality({})
    BY <1>3, <1>6 DEF Tidy, RunCounts, In
  <2>2. lost[r] \in SUBSET Chunks /\ lost[r] \cap chunks = {} /\ Cardinality({}) = 0
    BY <1>3, <1>7, FS_EmptySet DEF TypeOK, Spent
  <2>3. Cardinality(lost[r]) \in Nat
    BY <2>2, ChunkCounts
  <2>4. Cardinality(lost'[r]) + Cardinality(InWork(r)') = Cardinality(lost[r]) + Cardinality(chunks)
    <3>1. CASE stop
      <4>1. Cardinality(lost[r] \cup chunks) = Cardinality(lost[r]) + Cardinality(chunks)
        BY <1>7, <2>2, ChunkCounts, Joined
      <4>2. lost'[r] = lost[r] \cup chunks /\ InWork(r)' = {}
        BY <1>4, <1>12, <3>1
      <4> QED
        BY <1>9, <2>2, <2>3, <4>1, <4>2
    <3>2. CASE ~stop
      <4>1. lost'[r] = lost[r] /\ InWork(r)' = chunks
        BY <1>4, <1>12, <3>2
      <4> QED
        BY <4>1
    <3> QED
      BY <3>1, <3>2
  <2>5. Cardinality(lost'[r]) \in Nat /\ Cardinality(InWork(r)') \in Nat
    <3>1. lost'[r] \in SUBSET Chunks /\ InWork(r)' \in SUBSET Chunks
      BY <1>4, <1>7, <1>12, <2>2
    <3> QED
      BY <3>1, ChunkCounts
  <2>6. stats'[r].chunks_created = stats'[r].vectors_indexed + stats'[r].vectors_failed
                                   + Cardinality(lost'[r]) + Cardinality(InWork(r)')
    BY <1>9, <1>11, <2>1, <2>2, <2>3, <2>4, <2>5
  <2> QED
    BY <1>3, <1>11, <2>1, <2>6 DEF RunCounts
<1> QED
  BY <1>14, <1>15, <1>16 DEF Tidy

\* What a run has in work when it dies is not accounted for.
LEMMA DieTidy ==
  ASSUME IInv, NEW dead, Die(dead), NEW r \in Runs, Tidy(r)
  PROVE  Tidy(r)'
<1> DEFINE x == [Idle EXCEPT !.stage = "dead"]
<1>1. UNCHANGED <<stats, exit, lost, counted>> /\ (run'[r] = x \/ run'[r] = run[r])
  BY DEF Die, past
<1>2. /\ x.stage = "dead" /\ x.names = {} /\ x.files = {} /\ x.toEmbed = {} /\ x.vectors = {}
  BY DEF Idle
<1> HIDE DEF x
<1>3. CASE run'[r] = run[r]
  BY <1>1, <1>3, TidyKept
<1>4. CASE run'[r] = x
  <2>1. TypeOK /\ run[r] \in RunState
    BY RunTypes DEF IInv
  <2>2. /\ Cardinality(run[r].names) \in Nat /\ Cardinality(run[r].files) \in Nat
        /\ Cardinality({}) = 0
    BY <2>1, Counts, FS_EmptySet DEF RunState
  <2>3. /\ stats[r].files_seen \in Nat /\ stats[r].files_processed \in Nat
        /\ stats[r].files_failed \in Nat
    BY <2>1, CounterTypes
  <2>4. /\ stats[r].files_processed + stats[r].files_failed
             + Cardinality(run[r].names) + Cardinality(run[r].files) <= stats[r].files_seen
        /\ exit[r] = "one" => stats[r].files_processed = 0
    BY DEF Tidy, RunFiles
  <2>5. stats[r].files_processed + stats[r].files_failed
          + Cardinality(x.names) + Cardinality(x.files) <= stats[r].files_seen
    BY <1>2, <2>2, <2>3, <2>4
  <2>6. RunFiles(r)'
    BY <1>1, <1>2, <1>4, <2>4, <2>5 DEF RunFiles, In
  <2> QED
    BY <1>1, <1>2, <1>4, <2>6, FilesTidy
<1> QED
  BY <1>1, <1>3, <1>4

-----------------------------------------------------------------------------
LEMMA InitTidy == Init => CInv
<1> SUFFICES ASSUME Init PROVE CInv
  OBVIOUS
<1>1. ASSUME NEW r \in Runs
      PROVE  Tidy(r)
  <2>1. /\ run[r] = Idle /\ exit[r] = "none" /\ lost[r] = {} /\ counted[r] = {}
        /\ \A c \in Counters : stats[r][c] = 0
    BY <1>1 DEF Init, None
  <2>2. /\ stats[r].files_seen = 0 /\ stats[r].files_processed = 0 /\ stats[r].files_failed = 0
        /\ stats[r].chunks_created = 0 /\ stats[r].vectors_indexed = 0 /\ stats[r].vectors_failed = 0
    BY <2>1 DEF Counters
  <2>3. /\ Idle.stage = "idle" /\ Idle.names = {} /\ Idle.files = {} /\ Idle.toEmbed = {}
        /\ Idle.vectors = {}
    BY DEF Idle
  <2>4. InWork(r) = {} /\ Spent(r) = {} /\ Cardinality({}) = 0
    BY <2>1, <2>3, FS_EmptySet DEF InWork, Spent, In
  <2>5. RunSpends(r)
    BY <2>1, <2>3, <2>4 DEF RunSpends, In
  <2>6. RunFiles(r)
    BY <2>1, <2>2, <2>3, <2>4 DEF RunFiles, In
  <2>7. RunCounts(r)
    BY <2>1, <2>2, <2>4 DEF RunCounts
  <2> QED
    BY <2>5, <2>6, <2>7 DEF Tidy
<1> QED
  BY <1>1, InitConsistent DEF CInv

LEMMA StepTidy ==
  ASSUME CInv, [Next]_vars
  PROVE  CInv'
<1>1. IInv /\ IInv' /\ TypeOK /\ \A r \in Runs : Tidy(r)
  BY StepConsistent DEF CInv, IInv
<1>2. ASSUME NEW r \in Runs, Stage(r), NEW q \in Runs
      PROVE  Tidy(q)'
  <2>1. CASE q = r
    <3>1. Tidy(r)'
      BY <1>1, <1>2, EndTidy, ListTidy, DownloadTidy, ParseTidy, EmbedTidy, JoinTidy,
         TakeVectorsTidy, UpsertTidy, UpsertFailsTidy, VectorsWrittenTidy, GraphTidy DEF Stage
    <3> QED
      BY <2>1, <3>1
  <2>2. CASE q # r
    BY <1>1, <1>2, <2>2, OwnAffair, TidyKept DEF Only
  <2> QED
    BY <2>1, <2>2
<1>3. ASSUME NEW r \in Runs, NEW own, NEW graphing, NEW docs,
             main(r, own, docs, graphing) \/ ingest_specific_files(r, docs, graphing),
             NEW q \in Runs
      PROVE  Tidy(q)'
  <2>1. PICK entry, mine : Start(r, entry, mine, docs, graphing)
    BY <1>3 DEF main, ingest_specific_files
  <2>2. CASE q = r
    BY <1>1, <2>1, <2>2, StartTidy
  <2>3. CASE q # r
    <3>1. UNCHANGED <<stats, exit, lost, counted>> /\ run'[q] = run[q]
      BY <1>1, <2>1, <2>3 DEF Start, Become, past, TypeOK
    <3> QED
      BY <1>1, <3>1, TidyKept
  <2> QED
    BY <2>2, <2>3
<1>4. ASSUME NEW dead, Die(dead), NEW q \in Runs
      PROVE  Tidy(q)'
  BY <1>1, <1>4, DieTidy
<1>5. ASSUME \/ \E r \in Runs : Signal(r)
             \/ Settle
             \/ \E d \in Documents : Put(d)
             \/ UNCHANGED vars,
             NEW q \in Runs
      PROVE  Tidy(q)'
  <2>1. UNCHANGED <<run, stats, exit, lost, counted>>
    BY <1>5 DEF Signal, Settle, Back, Apply, Discard, Put, vars, locals, past
  <2> QED
    BY <1>1, <2>1, TidyKept
<1>6. \A q \in Runs : Tidy(q)'
  BY <1>2, <1>3, <1>4, <1>5 DEF Next, Work
<1> QED
  BY <1>1, <1>6 DEF CInv

LEMMA CountsInvariant == Spec => []CInv
BY InitTidy, StepTidy, PTL DEF Spec

(* No chunk disappears from the statistics of a run: what was created is   *)
(* indexed, counted as failed, given up, or in work; the files add up; and *)
(* a run that worked and exits with 1 has indexed and given up nothing.    *)
(* stats of main and of ingest_specific_files.                             *)
THEOREM StatisticsAddUp == Spec => []Accounted
<1>1. CInv => Accounted
  <2> SUFFICES ASSUME CInv, NEW r \in Runs, ~In(r, "dead")
               PROVE  /\ stats[r].chunks_created = stats[r].vectors_indexed + stats[r].vectors_failed
                           + Cardinality(lost[r]) + Cardinality(InWork(r))
                      /\ stats[r].files_processed + stats[r].files_failed <= stats[r].files_seen
                      /\ (exit[r] = "one" /\ run[r].worked)
                           => lost[r] = {} /\ stats[r].vectors_indexed = 0
    BY DEF Accounted
  <2>1. IInv /\ RunSpends(r) /\ RunFiles(r) /\ RunCounts(r) /\ run[r] \in RunState /\ TypeOK
    BY RunTypes DEF CInv, Tidy, IInv
  <2>2. stats[r].files_processed + stats[r].files_failed <= stats[r].files_seen
    <3>1. Cardinality(run[r].names) \in Nat /\ Cardinality(run[r].files) \in Nat
      BY <2>1, Counts DEF RunState
    <3>2. /\ stats[r].files_seen \in Nat /\ stats[r].files_processed \in Nat
          /\ stats[r].files_failed \in Nat
      BY <2>1, CounterTypes
    <3>3. stats[r].files_processed + stats[r].files_failed
            + Cardinality(run[r].names) + Cardinality(run[r].files) <= stats[r].files_seen
      BY <2>1 DEF RunFiles
    <3> QED
      BY <3>1, <3>2, <3>3
  <2>3. exit[r] = "one" => lost[r] = {} /\ counted[r] = {}
    BY <2>1 DEF RunFiles, RunSpends, Spent
  <2>4. Cardinality({}) = 0
    BY FS_EmptySet
  <2> QED
    BY <2>1, <2>2, <2>3, <2>4 DEF RunCounts
<1> QED
  BY <1>1, CountsInvariant, PTL

(* vectors_indexed counts each chunk once, whatever was retried, and only  *)
(* chunks that this run handed to Qdrant: each is in the collection, on    *)
(* its way there, or discarded by Qdrant after it had acknowledged it.     *)
(* QdrantIndexer.write, _process_file_batch.                               *)
THEOREM IndexedIsTaken == Spec => []CountedIsTaken
<1>1. CInv => CountedIsTaken
  BY DEF CInv, Tidy, RunCounts, IInv, CountedTaken, CountedIsTaken
<1> QED
  BY <1>1, CountsInvariant, PTL

-----------------------------------------------------------------------------
(* The signal.  What a signalled run does in a step: it begins nothing.     *)
Heeds(r) ==
  /\ run'[r].names \in {run[r].names, {}}
  /\ run'[r].stage = "fork" => run[r].stage = "fork" /\ run'[r].toEmbed = run[r].toEmbed
  /\ run[r].sub = {} => run'[r].sub = {}

LEMMA BeforeBatchHeeds ==
  ASSUME IInv, NEW r \in Runs, signalled[r],
         Unreachable(r) \/ List(r) \/ Download(r) \/ _download_specific(r) \/ Parse(r) \/ Return(r)
  PROVE  Heeds(r)
<1>1. /\ run[r] \in RunState /\ RunConsistent(r)
      /\ \A x : Become(r, x) => run'[r] = x
  BY RunTypes
<1>2. CASE Unreachable(r) \/ Return(r)
  <2> DEFINE x == [run[r] EXCEPT !.stage = "over", !.files = {}]
             y == [run[r] EXCEPT !.stage = "over", !.names = {}, !.files = {}]
  <2>1. run'[r] = x \/ run'[r] = y
    BY <1>1, <1>2 DEF Unreachable, Return
  <2>2. x.stage = "over" /\ x.names = run[r].names /\ x.sub = run[r].sub
    BY <1>1 DEF RunState
  <2>3. y.stage = "over" /\ y.names = {} /\ y.sub = run[r].sub
    BY <1>1 DEF RunState
  <2> HIDE DEF x, y
  <2> QED
    BY <2>1, <2>2, <2>3 DEF Heeds
<1>3. CASE _download_specific(r)
  <2> DEFINE batch == run[r].docs \cap Supported
  <2>1. PICK got \in SUBSET (batch \cap bucket) :
          Become(r, [run[r] EXCEPT !.stage = IF got = {} THEN "download" ELSE "parse",
                                   !.names = @ \ batch, !.files = got])
    BY <1>3 DEF _download_specific, Fetch
  <2> DEFINE x == [run[r] EXCEPT !.stage = IF got = {} THEN "download" ELSE "parse",
                                 !.names = @ \ batch, !.files = got]
  <2>2. run'[r] = x
    BY <1>1, <2>1
  <2>3. x.stage # "fork" /\ x.names = run[r].names \ batch /\ x.sub = run[r].sub
    BY <1>1 DEF RunState
  <2>4. run[r].names = {}
    BY <1>1, <1>3 DEF _download_specific, RunConsistent
  <2> HIDE DEF x
  <2> QED
    BY <2>1, <2>2, <2>3, <2>4 DEF Heeds
<1>4. CASE Parse(r)
  <2>1. PICK some : Become(r, [run[r] EXCEPT !.stage = "download", !.files = {}, !.worked = TRUE,
                                 !.toEmbed = {}, !.toGraph = {}])
    BY <1>4 DEF Parse
  <2> DEFINE x == [run[r] EXCEPT !.stage = "download", !.files = {}, !.worked = TRUE,
                                 !.toEmbed = {}, !.toGraph = {}]
  <2>2. run'[r] = x
    BY <1>1, <2>1
  <2>3. x.stage = "download" /\ x.names = run[r].names /\ x.sub = run[r].sub
    BY <1>1 DEF RunState
  <2> HIDE DEF x
  <2> QED
    BY <2>2, <2>3 DEF Heeds
<1> QED
  BY <1>2, <1>3, <1>4 DEF List, Download

LEMMA BatchHeeds ==
  ASSUME IInv, NEW r \in Runs, signalled[r],
         \/ Embed(r) \/ Extract(r) \/ Join(r)
         \/ TakeVectors(r) \/ Upsert(r) \/ UpsertFails(r) \/ VectorsWritten(r)
         \/ TakeGraph(r) \/ OpenMerge(r) \/ Merge(r) \/ MergeFails(r) \/ GraphWritten(r)
  PROVE  Heeds(r)
<1>1. /\ run[r] \in RunState /\ RunConsistent(r)
      /\ \A x : Become(r, x) => run'[r] = x
  BY RunTypes
<1>2. CASE Join(r) \/ VectorsWritten(r) \/ GraphWritten(r)
  <2> DEFINE x == [run[r] EXCEPT !.stage = "vectors", !.toEmbed = {}, !.toGraph = {}]
             y == [run[r] EXCEPT !.stage = "graph", !.vectors = {}, !.blank = {}]
             z == [run[r] EXCEPT !.stage = "download", !.graphs = {}, !.empty = {}]
  <2>1. run'[r] = x \/ run'[r] = y \/ run'[r] = z
    BY <1>1, <1>2 DEF Join, VectorsWritten, GraphWritten
  <2>2. x.stage # "fork" /\ x.names = run[r].names /\ x.sub = run[r].sub
    BY <1>1 DEF RunState
  <2>3. y.stage # "fork" /\ y.names = run[r].names /\ y.sub = run[r].sub
    BY <1>1 DEF RunState
  <2>4. z.stage # "fork" /\ z.names = run[r].names /\ z.sub = run[r].sub
    BY <1>1 DEF RunState
  <2> HIDE DEF x, y, z
  <2> QED
    BY <2>1, <2>2, <2>3, <2>4 DEF Heeds
<1>3. CASE OpenMerge(r)
  <2> DEFINE x == [run[r] EXCEPT !.open = TRUE, !.known = {n.entity : n \in nodes}]
  <2>1. run'[r] = x /\ run[r].stage = "graph"
    BY <1>1, <1>3 DEF OpenMerge, In
  <2>2. x.stage = run[r].stage /\ x.names = run[r].names /\ x.sub = run[r].sub
    BY <1>1 DEF RunState
  <2> HIDE DEF x
  <2> QED
    BY <2>1, <2>2 DEF Heeds
<1>4. CASE Upsert(r) \/ UpsertFails(r) \/ Merge(r) \/ MergeFails(r)
  <2>1. PICK x \in {Fresh(run[r], {}), AfterFailure(run[r])} : run'[r] = x
    BY <1>1, <1>4 DEF Upsert, UpsertFails, Merge, MergeFails
  <2>2. Same(run[r], x) /\ run[r].sub # {} /\ run[r].stage # "fork"
    BY <1>1, <1>4, <2>1, Attempts, Afterwards
       DEF Upsert, UpsertFails, Merge, MergeFails, In, RunConsistent
  <2> QED
    BY <2>1, <2>2 DEF Heeds, Same
<1> QED
  BY <1>2, <1>3, <1>4 DEF Embed, Extract, TakeVectors, TakeGraph

(* A signal is heeded: from then on a run lists and downloads nothing,      *)
(* embeds nothing it had not begun to, and takes up no sub-batch.           *)
(* signal_handler and the checks of _shutdown_requested.                   *)
THEOREM SignalIsHeeded == Spec => NothingBegunAfterSignal
<1>1. ASSUME IInv, Next, NEW r \in Runs, signalled[r]
      PROVE  Heeds(r)
  <2>1. CASE Stage(r)
    BY <1>1, <2>1, BeforeBatchHeeds, BatchHeeds DEF Stage
  <2>2. CASE run'[r] = run[r]
    BY <2>2 DEF Heeds
  <2>3. ASSUME NEW q \in Runs, Stage(q), q # r
        PROVE  run'[r] = run[r]
    BY <1>1, <2>3, OwnAffair DEF Only, IInv
  <2>4. ASSUME NEW q \in Runs, NEW entry, NEW own, NEW docs, NEW graphing,
               Start(q, entry, own, docs, graphing)
        PROVE  Heeds(r)
    <3> DEFINE x == [Idle EXCEPT !.stage = "list", !.entry = entry, !.own = own,
                                 !.docs = docs, !.graphing = graphing]
    <3>1. run'[r] = x \/ run'[r] = run[r]
      BY <1>1, <2>4 DEF Start, Become, IInv, TypeOK
    <3>2. x.stage = "list" /\ x.names = {} /\ x.sub = {}
      BY DEF Idle
    <3> HIDE DEF x
    <3> QED
      BY <2>2, <3>1, <3>2 DEF Heeds
  <2>5. ASSUME NEW dead, Die(dead)
        PROVE  Heeds(r)
    <3> DEFINE x == [Idle EXCEPT !.stage = "dead"]
    <3>1. run'[r] = x \/ run'[r] = run[r]
      BY <2>5 DEF Die
    <3>2. x.stage = "dead" /\ x.names = {} /\ x.sub = {}
      BY DEF Idle
    <3> HIDE DEF x
    <3> QED
      BY <2>2, <3>1, <3>2 DEF Heeds
  <2>6. ASSUME (\E q \in Runs : Signal(q)) \/ Settle \/ \E d \in Documents : Put(d)
        PROVE  run'[r] = run[r]
    BY <2>6 DEF Signal, Settle, Back, Apply, Discard, Put, locals
  <2> QED
    BY <1>1, <2>1, <2>2, <2>3, <2>4, <2>5, <2>6 DEF Next, Work, main, ingest_specific_files
<1>2. IInv /\ [Next]_vars => [\A r \in Runs : signalled[r] => Heeds(r)]_vars
  BY <1>1
<1>3. (\A r \in Runs : signalled[r] => Heeds(r))
        <=> \A r \in Runs : signalled[r] =>
              /\ run'[r].names \in {run[r].names, {}}
              /\ run'[r].stage = "fork" => run[r].stage = "fork" /\ run'[r].toEmbed = run[r].toEmbed
              /\ run[r].sub = {} => run'[r].sub = {}
  BY DEF Heeds
<1> QED
  BY <1>2, <1>3, InductiveInvariant, PTL DEF Spec, NothingBegunAfterSignal

-----------------------------------------------------------------------------
(* Progress.  What a run has before it, in the order in which it counts:    *)
(* the phase of the run, the documents it has not taken up, the stage of    *)
(* the batch, the chunks before that stage, and the attempts at the         *)
(* sub-batch that is being written.                                         *)
PhaseLeft(x) ==
  CASE x.stage = "idle" -> 3
    [] x.stage = "list" -> 2
    [] x.stage \in {"over", "dead"} -> 0
    [] OTHER -> 1

StageLeft(x) ==
  CASE x.stage = "parse" -> 4
    [] x.stage = "fork" -> 3
    [] x.stage = "vectors" -> 2
    [] x.stage = "graph" -> 1
    [] OTHER -> 0

ChunksLeft(x) ==
  CASE x.stage = "fork" -> Cardinality(x.toEmbed) + Cardinality(x.toGraph)
    [] x.stage = "vectors" -> Cardinality(x.vectors)
    [] x.stage = "graph" -> Cardinality(x.graphs)
    [] OTHER -> 0

Before(x) ==
  << PhaseLeft(x), Cardinality(x.names), StageLeft(x), ChunksLeft(x),
     IF x.sub = {} THEN 0 ELSE 1, Calls - x.call, Tries - x.try, IF x.open THEN 0 ELSE 1 >>

\* The lexicographic order, which is well founded.
Below(m, n) == \E i \in 1..8 : m[i] < n[i] /\ \A k \in 1..(i - 1) : m[k] = n[k]

\* Every step that changes a run leaves it less.
RunsAdvance ==
  [][\A r \in Runs : run'[r] # run[r] => Below(Before(run'[r]), Before(run[r]))]_vars

\* A set of numbers that is not empty has a smallest one.
LEMMA Smallest ==
  ASSUME NEW S, S # {}, S \subseteq Nat
  PROVE  \E m \in S : \A i \in S : m <= i
<1> DEFINE UpTo(i) == {j \in S : j <= i}
           T       == {UpTo(i) : i \in S}
<1>1. T # {} /\ T \subseteq FiniteSubsetsOf(S)
  <2>1. ASSUME NEW i \in S
        PROVE  UpTo(i) \in FiniteSubsetsOf(S)
    <3>1. UpTo(i) \in SUBSET S /\ i \in Nat
      OBVIOUS
    <3>2. UpTo(i) \subseteq 0 .. i
      <4>1. ASSUME NEW j \in UpTo(i)
            PROVE  j \in 0 .. i
        BY <3>1, <4>1
      <4> QED
        BY <4>1
    <3>3. IsFiniteSet(0 .. i)
      BY <3>1, FS_Interval
    <3>4. IsFiniteSet(UpTo(i))
      <4> HIDE DEF UpTo
      <4> QED
        BY <3>2, <3>3, FS_Subset
    <3> QED
      BY <3>1, <3>4 DEF FiniteSubsetsOf
  <2> QED
    BY <2>1
<1>2. PICK A \in T : \A B \in T : <<B, A>> \notin StrictSubsetOrdering(S)
  <2> HIDE DEF T
  <2> QED
    BY <1>1, FS_StrictSubsetOrderingWellFounded, WFMin
<1>3. PICK m \in S : A = UpTo(m)
  OBVIOUS
<1>4. ASSUME NEW i \in S, ~(m <= i)
      PROVE  FALSE
  <2>0. i \in Nat /\ m \in Nat /\ S \subseteq Nat
    OBVIOUS
  <2>1. UpTo(i) \subseteq UpTo(m) /\ m \in UpTo(m) /\ m \notin UpTo(i)
    <3>1. i < m /\ \A j \in S : j \in Nat
      BY <1>4, <2>0
    <3>2. \A j \in S : j <= i => j <= m
      BY <2>0, <3>1
    <3>3. m <= m /\ ~(m <= i)
      BY <2>0, <3>1
    <3> QED
      BY <3>2, <3>3, Zenon
  <2>2. UpTo(i) \in SUBSET S /\ UpTo(m) \in SUBSET S /\ UpTo(i) \in T
    OBVIOUS
  <2> HIDE DEF UpTo, T
  <2> QED
    BY <1>2, <1>3, <2>1, <2>2 DEF StrictSubsetOrdering
<1> QED
  BY <1>4

LEMMA LeastAt ==
  ASSUME NEW T, T \subseteq [1..8 -> Nat], T # {}, NEW i \in 1..8
  PROVE  \E m \in T : \A n \in T : m[i] <= n[i]
<1> DEFINE S == {m[i] : m \in T}
<1>1. S \in SUBSET Nat /\ S # {}
  OBVIOUS
<1>2. PICK s \in S : \A t \in S : s <= t
  <2> HIDE DEF S
  <2> QED
    BY <1>1, Smallest
<1> QED
  BY <1>2

\* A set of tuples has one that none is below.
LEMMA BelowIsWellFounded ==
  ASSUME NEW T, T \subseteq [1..8 -> Nat], T # {}
  PROVE  \E m \in T : \A n \in T : ~Below(n, m)
<1> DEFINE Least(S, i) == {m \in S : \A n \in S : m[i] <= n[i]}
           T1 == Least(T, 1)   T2 == Least(T1, 2)   T3 == Least(T2, 3)   T4 == Least(T3, 4)
           T5 == Least(T4, 5)   T6 == Least(T5, 6)   T7 == Least(T6, 7)   T8 == Least(T7, 8)
<1>1. ASSUME NEW S, S \subseteq [1..8 -> Nat], S # {}, NEW i \in 1..8
      PROVE  Least(S, i) \subseteq S /\ Least(S, i) # {} /\ Least(S, i) \subseteq [1..8 -> Nat]
  BY <1>1, LeastAt
<1>2. /\ T1 \subseteq [1..8 -> Nat] /\ T1 # {} /\ T2 \subseteq [1..8 -> Nat] /\ T2 # {}
      /\ T3 \subseteq [1..8 -> Nat] /\ T3 # {} /\ T4 \subseteq [1..8 -> Nat] /\ T4 # {}
      /\ T5 \subseteq [1..8 -> Nat] /\ T5 # {} /\ T6 \subseteq [1..8 -> Nat] /\ T6 # {}
      /\ T7 \subseteq [1..8 -> Nat] /\ T7 # {} /\ T8 # {}
  <2> HIDE DEF Least
  <2>1. {1, 2, 3, 4, 5, 6, 7, 8} \subseteq 1..8
    OBVIOUS
  <2>2. T1 \subseteq [1..8 -> Nat] /\ T1 # {}
    BY <1>1, <2>1
  <2>3. T2 \subseteq [1..8 -> Nat] /\ T2 # {}
    BY <1>1, <2>1, <2>2
  <2>4. T3 \subseteq [1..8 -> Nat] /\ T3 # {}
    BY <1>1, <2>1, <2>3
  <2>5. T4 \subseteq [1..8 -> Nat] /\ T4 # {}
    BY <1>1, <2>1, <2>4
  <2>6. T5 \subseteq [1..8 -> Nat] /\ T5 # {}
    BY <1>1, <2>1, <2>5
  <2>7. T6 \subseteq [1..8 -> Nat] /\ T6 # {}
    BY <1>1, <2>1, <2>6
  <2>8. T7 \subseteq [1..8 -> Nat] /\ T7 # {}
    BY <1>1, <2>1, <2>7
  <2>9. T8 # {}
    BY <1>1, <2>1, <2>8
  <2> QED
    BY <2>2, <2>3, <2>4, <2>5, <2>6, <2>7, <2>8, <2>9
<1>3. PICK m \in T8 : TRUE
  BY <1>2
<1>4. /\ m \in T /\ m \in T1 /\ m \in T2 /\ m \in T3 /\ m \in T4 /\ m \in T5 /\ m \in T6 /\ m \in T7
  BY <1>3
<1>5. ASSUME NEW n \in T, NEW i \in 1..8, n[i] < m[i], \A k \in 1..(i - 1) : n[k] = m[k]
      PROVE  FALSE
  <2>0. n \in [1..8 -> Nat] /\ m \in [1..8 -> Nat]
    BY <1>4
  <2>1. \A k \in 1..8 : n[k] \in Nat /\ m[k] \in Nat
    BY <2>0
  <2>2. ASSUME NEW S, n \in S, NEW k \in 1..8, m \in Least(S, k), k <= i
        PROVE  k < i /\ n \in Least(S, k)
    <3>1. m[k] <= n[k] /\ \A p \in S : m[k] <= p[k]
      BY <2>2
    <3>2. k # i
      BY <1>5, <2>1, <3>1
    <3>3. n[k] = m[k] /\ k < i
      BY <1>5, <2>2, <3>2
    <3> QED
      BY <2>2, <3>1, <3>3
  <2> HIDE DEF Least
  <2>3. 1 < i /\ n \in T1
    BY <1>4, <2>2
  <2>4. 2 < i /\ n \in T2
    BY <1>4, <2>2, <2>3
  <2>5. 3 < i /\ n \in T3
    BY <1>4, <2>2, <2>4
  <2>6. 4 < i /\ n \in T4
    BY <1>4, <2>2, <2>5
  <2>7. 5 < i /\ n \in T5
    BY <1>4, <2>2, <2>6
  <2>8. 6 < i /\ n \in T6
    BY <1>4, <2>2, <2>7
  <2>9. 7 < i /\ n \in T7
    BY <1>4, <2>2, <2>8
  <2>10. 8 < i
    BY <1>3, <2>2, <2>9
  <2> QED
    BY <2>10
<1> QED
  BY <1>4, <1>5 DEF Below

LEMMA BeforeTypes ==
  ASSUME NEW x \in RunState
  PROVE  Before(x) \in [1..8 -> Nat]
<1>1. /\ Cardinality(x.names) \in Nat /\ Cardinality(x.toEmbed) \in Nat
      /\ Cardinality(x.toGraph) \in Nat /\ Cardinality(x.vectors) \in Nat
      /\ Cardinality(x.graphs) \in Nat
  BY Counts DEF RunState
<1>2. Calls - x.call \in Nat /\ Tries - x.try \in Nat
  <2>1. x.call \in 1..Calls /\ x.try \in 1..Tries /\ Calls \in Nat /\ Tries \in Nat
    BY IngestPipelineAssumption DEF RunState
  <2> QED
    BY <2>1
<1>3. PhaseLeft(x) \in Nat /\ StageLeft(x) \in Nat
  BY DEF PhaseLeft, StageLeft
<1>4. ChunksLeft(x) \in Nat
  BY <1>1 DEF ChunksLeft
<1> DEFINE m == Before(x)
<1>5. /\ m = [i \in 1..8 |-> m[i]]
      /\ m[1] \in Nat /\ m[2] \in Nat /\ m[3] \in Nat /\ m[4] \in Nat
      /\ m[5] \in Nat /\ m[6] \in Nat /\ m[7] \in Nat /\ m[8] \in Nat
  BY <1>1, <1>2, <1>3, <1>4 DEF Before
<1> HIDE DEF m
<1>6. \A i \in 1..8 : m[i] \in Nat
  <2>1. \A i \in 1..8 : i = 1 \/ i = 2 \/ i = 3 \/ i = 4 \/ i = 5 \/ i = 6 \/ i = 7 \/ i = 8
    OBVIOUS
  <2> QED
    BY <1>5, <2>1
<1> QED
  BY <1>5, <1>6 DEF m

\* The ways to have less left, the first that differs first.
LEMMA Less ==
  ASSUME NEW x, NEW y
  PROVE  /\ PhaseLeft(y) < PhaseLeft(x) => Below(Before(y), Before(x))
         /\ PhaseLeft(y) = PhaseLeft(x) /\ Cardinality(y.names) < Cardinality(x.names)
              => Below(Before(y), Before(x))
         /\ PhaseLeft(y) = PhaseLeft(x) /\ y.names = x.names /\ StageLeft(y) < StageLeft(x)
              => Below(Before(y), Before(x))
         /\ y.stage = x.stage /\ y.names = x.names /\ ChunksLeft(y) < ChunksLeft(x)
              => Below(Before(y), Before(x))
         /\ y.stage = x.stage /\ y.names = x.names /\ ChunksLeft(y) = ChunksLeft(x)
            /\ x.sub # {}
            /\ \/ y.sub = {}
               \/ y.sub = x.sub /\ Calls - y.call < Calls - x.call
               \/ y.sub = x.sub /\ y.call = x.call /\ Tries - y.try < Tries - x.try
               \/ y.sub = x.sub /\ y.call = x.call /\ y.try = x.try /\ y.open /\ ~x.open
              => Below(Before(y), Before(x))
<1> DEFINE m == Before(y)   n == Before(x)
<1>1. /\ m[1] = PhaseLeft(y) /\ m[2] = Cardinality(y.names) /\ m[3] = StageLeft(y)
      /\ m[4] = ChunksLeft(y) /\ m[5] = (IF y.sub = {} THEN 0 ELSE 1)
      /\ m[6] = Calls - y.call /\ m[7] = Tries - y.try /\ m[8] = IF y.open THEN 0 ELSE 1
  BY DEF Before
<1>2. /\ n[1] = PhaseLeft(x) /\ n[2] = Cardinality(x.names) /\ n[3] = StageLeft(x)
      /\ n[4] = ChunksLeft(x) /\ n[5] = (IF x.sub = {} THEN 0 ELSE 1)
      /\ n[6] = Calls - x.call /\ n[7] = Tries - x.try /\ n[8] = IF x.open THEN 0 ELSE 1
  BY DEF Before
<1>3. y.stage = x.stage => PhaseLeft(y) = PhaseLeft(x) /\ StageLeft(y) = StageLeft(x)
  BY DEF PhaseLeft, StageLeft
<1> HIDE DEF m, n
<1>4. ASSUME NEW i \in 1..8, m[i] < n[i], \A k \in 1..(i - 1) : m[k] = n[k]
      PROVE  Below(m, n)
  BY <1>4 DEF Below
<1>5. /\ m[1] < n[1] => Below(m, n)
      /\ m[1] = n[1] /\ m[2] < n[2] => Below(m, n)
      /\ m[1] = n[1] /\ m[2] = n[2] /\ m[3] < n[3] => Below(m, n)
      /\ m[1] = n[1] /\ m[2] = n[2] /\ m[3] = n[3] /\ m[4] < n[4] => Below(m, n)
  <2>1. m[1] < n[1] => Below(m, n)
    BY <1>4
  <2>2. m[1] = n[1] /\ m[2] < n[2] => Below(m, n)
    <3>1. \A k \in 1..(2 - 1) : k = 1
      OBVIOUS
    <3> QED
      BY <1>4, <3>1
  <2>3. m[1] = n[1] /\ m[2] = n[2] /\ m[3] < n[3] => Below(m, n)
    <3>1. \A k \in 1..(3 - 1) : k \in {1, 2}
      OBVIOUS
    <3> QED
      BY <1>4, <3>1
  <2>4. m[1] = n[1] /\ m[2] = n[2] /\ m[3] = n[3] /\ m[4] < n[4] => Below(m, n)
    <3>1. \A k \in 1..(4 - 1) : k \in {1, 2, 3}
      OBVIOUS
    <3> QED
      BY <1>4, <3>1
  <2> QED
    BY <2>1, <2>2, <2>3, <2>4
<1>6. ASSUME m[1] = n[1], m[2] = n[2], m[3] = n[3], m[4] = n[4]
      PROVE  /\ m[5] < n[5] => Below(m, n)
             /\ m[5] = n[5] /\ m[6] < n[6] => Below(m, n)
             /\ m[5] = n[5] /\ m[6] = n[6] /\ m[7] < n[7] => Below(m, n)
             /\ m[5] = n[5] /\ m[6] = n[6] /\ m[7] = n[7] /\ m[8] < n[8] => Below(m, n)
  <2>1. m[5] < n[5] => Below(m, n)
    <3>1. \A k \in 1..(5 - 1) : k \in {1, 2, 3, 4}
      OBVIOUS
    <3> QED
      BY <1>4, <1>6, <3>1
  <2>2. m[5] = n[5] /\ m[6] < n[6] => Below(m, n)
    <3>1. \A k \in 1..(6 - 1) : k \in {1, 2, 3, 4, 5}
      OBVIOUS
    <3> QED
      BY <1>4, <1>6, <3>1
  <2>3. m[5] = n[5] /\ m[6] = n[6] /\ m[7] < n[7] => Below(m, n)
    <3>1. \A k \in 1..(7 - 1) : k \in {1, 2, 3, 4, 5, 6}
      OBVIOUS
    <3> QED
      BY <1>4, <1>6, <3>1
  <2>4. m[5] = n[5] /\ m[6] = n[6] /\ m[7] = n[7] /\ m[8] < n[8] => Below(m, n)
    <3>1. \A k \in 1..(8 - 1) : k \in {1, 2, 3, 4, 5, 6, 7}
      OBVIOUS
    <3> QED
      BY <1>4, <1>6, <3>1
  <2> QED
    BY <2>1, <2>2, <2>3, <2>4
<1>7. /\ PhaseLeft(y) < PhaseLeft(x) => Below(m, n)
      /\ PhaseLeft(y) = PhaseLeft(x) /\ Cardinality(y.names) < Cardinality(x.names) => Below(m, n)
      /\ PhaseLeft(y) = PhaseLeft(x) /\ y.names = x.names /\ StageLeft(y) < StageLeft(x)
           => Below(m, n)
      /\ y.stage = x.stage /\ y.names = x.names /\ ChunksLeft(y) < ChunksLeft(x) => Below(m, n)
  BY <1>1, <1>2, <1>3, <1>5
<1>8. ASSUME y.stage = x.stage, y.names = x.names, ChunksLeft(y) = ChunksLeft(x), x.sub # {},
             \/ y.sub = {}
             \/ y.sub = x.sub /\ Calls - y.call < Calls - x.call
             \/ y.sub = x.sub /\ y.call = x.call /\ Tries - y.try < Tries - x.try
             \/ y.sub = x.sub /\ y.call = x.call /\ y.try = x.try /\ y.open /\ ~x.open
      PROVE  Below(m, n)
  <2>1. m[1] = n[1] /\ m[2] = n[2] /\ m[3] = n[3] /\ m[4] = n[4] /\ n[5] = 1
    BY <1>1, <1>2, <1>3, <1>8
  <2>2. CASE y.sub = {}
    <3>1. m[5] < n[5]
      BY <1>1, <2>1, <2>2
    <3> QED
      BY <1>6, <2>1, <3>1
  <2>3. CASE y.sub = x.sub /\ Calls - y.call < Calls - x.call
    <3>1. m[5] = n[5] /\ m[6] < n[6]
      BY <1>1, <1>2, <2>3
    <3> QED
      BY <1>6, <2>1, <3>1
  <2>4. CASE y.sub = x.sub /\ y.call = x.call /\ Tries - y.try < Tries - x.try
    <3>1. m[5] = n[5] /\ m[6] = n[6] /\ m[7] < n[7]
      BY <1>1, <1>2, <2>4
    <3> QED
      BY <1>6, <2>1, <3>1
  <2>5. CASE y.sub = x.sub /\ y.call = x.call /\ y.try = x.try /\ y.open /\ ~x.open
    <3>1. m[5] = n[5] /\ m[6] = n[6] /\ m[7] = n[7] /\ m[8] < n[8]
      BY <1>1, <1>2, <2>5
    <3> QED
      BY <1>6, <2>1, <3>1
  <2> QED
    BY <1>8, <2>2, <2>3, <2>4, <2>5
<1> QED
  BY <1>7, <1>8 DEF m, n

\* What is taken away counts.
LEMMA Shrinks ==
  ASSUME NEW S, NEW T, IsFiniteSet(S), T \subseteq S, T # {}
  PROVE  /\ Cardinality(S) \in Nat /\ Cardinality(S \ T) \in Nat
         /\ Cardinality(S \ T) < Cardinality(S)
<1>1. /\ Cardinality(S) \in Nat /\ Cardinality(T) \in Nat /\ Cardinality(S \ T) \in Nat
      /\ Cardinality(S) = Cardinality(T) + Cardinality(S \ T)
  BY Sizes
<1>2. Cardinality(T) # 0
  BY FS_EmptySet, FS_Subset
<1> QED
  BY <1>1, <1>2

LEMMA FilesAdvance ==
  ASSUME IInv, NEW r \in Runs,
         Unreachable(r) \/ List(r) \/ Download(r) \/ _download_specific(r) \/ Parse(r) \/ Return(r)
  PROVE  Below(Before(run'[r]), Before(run[r]))
<1>1. /\ run[r] \in RunState /\ RunConsistent(r)
      /\ \A x : Become(r, x) => run'[r] = x
  BY RunTypes
<1>2. CASE Unreachable(r) \/ Return(r)
  <2> DEFINE x == [run[r] EXCEPT !.stage = "over", !.files = {}]
             y == [run[r] EXCEPT !.stage = "over", !.names = {}, !.files = {}]
  <2>1. run'[r] = x \/ run'[r] = y
    BY <1>1, <1>2 DEF Unreachable, Return
  <2>2. x.stage = "over" /\ y.stage = "over"
    BY <1>1 DEF RunState
  <2>3. run[r].stage \in {"list", "download", "parse"}
    BY <1>1, <1>2 DEF Unreachable, Return, Connects, In, RunState, Entries
  <2> HIDE DEF x, y
  <2>4. PhaseLeft(run'[r]) < PhaseLeft(run[r])
    BY <2>1, <2>2, <2>3 DEF PhaseLeft
  <2> QED
    BY <2>4, Less
<1>3. CASE List(r)
  <2> DEFINE x == [run[r] EXCEPT !.stage = "download", !.names = run[r].docs \cap bucket \cap Supported]
  <2>1. run'[r] = x /\ run[r].stage = "list"
    BY <1>1, <1>3 DEF List, In
  <2>2. x.stage = "download"
    BY <1>1 DEF RunState
  <2> HIDE DEF x
  <2>3. PhaseLeft(run'[r]) < PhaseLeft(run[r])
    BY <2>1, <2>2 DEF PhaseLeft
  <2> QED
    BY <2>3, Less
<1>4. CASE Download(r) \/ _download_specific(r)
  <2>1. PICK batch : /\ Fetch(r, batch)
                     /\ \/ In(r, "list")
                        \/ In(r, "download") /\ run[r].names # {} /\ batch \in NextOf(run[r].names, FileBatch)
    BY <1>4 DEF Download, _download_specific
  <2>2. PICK got \in SUBSET (batch \cap bucket) :
          Become(r, [run[r] EXCEPT !.stage = IF got = {} THEN "download" ELSE "parse",
                                   !.names = @ \ batch, !.files = got])
    BY <2>1 DEF Fetch
  <2> DEFINE x == [run[r] EXCEPT !.stage = IF got = {} THEN "download" ELSE "parse",
                                 !.names = @ \ batch, !.files = got]
  <2>3. run'[r] = x
    BY <1>1, <2>2
  <2>4. x.stage \in {"download", "parse"} /\ x.names = run[r].names \ batch
    BY <1>1 DEF RunState
  <2> HIDE DEF x
  <2>5. PhaseLeft(x) = 1
    BY <2>4 DEF PhaseLeft
  <2>6. CASE In(r, "list")
    <3>1. PhaseLeft(x) < PhaseLeft(run[r])
      BY <2>5, <2>6 DEF PhaseLeft, In
    <3> QED
      BY <2>3, <3>1, Less
  <2>7. CASE In(r, "download") /\ run[r].names # {} /\ batch \in NextOf(run[r].names, FileBatch)
    <3>1. IsFiniteSet(run[r].names)
      BY <1>1, IngestPipelineAssumption, FS_Subset DEF RunState
    <3>2. batch \subseteq run[r].names /\ batch # {}
      <4>1. Cardinality({}) = 0 /\ FileBatch # 0
        BY IngestPipelineAssumption, FS_EmptySet
      <4> QED
        BY <2>7, <4>1 DEF NextOf
    <3>3. Cardinality(x.names) < Cardinality(run[r].names)
      BY <2>4, <3>1, <3>2, Shrinks
    <3>4. PhaseLeft(run[r]) = 1
      BY <2>7 DEF PhaseLeft, In
    <3> QED
      BY <2>3, <2>5, <3>3, <3>4, Less
  <2> QED
    BY <2>1, <2>6, <2>7
<1>5. CASE Parse(r)
  <2>1. PICK through \in SUBSET run[r].files, good \in SUBSET run[r].files :
          LET chunks == UNION {process_single_file(f, f \in good) : f \in through}
              stop   == chunks = {} \/ signalled[r]
          IN  Become(r, [run[r] EXCEPT
                !.stage = IF stop THEN "download" ELSE "fork", !.files = {}, !.worked = TRUE,
                !.toEmbed = IF stop THEN {} ELSE chunks,
                !.toGraph = IF stop \/ ~run[r].graphing THEN {} ELSE chunks])
    BY <1>5 DEF Parse
  <2> DEFINE chunks == UNION {process_single_file(f, f \in good) : f \in through}
             stop   == chunks = {} \/ signalled[r]
             x      == [run[r] EXCEPT
                !.stage = IF stop THEN "download" ELSE "fork", !.files = {}, !.worked = TRUE,
                !.toEmbed = IF stop THEN {} ELSE chunks,
                !.toGraph = IF stop \/ ~run[r].graphing THEN {} ELSE chunks]
  <2> HIDE DEF chunks
  <2>2. run'[r] = x
    BY <1>1, <2>1 DEF chunks
  <2>3. x.stage \in {"download", "fork"} /\ x.names = run[r].names
    BY <1>1 DEF RunState
  <2>4. run[r].stage = "parse"
    BY <1>5 DEF Parse, In
  <2> HIDE DEF x
  <2>5. PhaseLeft(x) = PhaseLeft(run[r]) /\ StageLeft(x) < StageLeft(run[r])
    BY <2>3, <2>4 DEF PhaseLeft, StageLeft
  <2> QED
    BY <2>2, <2>3, <2>5, Less
<1> QED
  BY <1>2, <1>3, <1>4, <1>5

\* From a stage of a batch to the next.
LEMMA StagesAdvance ==
  ASSUME IInv, NEW r \in Runs, Join(r) \/ VectorsWritten(r) \/ GraphWritten(r)
  PROVE  Below(Before(run'[r]), Before(run[r]))
<1>1. /\ run[r] \in RunState /\ \A x : Become(r, x) => run'[r] = x
  BY RunTypes
<1> DEFINE x == [run[r] EXCEPT !.stage = "vectors", !.toEmbed = {}, !.toGraph = {}]
           y == [run[r] EXCEPT !.stage = "graph", !.vectors = {}, !.blank = {}]
           z == [run[r] EXCEPT !.stage = "download", !.graphs = {}, !.empty = {}]
<1>2. \/ run'[r] = x /\ run[r].stage = "fork"
      \/ run'[r] = y /\ run[r].stage = "vectors"
      \/ run'[r] = z /\ run[r].stage = "graph"
  BY <1>1 DEF Join, VectorsWritten, GraphWritten, In
<1>3. x.stage = "vectors" /\ x.names = run[r].names
  BY <1>1 DEF RunState
<1>4. y.stage = "graph" /\ y.names = run[r].names
  BY <1>1 DEF RunState
<1>5. z.stage = "download" /\ z.names = run[r].names
  BY <1>1 DEF RunState
<1> HIDE DEF x, y, z
<1>6. /\ run'[r].names = run[r].names /\ PhaseLeft(run'[r]) = PhaseLeft(run[r])
      /\ StageLeft(run'[r]) < StageLeft(run[r])
  BY <1>2, <1>3, <1>4, <1>5 DEF PhaseLeft, StageLeft
<1> QED
  BY <1>6, Less

\* A batch of the forks, or a sub-batch, is taken.
LEMMA ChunksAdvance ==
  ASSUME IInv, NEW r \in Runs, Embed(r) \/ Extract(r) \/ TakeVectors(r) \/ TakeGraph(r)
  PROVE  Below(Before(run'[r]), Before(run[r]))
<1>1. /\ run[r] \in RunState /\ \A x : Become(r, x) => run'[r] = x
  BY RunTypes
<1>2. /\ IsFiniteSet(run[r].toEmbed) /\ IsFiniteSet(run[r].toGraph)
      /\ IsFiniteSet(run[r].vectors) /\ IsFiniteSet(run[r].graphs)
      /\ Cardinality(run[r].toEmbed) \in Nat /\ Cardinality(run[r].toGraph) \in Nat
  BY <1>1, ChunkCounts DEF RunState
<1>3. CASE Embed(r)
  <2>1. PICK batch, good : /\ batch \subseteq run[r].toEmbed /\ batch # {}
          /\ Become(r, IF good = {} THEN [run[r] EXCEPT !.toEmbed = @ \ batch]
                   ELSE [run[r] EXCEPT !.toEmbed = @ \ batch,
                           !.vectors = @ \cup batch, !.blank = @ \cup (batch \ good)])
    BY <1>3 DEF Embed, NextOf
  <2> DEFINE x == IF good = {} THEN [run[r] EXCEPT !.toEmbed = @ \ batch]
                   ELSE [run[r] EXCEPT !.toEmbed = @ \ batch,
                           !.vectors = @ \cup batch, !.blank = @ \cup (batch \ good)]
  <2>2. run'[r] = x
    BY <1>1, <2>1
  <2>3. /\ x.stage = run[r].stage /\ x.names = run[r].names
        /\ x.toEmbed = run[r].toEmbed \ batch /\ x.toGraph = run[r].toGraph
    BY <1>1 DEF RunState
  <2>4. run[r].stage = "fork"
    BY <1>3 DEF Embed, In
  <2> HIDE DEF x
  <2>5. /\ Cardinality(x.toEmbed) < Cardinality(run[r].toEmbed) /\ Cardinality(x.toEmbed) \in Nat
    BY <1>2, <2>1, <2>3, Shrinks
  <2>6. ChunksLeft(x) < ChunksLeft(run[r])
    BY <1>2, <2>3, <2>4, <2>5 DEF ChunksLeft
  <2> QED
    BY <2>2, <2>3, <2>6, Less
<1>4. CASE Extract(r)
  <2>1. PICK batch, good : /\ batch \subseteq run[r].toGraph /\ batch # {}
          /\ Become(r, [run[r] EXCEPT !.toGraph = @ \ batch,
                          !.graphs = @ \cup batch, !.empty = @ \cup (batch \ good)])
    BY <1>4 DEF Extract, NextOf
  <2> DEFINE x == [run[r] EXCEPT !.toGraph = @ \ batch,
                          !.graphs = @ \cup batch, !.empty = @ \cup (batch \ good)]
  <2>2. run'[r] = x
    BY <1>1, <2>1
  <2>3. /\ x.stage = run[r].stage /\ x.names = run[r].names
        /\ x.toGraph = run[r].toGraph \ batch /\ x.toEmbed = run[r].toEmbed
    BY <1>1 DEF RunState
  <2>4. run[r].stage = "fork"
    BY <1>4 DEF Extract, In
  <2> HIDE DEF x
  <2>5. /\ Cardinality(x.toGraph) < Cardinality(run[r].toGraph) /\ Cardinality(x.toGraph) \in Nat
    BY <1>2, <2>1, <2>3, Shrinks
  <2>6. ChunksLeft(x) < ChunksLeft(run[r])
    BY <1>2, <2>3, <2>4, <2>5 DEF ChunksLeft
  <2> QED
    BY <2>2, <2>3, <2>6, Less
<1>5. CASE TakeVectors(r)
  <2>1. PICK sub, some : /\ sub \subseteq run[r].vectors /\ sub # {}
          /\ Become(r, Fresh([run[r] EXCEPT !.vectors = @ \ sub], some))
    BY <1>5 DEF TakeVectors, NextOf
  <2> DEFINE x == Fresh([run[r] EXCEPT !.vectors = @ \ sub], some)
  <2>2. run'[r] = x
    BY <1>1, <2>1
  <2>3. x.stage = run[r].stage /\ x.names = run[r].names /\ x.vectors = run[r].vectors \ sub
    BY <1>1 DEF RunState, Fresh
  <2>4. run[r].stage = "vectors"
    BY <1>5 DEF TakeVectors, In
  <2> HIDE DEF x
  <2>5. Cardinality(x.vectors) < Cardinality(run[r].vectors)
    BY <1>2, <2>1, <2>3, Shrinks
  <2>6. ChunksLeft(x) < ChunksLeft(run[r])
    BY <2>3, <2>4, <2>5 DEF ChunksLeft
  <2> QED
    BY <2>2, <2>3, <2>6, Less
<1>6. CASE TakeGraph(r)
  <2>1. PICK sub, some : /\ sub \subseteq run[r].graphs /\ sub # {}
          /\ Become(r, Fresh([run[r] EXCEPT !.graphs = @ \ sub], some))
    BY <1>6 DEF TakeGraph, NextOf
  <2> DEFINE x == Fresh([run[r] EXCEPT !.graphs = @ \ sub], some)
  <2>2. run'[r] = x
    BY <1>1, <2>1
  <2>3. x.stage = run[r].stage /\ x.names = run[r].names /\ x.graphs = run[r].graphs \ sub
    BY <1>1 DEF RunState, Fresh
  <2>4. run[r].stage = "graph"
    BY <1>6 DEF TakeGraph, In
  <2> HIDE DEF x
  <2>5. Cardinality(x.graphs) < Cardinality(run[r].graphs)
    BY <1>2, <2>1, <2>3, Shrinks
  <2>6. ChunksLeft(x) < ChunksLeft(run[r])
    BY <2>3, <2>4, <2>5 DEF ChunksLeft
  <2> QED
    BY <2>2, <2>3, <2>6, Less
<1> QED
  BY <1>3, <1>4, <1>5, <1>6

\* An attempt is made, and succeeds or fails.
LEMMA AttemptsAdvance ==
  ASSUME IInv, NEW r \in Runs, Upsert(r) \/ UpsertFails(r) \/ OpenMerge(r) \/ Merge(r) \/ MergeFails(r)
  PROVE  Below(Before(run'[r]), Before(run[r]))
<1> DEFINE x == run[r]
<1>1. /\ x \in RunState /\ RunConsistent(r) /\ \A y : Become(r, y) => run'[r] = y
  BY RunTypes
<1>2. x.sub # {}
  BY <1>1 DEF Upsert, UpsertFails, OpenMerge, Merge, MergeFails, RunConsistent
<1>3. CASE OpenMerge(r)
  <2> DEFINE y == [run[r] EXCEPT !.open = TRUE, !.known = {n.entity : n \in nodes}]
  <2>1. run'[r] = y /\ ~x.open
    BY <1>1, <1>3 DEF OpenMerge
  <2>2. /\ y.stage = x.stage /\ y.names = x.names /\ y.sub = x.sub /\ y.call = x.call
        /\ y.try = x.try /\ y.open /\ y.toEmbed = x.toEmbed /\ y.toGraph = x.toGraph
        /\ y.vectors = x.vectors /\ y.graphs = x.graphs
    BY <1>1 DEF RunState
  <2> HIDE DEF x, y
  <2>3. ChunksLeft(y) = ChunksLeft(x)
    BY <2>2 DEF ChunksLeft
  <2>4. Below(Before(y), Before(x))
    BY <1>2, <2>1, <2>2, <2>3, Less
  <2> QED
    BY <2>1, <2>4 DEF x
<1>4. CASE Upsert(r) \/ UpsertFails(r) \/ Merge(r) \/ MergeFails(r)
  <2>1. PICK y \in {Fresh(x, {}), AfterFailure(x)} : run'[r] = y
    BY <1>1, <1>4 DEF Upsert, UpsertFails, Merge, MergeFails
  <2>2. Same(x, y)
    BY <1>1, <2>1, Attempts, Afterwards
  <2> HIDE DEF x
  <2>3. /\ y.stage = x.stage /\ y.names = x.names /\ ChunksLeft(y) = ChunksLeft(x)
    BY <2>2 DEF Same, ChunksLeft
  <2>4. /\ x.call \in 1..Calls /\ x.try \in 1..Tries /\ Calls \in Nat /\ Tries \in Nat
    BY <1>1, IngestPipelineAssumption DEF RunState
  <2>5. \/ y.sub = {}
        \/ y.sub = x.sub /\ y.call = x.call + 1
        \/ y.sub = x.sub /\ y.call = x.call /\ y.try = x.try + 1
    <3>1. Fresh(x, {}).sub = {}
      BY <1>1 DEF Fresh, RunState
    <3>2. CallAgain(x).sub = x.sub /\ CallAgain(x).call = x.call + 1
      BY <1>1 DEF CallAgain, Fresh, RunState
    <3>3. Retry(x).sub = x.sub /\ Retry(x).call = x.call /\ Retry(x).try = x.try + 1
      BY <1>1 DEF Retry, RunState
    <3> QED
      BY <2>1, <3>1, <3>2, <3>3 DEF AfterFailure
  <2>6. \/ y.sub = {}
        \/ y.sub = x.sub /\ Calls - y.call < Calls - x.call
        \/ y.sub = x.sub /\ y.call = x.call /\ Tries - y.try < Tries - x.try
    BY <2>4, <2>5
  <2>7. Below(Before(y), Before(x))
    BY <1>2, <2>3, <2>6, Less
  <2> QED
    BY <2>1, <2>7 DEF x
<1> QED
  BY <1>3, <1>4

(* A run takes only finitely many steps, however its calls fail and are    *)
(* retried: each of them leaves it less, in an order in which every set of *)
(* measures has a least one.  The loops of main, _iter_file_batches and    *)
(* _process_file_batch, and the retries of the indexers.                   *)
THEOREM RunsOnlyAdvance ==
  /\ \A T \in SUBSET [1..8 -> Nat] : T # {} => \E m \in T : \A n \in T : ~Below(n, m)
  /\ Spec => RunsAdvance /\ []\A r \in Runs : Before(run[r]) \in [1..8 -> Nat]
<1>1. ASSUME IInv, Next, NEW r \in Runs, run'[r] # run[r]
      PROVE  Below(Before(run'[r]), Before(run[r]))
  <2>1. run[r] \in RunState
    BY <1>1, RunTypes
  <2>2. CASE Stage(r)
    BY <1>1, <2>2, FilesAdvance, StagesAdvance, ChunksAdvance, AttemptsAdvance DEF Stage
  <2>3. ASSUME NEW q \in Runs, Stage(q), q # r
        PROVE  run'[r] = run[r]
    BY <1>1, <2>3, OwnAffair DEF Only, IInv
  <2>4. ASSUME NEW q \in Runs, NEW entry, NEW own, NEW docs, NEW graphing,
               Start(q, entry, own, docs, graphing)
        PROVE  PhaseLeft(run'[r]) < PhaseLeft(run[r])
    <3> DEFINE x == [Idle EXCEPT !.stage = "list", !.entry = entry, !.own = own,
                                 !.docs = docs, !.graphing = graphing]
    <3>1. run'[r] = x /\ run[r].stage = "idle"
      BY <1>1, <2>4 DEF Start, Become, IInv, TypeOK, In
    <3>2. x.stage = "list"
      BY DEF Idle
    <3> HIDE DEF x
    <3> QED
      BY <3>1, <3>2 DEF PhaseLeft
  <2>5. ASSUME NEW dead, Die(dead)
        PROVE  PhaseLeft(run'[r]) < PhaseLeft(run[r])
    <3> DEFINE x == [Idle EXCEPT !.stage = "dead"]
    <3>1. run'[r] = x /\ run[r].stage \notin {"idle", "over", "dead"}
      BY <1>1, <2>5 DEF Die
    <3>2. x.stage = "dead"
      BY DEF Idle
    <3> HIDE DEF x
    <3> QED
      BY <3>1, <3>2 DEF PhaseLeft
  <2>6. ASSUME (\E q \in Runs : Signal(q)) \/ Settle \/ \E d \in Documents : Put(d)
        PROVE  run'[r] = run[r]
    BY <2>6 DEF Signal, Settle, Back, Apply, Discard, Put, locals
  <2>7. PhaseLeft(run'[r]) < PhaseLeft(run[r]) => Below(Before(run'[r]), Before(run[r]))
    BY Less
  <2> QED
    BY <1>1, <2>2, <2>3, <2>4, <2>5, <2>6, <2>7 DEF Next, Work, main, ingest_specific_files
<1>2. IInv /\ [Next]_vars
        => [\A r \in Runs : run'[r] # run[r] => Below(Before(run'[r]), Before(run[r]))]_vars
  BY <1>1
<1>3. IInv => \A r \in Runs : Before(run[r]) \in [1..8 -> Nat]
  BY RunTypes, BeforeTypes
<1>4. \A T \in SUBSET [1..8 -> Nat] : T # {} => \E m \in T : \A n \in T : ~Below(n, m)
  BY BelowIsWellFounded
<1>5. Spec => RunsAdvance /\ []\A r \in Runs : Before(run[r]) \in [1..8 -> Nat]
  BY <1>2, <1>3, InductiveInvariant, PTL DEF Spec, RunsAdvance
<1> QED
  BY <1>4, <1>5
=============================================================================
