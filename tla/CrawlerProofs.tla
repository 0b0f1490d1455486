---------------------------- MODULE CrawlerProofs ----------------------------
(***************************************************************************)
(* Proofs about Crawler: for any links, batch size, threads, crawls,       *)
(* failing calls and kills.                                                *)
(***************************************************************************)
EXTENDS Crawler, SequenceTheorems, FiniteSetTheorems, TLAPS

\* The batches that are in the pool.
Pooled == ToSet(queue) \cup running \cup {r.batch : r \in returned}

\* Between two crawls the process holds nothing.
Idle ==
  phase = "off" => pending = <<>> /\ queue = <<>> /\ running = {} /\ returned = {}

\* What waits for the pipeline, or was given to it, was stored.
Stored ==
  \A p \in Paths : p \in ToSet(pending) \/ submitted[p] > 0 => p \in bucket \cup local

\* A document that waits for the pipeline was never given to it, unless its upload
\* failed.
Fresh == \A p \in ToSet(pending) : p \in local \/ submitted[p] = 0

\* The process has seen the paths of what it holds, and the runs of its batches
\* have rows.
HeldSeen ==
  /\ ToSet(pending) \subseteq paths
  /\ \A b \in Pooled : ToSet(b.docs) \subseteq paths /\ b.run <= Len(runs)

\* BatchesApart, without the tags.
Apart ==
  /\ \A b \in Pooled : ToSet(b.docs) \cap ToSet(pending) = {}
  /\ \A b, c \in Pooled : b # c => /\ ToSet(b.docs) \cap ToSet(c.docs) = {}
                                   /\ b.run = c.run => b.run = 0

IInv ==
  /\ TypeOK
  /\ Idle
  /\ Stored
  /\ Fresh
  /\ HeldSeen
  /\ Apart
  /\ IngestedOnce

-----------------------------------------------------------------------------
\* Sequences as sets.
LEMMA ToSetEmpty == ToSet(<<>>) = {}
BY DEF ToSet

LEMMA ToSetOf ==
  ASSUME NEW S, NEW s \in Seq(S)
  PROVE  ToSet(s) \subseteq S
BY DEF ToSet

LEMMA ToSetAppend ==
  ASSUME NEW S, NEW s \in Seq(S), NEW e \in S
  PROVE  ToSet(Append(s, e)) = ToSet(s) \cup {e}
<1> DEFINE t == Append(s, e)
<1>1. /\ t \in Seq(S) /\ Len(t) = Len(s) + 1 /\ t[Len(s) + 1] = e
      /\ \A i \in 1 .. Len(s) : t[i] = s[i]
  BY AppendProperties
<1>2. DOMAIN t = DOMAIN s \cup {Len(s) + 1}
  BY <1>1
<1> HIDE DEF t
<1>3. \A i \in DOMAIN s : t[i] = s[i]
  BY <1>1
<1> QED
  BY <1>1, <1>2, <1>3 DEF ToSet, t

LEMMA ToSetTail ==
  ASSUME NEW S, NEW s \in Seq(S), s # <<>>
  PROVE  /\ Tail(s) \in Seq(S) /\ Head(s) \in ToSet(s)
         /\ ToSet(Tail(s)) \subseteq ToSet(s)
<1>1. /\ Tail(s) \in Seq(S) /\ Len(Tail(s)) = Len(s) - 1
      /\ \A i \in 1 .. Len(Tail(s)) : Tail(s)[i] = s[i + 1]
  BY HeadTailProperties
<1>2. Head(s) = s[1] /\ 1 \in DOMAIN s
  OBVIOUS
<1>3. \A i \in DOMAIN Tail(s) : i + 1 \in DOMAIN s /\ Tail(s)[i] = s[i + 1]
  BY <1>1
<1> QED
  BY <1>1, <1>2, <1>3 DEF ToSet

\* The calls of a handler that fail are finitely many.
LEMMA CallsCounted ==
  ASSUME NEW v, NEW w, NEW x, NEW y, NEW z, NEW calls \in SUBSET {v, w, x, y, z}
  PROVE  Cardinality(calls) \in Nat
<1>1. IsFiniteSet({v, w, x, y, z})
  <2>1. IsFiniteSet({v})
    BY FS_EmptySet, FS_AddElement
  <2>2. IsFiniteSet({v, w})
    BY <2>1, FS_AddElement, {v, w} = {v} \cup {w}
  <2>3. IsFiniteSet({v, w, x})
    BY <2>2, FS_AddElement, {v, w, x} = {v, w} \cup {x}
  <2>4. IsFiniteSet({v, w, x, y})
    BY <2>3, FS_AddElement, {v, w, x, y} = {v, w, x} \cup {y}
  <2> QED
    BY <2>4, FS_AddElement, {v, w, x, y, z} = {v, w, x, y} \cup {z}
<1> QED
  BY <1>1, FS_Subset, FS_CardinalityType

LEMMA ApartIsBatchesApart == Apart => BatchesApart
<1> SUFFICES ASSUME Apart, NEW x \in Held, NEW y \in Held, x # y
             PROVE  /\ ToSet(x[2].docs) \cap ToSet(y[2].docs) = {}
                    /\ x[2].run = y[2].run => x[2].run = 0
  BY DEF BatchesApart
<1> DEFINE Buffer == [docs |-> pending, run |-> 0]
<1>1. \A h \in Held : h = <<"buffer", Buffer>> \/ \E b \in Pooled : h = <<"pool", b>>
  BY DEF Held, Pooled
<1>2. CASE x = <<"buffer", Buffer>>
  BY <1>1, <1>2 DEF Apart
<1>3. CASE y = <<"buffer", Buffer>>
  BY <1>1, <1>3 DEF Apart
<1>4. CASE (\E b \in Pooled : x = <<"pool", b>>) /\ (\E b \in Pooled : y = <<"pool", b>>)
  BY <1>4 DEF Apart
<1> QED
  BY <1>1, <1>2, <1>3, <1>4

-----------------------------------------------------------------------------
LEMMA PooledTypes ==
  ASSUME TypeOK
  PROVE  /\ Pooled \subseteq Batch
         /\ \A b \in Pooled : b.docs \in Seq(Paths) /\ ToSet(b.docs) \subseteq Paths /\ b.run \in Nat
         /\ ToSet(pending) \subseteq Paths
         /\ Len(runs) \in Nat
<1>1. ToSet(queue) \subseteq Batch
  BY ToSetOf DEF TypeOK
<1>2. \A r \in returned : r.batch \in Batch
  BY DEF TypeOK, Returned
<1>3. Pooled \subseteq Batch
  BY <1>1, <1>2 DEF Pooled, TypeOK
<1>4. \A b \in Batch : b.docs \in Seq(Paths) /\ b.run \in Nat
  BY DEF Batch
<1> QED
  BY <1>3, <1>4, ToSetOf DEF TypeOK

\* A step that gives nothing to the pipeline: what the process holds does not
\* grow, or the process starts or ends and holds nothing.
LEMMA Keeps ==
  ASSUME IInv, TypeOK', Idle',
         ToSet(pending') \subseteq ToSet(pending), Pooled' \subseteq Pooled,
         submitted' = submitted, bucket \subseteq bucket', local \subseteq local',
         \/ paths \subseteq paths' /\ Len(runs) <= Len(runs')
         \/ ToSet(pending') = {} /\ Pooled' = {}
  PROVE  IInv'
<1>1. Stored'
  BY DEF IInv, Stored
<1>2. Fresh'
  BY DEF IInv, Fresh
<1>3. HeldSeen'
  <2>1. Len(runs) \in Nat /\ Len(runs') \in Nat
    BY PooledTypes DEF IInv, TypeOK
  <2>2. \A b \in Pooled : b.run \in Nat
    BY PooledTypes DEF IInv
  <2> QED
    BY <2>1, <2>2 DEF IInv, HeldSeen
<1>4. Apart'
  BY DEF IInv, Apart
<1>5. IngestedOnce'
  BY DEF IInv, IngestedOnce
<1> QED
  BY <1>1, <1>2, <1>3, <1>4, <1>5 DEF IInv

\* A step that hands a batch to the pool, unless the import fails, and empties the
\* buffer.
LEMMA Submits ==
  ASSUME IInv, TypeOK', Idle', NEW docs \in Seq(Paths), NEW calls,
         Submit(docs, calls), pending' = <<>>, running' = running, returned' = returned,
         bucket \subseteq bucket', local \subseteq local', paths \subseteq paths',
         \A p \in ToSet(docs) : /\ p \in bucket' \cup local' /\ p \in paths'
                                /\ p \in local' \/ submitted[p] = 0,
         \A b \in Pooled : ToSet(b.docs) \cap ToSet(docs) = {}
  PROVE  IInv'
<1>1. Len(runs) \in Nat /\ \A b \in Pooled : b.run \in Nat
  BY PooledTypes DEF IInv
<1>2. ToSet(pending') = {}
  BY ToSetEmpty
<1>3. Len(runs') \in Nat /\ Len(runs) <= Len(runs')
  BY <1>1 DEF Submit, IInv, TypeOK
<1>4. CASE "import" \in calls
  <2>1. Pooled' = Pooled /\ submitted' = submitted
    BY <1>4 DEF Submit, Pooled
  <2> QED
    BY <1>2, <1>3, <2>1, Keeps
<1>5. CASE "import" \notin calls
  <2> DEFINE new == [docs |-> docs, run |-> IF "create" \notin calls THEN Len(runs) + 1 ELSE 0]
  <2>1. Pooled' = Pooled \cup {new}
    <3>1. queue' = Append(queue, new)
      BY <1>5 DEF Submit, ToPool
    <3>2. new \in Batch
      BY <1>1 DEF Batch
    <3>3. ToSet(queue') = ToSet(queue) \cup {new}
      BY <3>1, <3>2, ToSetAppend DEF IInv, TypeOK
    <3> QED
      BY <3>3 DEF Pooled
  <2>2. /\ new.run = 0 \/ new.run = Len(runs) + 1
        /\ new.run <= Len(runs')
        /\ new.docs = docs
    BY <1>1, <1>5 DEF Submit, IInv, TypeOK
  <2> HIDE DEF new
  <2>3. \A p \in Paths :
          submitted'[p] = IF p \in ToSet(docs) THEN submitted[p] + 1 ELSE submitted[p]
    BY <1>5 DEF Submit, ToPool
  <2>4. Stored'
    BY <1>2, <2>3 DEF IInv, Stored
  <2>5. Fresh'
    BY <1>2 DEF Fresh
  <2>6. HeldSeen'
    BY <1>1, <1>2, <1>3, <2>1, <2>2 DEF IInv, HeldSeen
  <2>7. Apart'
    <3>1. \A b \in Pooled : b.run = new.run => b.run = 0
      BY <1>1, <2>2 DEF IInv, HeldSeen
    <3> QED
      BY <1>2, <2>1, <2>2, <3>1 DEF IInv, Apart
  <2>8. IngestedOnce'
    <3>1. SUFFICES ASSUME NEW p \in Paths, p \notin local'
                   PROVE  submitted'[p] <= 1
      BY DEF IngestedOnce
    <3>2. CASE p \in ToSet(docs)
      BY <2>3, <3>1, <3>2
    <3>3. CASE p \notin ToSet(docs)
      BY <2>3, <3>1, <3>3 DEF IInv, IngestedOnce
    <3> QED
      BY <3>2, <3>3
  <2> QED
    BY <2>4, <2>5, <2>6, <2>7, <2>8 DEF IInv
<1> QED
  BY <1>4, <1>5

-----------------------------------------------------------------------------
LEMMA FaultsCounted ==
  ASSUME TypeOK, NEW v, NEW w, NEW x, NEW y, NEW z,
         NEW calls \in SUBSET {v, w, x, y, z}, Fail(calls)
  PROVE  {crawls', faults', failed', crashes'} \subseteq Nat
<1>1. Cardinality(calls) \in Nat
  BY CallsCounted
<1>2. crawls \in Nat /\ faults \in Nat /\ failed \in Nat /\ crashes \in Nat
  BY DEF TypeOK
<1>3. crawls' = crawls /\ failed' = failed /\ crashes' = crashes
      /\ faults' = faults + Cardinality(calls)
  BY DEF Fail
<1>4. faults' \in Nat
  BY <1>1, <1>2, <1>3
<1> QED
  BY <1>2, <1>3, <1>4

LEMMA Uploaded ==
  ASSUME TypeOK, NEW p \in Paths, NEW fails, Upload(p, fails)
  PROVE  /\ bucket \subseteq bucket' /\ bucket' \subseteq Paths
         /\ local \subseteq local' /\ local' \subseteq Paths
         /\ p \in bucket' \cup local'
BY DEF Upload, TypeOK

\* The downloads that leave the pipeline alone.
LEMMA QuietIInv ==
  ASSUME IInv, NEW l \in Links,
         SkipDuplicate(l) \/ SkipStored(l) \/ Raises(l) \/ StoreUnregistered(l)
  PROVE  IInv'
<1>1. /\ UNCHANGED <<registry, index, phase, mode, paths, pending, pool, breaker, submitted>>
      /\ found' \subseteq found
  BY DEF SkipDuplicate, SkipStored, Raises, StoreUnregistered, Downloaded, seen
<1>2. /\ bucket \subseteq bucket' /\ bucket' \subseteq Paths
      /\ local \subseteq local' /\ local' \subseteq Paths
  <2>1. CASE StoreUnregistered(l)
    <3>1. PathOf[l] \in Paths
      BY CrawlerAssumption
    <3>2. PICK calls \in SUBSET {"upload"} : Upload(PathOf[l], calls # {})
      BY <2>1 DEF StoreUnregistered
    <3> QED
      BY <3>1, <3>2, Uploaded DEF IInv
  <2>2. CASE ~StoreUnregistered(l)
    BY <2>2 DEF SkipDuplicate, SkipStored, Raises, disk, IInv, TypeOK
  <2> QED
    BY <2>1, <2>2
<1>3. hashes' \subseteq Contents
  <2>1. ContentOf[l] \in Contents
    BY CrawlerAssumption
  <2> QED
    BY <2>1 DEF SkipDuplicate, SkipStored, Raises, StoreUnregistered, seen, IInv, TypeOK
<1>4. {crawls', faults', failed', crashes'} \subseteq Nat
  <2>1. CASE StoreUnregistered(l)
    <3>1. PICK calls \in SUBSET {"upload"} : Fail(calls)
      BY <2>1 DEF StoreUnregistered
    <3>2. calls \in SUBSET {"upload", "upload", "upload", "upload", "upload"}
      OBVIOUS
    <3> QED
      BY <3>1, <3>2, FaultsCounted DEF IInv
  <2>2. CASE Raises(l)
    BY <2>2 DEF Raises, IInv, TypeOK
  <2>3. CASE SkipDuplicate(l) \/ SkipStored(l)
    BY <2>3 DEF SkipDuplicate, SkipStored, bounds, IInv, TypeOK
  <2> QED
    BY <2>1, <2>2, <2>3
<1>5. TypeOK'
  BY <1>1, <1>2, <1>3, <1>4 DEF IInv, TypeOK, registry, pool, breaker
<1>6. Idle' /\ Pooled' = Pooled /\ runs' = runs
  BY <1>1 DEF IInv, Idle, Pooled, pool, registry
<1>7. Len(runs) \in Nat
  BY PooledTypes DEF IInv
<1> QED
  BY <1>1, <1>2, <1>5, <1>6, <1>7, Keeps

LEMMA BreakerTyped ==
  ASSUME TypeOK, IngestionFailed
  PROVE  failures' \in Nat /\ open' \in BOOLEAN
<1>1. failures' \in Nat
  BY DEF IngestionFailed, TypeOK
<1>2. open' = (open \/ failures + 1 >= Threshold)
  BY DEF IngestionFailed
<1>3. open' \in BOOLEAN
  BY <1>2, Zenon
<1> QED
  BY <1>1, <1>3

LEMMA SubmitTyped ==
  ASSUME TypeOK, NEW docs \in Seq(Paths), NEW calls, Submit(docs, calls)
  PROVE  /\ runs' \in Seq(RunStatuses) /\ Len(runs) <= Len(runs')
         /\ queue' \in Seq(Batch)
         /\ submitted' \in [Paths -> Nat]
         /\ ingestedIn \in [Paths -> 0 .. Len(runs')]
         /\ failures' \in Nat /\ open' \in BOOLEAN
<1>1. Len(runs) \in Nat
  BY PooledTypes
<1>2. runs' \in Seq(RunStatuses) /\ Len(runs) <= Len(runs') /\ Len(runs') \in Nat
  <2> DEFINE status == IF "import" \in calls /\ "fail" \notin calls THEN "failed" ELSE "running"
  <2>1. status \in RunStatuses /\ runs \in Seq(RunStatuses)
    BY DEF RunStatuses, TypeOK
  <2>2. runs' = Append(runs, status) \/ runs' = runs
    BY DEF Submit
  <2> HIDE DEF status
  <2> QED
    BY <1>1, <2>1, <2>2, AppendProperties
<1>3. queue' \in Seq(Batch)
  <2>1. CASE "import" \in calls
    BY <2>1 DEF Submit, TypeOK
  <2>2. CASE "import" \notin calls
    <3> DEFINE new == [docs |-> docs, run |-> IF "create" \notin calls THEN Len(runs) + 1 ELSE 0]
    <3>1. new \in Batch
      BY <1>1 DEF Batch
    <3>2. queue' = Append(queue, new)
      BY <2>2 DEF Submit, ToPool
    <3> QED
      BY <3>1, <3>2, AppendProperties DEF TypeOK
  <2> QED
    BY <2>1, <2>2
<1>4. submitted' \in [Paths -> Nat]
  <2>1. CASE "import" \in calls
    BY <2>1 DEF Submit, TypeOK
  <2>2. CASE "import" \notin calls
    <3>1. submitted' = [p \in Paths |-> IF p \in ToSet(docs) THEN submitted[p] + 1 ELSE submitted[p]]
      BY <2>2 DEF Submit, ToPool
    <3>2. \A p \in Paths : submitted[p] \in Nat
      BY DEF TypeOK
    <3> QED
      BY <3>1, <3>2
  <2> QED
    BY <2>1, <2>2
<1>5. ingestedIn \in [Paths -> 0 .. Len(runs')]
  <2>1. ingestedIn \in [Paths -> 0 .. Len(runs)]
    BY DEF TypeOK
  <2>2. 0 .. Len(runs) \subseteq 0 .. Len(runs')
    BY <1>1, <1>2
  <2> QED
    BY <2>1, <2>2
<1>6. failures' \in Nat /\ open' \in BOOLEAN
  BY BreakerTyped DEF Submit, breaker, TypeOK
<1> QED
  BY <1>2, <1>3, <1>4, <1>5, <1>6

LEMMA StoreIInv ==
  ASSUME IInv, NEW l \in Links, Store(l)
  PROVE  IInv'
<1> DEFINE p == PathOf[l]
           docs == Append(pending, p)
<1>0. PICK calls \in SUBSET {"upload", "mark", "create", "import", "fail"} :
        /\ Fail(calls)
        /\ Upload(p, "upload" \in calls)
        /\ IF "mark" \in calls THEN UNCHANGED sha ELSE mark_scraped(l)
        /\ IF mode.auto /\ ~open
           THEN _maybe_trigger_ingest(p, calls)
           ELSE SubmitNothing(calls) /\ UNCHANGED pending
  BY {"upload", "mark"} \cup SubmitCalls = {"upload", "mark", "create", "import", "fail"}
     DEF Store, SubmitCalls
<1>1. /\ p \in Paths /\ ContentOf[l] \in Contents
      /\ p \notin paths /\ p \notin bucket
  BY CrawlerAssumption DEF Store, PathSeen, document_exists
<1>2. /\ bucket \subseteq bucket' /\ bucket' \subseteq Paths
      /\ local \subseteq local' /\ local' \subseteq Paths
      /\ p \in bucket' \cup local'
  BY <1>0, <1>1, Uploaded DEF IInv
<1>3. /\ paths' = paths \cup {p}
      /\ phase' = phase /\ phase # "off"
      /\ running' = running /\ returned' = returned
  BY DEF Store, Downloaded
<1>4. docs \in Seq(Paths) /\ ToSet(docs) = ToSet(pending) \cup {p}
  BY <1>1, ToSetAppend, AppendProperties DEF IInv, TypeOK
<1>5. ToSet(pending) \subseteq Paths /\ p \notin ToSet(pending)
  BY <1>1, PooledTypes DEF IInv, HeldSeen
<1>6. \A b \in Pooled : p \notin ToSet(b.docs)
  BY <1>1 DEF IInv, HeldSeen
<1>7. p \in local \/ submitted[p] = 0
  <2>1. submitted[p] \in Nat
    BY <1>1 DEF IInv, TypeOK
  <2> QED
    BY <1>1, <2>1 DEF IInv, Stored
<1>8. \/ Submit(docs, calls) /\ pending' = <<>>
      \/ pending' = docs /\ UNCHANGED <<runs, queue, submitted, breaker>>
      \/ UNCHANGED <<pending, runs, queue, submitted, breaker>>
  BY <1>0 DEF _maybe_trigger_ingest, SubmitNothing
<1>9. TypeOK'
  <2>1. /\ runs' \in Seq(RunStatuses) /\ queue' \in Seq(Batch) /\ pending' \in Seq(Paths)
        /\ submitted' \in [Paths -> Nat]
        /\ ingestedIn \in [Paths -> 0 .. Len(runs')]
        /\ failures' \in Nat /\ open' \in BOOLEAN
    <3>1. CASE Submit(docs, calls) /\ pending' = <<>>
      <4> HIDE DEF docs
      <4>1. pending' \in Seq(Paths)
        BY <3>1
      <4>2. /\ runs' \in Seq(RunStatuses) /\ queue' \in Seq(Batch)
            /\ submitted' \in [Paths -> Nat]
            /\ ingestedIn \in [Paths -> 0 .. Len(runs')]
            /\ failures' \in Nat /\ open' \in BOOLEAN
        BY <1>4, <3>1, SubmitTyped, Zenon DEF IInv
      <4> QED
        BY <4>1, <4>2
    <3>2. CASE /\ UNCHANGED <<runs, queue, submitted, breaker>>
               /\ pending' = docs \/ pending' = pending
      BY <1>4, <3>2 DEF IInv, TypeOK, breaker
    <3> QED
      BY <1>8, <3>1, <3>2
  <2>2. sha' \in [Paths -> Contents \cup {NoContent}]
        /\ \A q \in Paths : sha[q] # NoContent => sha'[q] # NoContent
    BY <1>0, <1>1 DEF mark_scraped, IInv, TypeOK
  <2>3. {crawls', faults', failed', crashes'} \subseteq Nat
    BY <1>0, FaultsCounted DEF IInv
  <2>4. paths' \subseteq Paths /\ hashes' \subseteq Contents
    BY <1>1 DEF Store, IInv, TypeOK
  <2>5. /\ found' \subseteq Links
        /\ UNCHANGED <<ingestedIn, index, phase, mode, running, returned>>
    BY DEF Store, Downloaded, IInv, TypeOK
  <2>6. \A q \in Paths : ingestedIn'[q] # 0 => sha'[q] # NoContent
    BY <2>2, <2>5 DEF IInv, TypeOK
  <2> QED
    BY <1>2, <2>1, <2>2, <2>3, <2>4, <2>5, <2>6 DEF IInv, TypeOK
<1>10. Idle'
  BY <1>3 DEF Idle
<1> HIDE DEF p, docs
<1>11. CASE Submit(docs, calls) /\ pending' = <<>>
  <2>1. \A q \in ToSet(docs) : /\ q \in bucket' \cup local' /\ q \in paths'
                               /\ q \in local' \/ submitted[q] = 0
    BY <1>2, <1>3, <1>4, <1>5, <1>7 DEF IInv, Stored, Fresh, HeldSeen
  <2>2. \A b \in Pooled : ToSet(b.docs) \cap ToSet(docs) = {}
    BY <1>4, <1>6 DEF IInv, Apart
  <2> QED
    BY <1>2, <1>3, <1>4, <1>9, <1>10, <1>11, <2>1, <2>2, Submits
<1>12. CASE pending' = docs /\ UNCHANGED <<runs, queue, submitted, breaker>>
  <2>1. Pooled' = Pooled /\ ToSet(pending') = ToSet(pending) \cup {p}
    BY <1>3, <1>4, <1>12 DEF Pooled
  <2>2. Stored' /\ Fresh'
    BY <1>2, <1>7, <1>12, <2>1 DEF IInv, Stored, Fresh
  <2>3. HeldSeen' /\ Apart'
    BY <1>3, <1>6, <1>12, <2>1 DEF IInv, HeldSeen, Apart
  <2>4. IngestedOnce'
    BY <1>2, <1>12 DEF IInv, IngestedOnce
  <2> QED
    BY <1>9, <1>10, <2>2, <2>3, <2>4 DEF IInv
<1>13. CASE UNCHANGED <<pending, runs, queue, submitted, breaker>>
  <2>1. Pooled' = Pooled
    BY <1>3, <1>13 DEF Pooled
  <2>2. Len(runs) \in Nat
    BY PooledTypes DEF IInv
  <2> QED
    BY <1>2, <1>3, <1>9, <1>10, <1>13, <2>1, <2>2, Keeps
<1> QED
  BY <1>8, <1>11, <1>12, <1>13

\* The end of a crawl, orderly or killed.
LEMMA OffIInv ==
  ASSUME IInv, Off, UNCHANGED <<registry, submitted>>,
         bucket \subseteq bucket', bucket' \subseteq Paths, local' = local,
         index' \subseteq Paths, {crawls', faults', failed', crashes'} \subseteq Nat
  PROVE  IInv'
<1>1. /\ pending' = <<>> /\ queue' = <<>> /\ running' = {} /\ returned' = {}
      /\ found' = {} /\ paths' = {} /\ hashes' = {} /\ failures' = 0 /\ open' = FALSE
      /\ phase' = "off" /\ mode' = NoMode
  BY DEF Off
<1>2. TypeOK'
  <2>1. mode' \in Modes /\ phase' \in Phases
    BY <1>1 DEF NoMode, Modes, Phases
  <2>2. pending' \in Seq(Paths) /\ queue' \in Seq(Batch) /\ open' \in BOOLEAN
    BY <1>1, EmptySeq
  <2>3. sha' = sha /\ ingestedIn' = ingestedIn /\ runs' = runs /\ submitted' = submitted
    BY DEF registry
  <2> QED
    BY <1>1, <2>1, <2>2, <2>3 DEF IInv, TypeOK
<1>3. ToSet(pending') = {} /\ Pooled' = {}
  BY <1>1, ToSetEmpty DEF Pooled
<1>4. Idle'
  BY <1>1 DEF Idle
<1> QED
  BY <1>2, <1>3, <1>4, Keeps

LEMMA EndIInv ==
  ASSUME IInv, End
  PROVE  IInv'
<1>1. /\ Off /\ UNCHANGED <<disk, registry, index, bounds, submitted>>
      /\ bucket \subseteq Paths /\ index \subseteq Paths
      /\ {crawls, faults, failed, crashes} \subseteq Nat
  BY DEF End, IInv, TypeOK
<1> QED
  BY <1>1, OffIInv DEF disk, bounds

LEMMA CrashIInv ==
  ASSUME IInv, Crash
  PROVE  IInv'
<1>1. Off /\ UNCHANGED <<registry, submitted>>
  BY DEF Crash
<1>2. bucket \subseteq bucket' /\ bucket' \subseteq Paths /\ local' = local
  BY CrawlerAssumption DEF Crash, disk, IInv, TypeOK
<1>3. index' \subseteq Paths
  BY DEF Crash, IInv, TypeOK
<1>4. {crawls', faults', failed', crashes'} \subseteq Nat
  BY DEF Crash, IInv, TypeOK
<1> QED
  BY <1>1, <1>2, <1>3, <1>4, OffIInv

LEMMA StartIInv ==
  ASSUME IInv, Start
  PROVE  IInv'
<1>1. /\ UNCHANGED <<disk, registry, index, pending, pool, breaker, failed, crashes, submitted>>
      /\ phase' = "crawling" /\ found' \subseteq Links /\ crawls' = crawls + 1
      /\ phase = "off"
  BY DEF Start
<1>2. pending = <<>> /\ Pooled = {} /\ Pooled' = Pooled
  BY <1>1, ToSetEmpty DEF IInv, Idle, Pooled, pool
<1>3. PICK auto \in AutoIngest, calls \in {{}, {"connect"}, {"paths"}, {"hashes"}} :
        /\ faults' = faults + Cardinality(calls)
        /\ mode' = [auto |-> auto, registry |-> "connect" \notin calls,
                    preloaded |-> calls \subseteq {"hashes"}]
        /\ paths' = IF calls \subseteq {"hashes"} THEN load_known_paths ELSE {}
        /\ hashes' = IF calls = {} THEN load_known_hashes ELSE {}
  BY DEF Start
<1>4. mode' \in Modes
  BY <1>3, CrawlerAssumption DEF Modes
<1>5. paths' \subseteq Paths /\ hashes' \subseteq Contents
  BY <1>3 DEF load_known_paths, load_known_hashes, IInv, TypeOK
<1>6. {crawls', faults', failed', crashes'} \subseteq Nat
  <2>1. calls \in SUBSET {"connect", "paths", "hashes", "hashes", "hashes"}
    BY <1>3
  <2>2. Cardinality(calls) \in Nat
    BY <2>1, CallsCounted
  <2> QED
    BY <1>1, <1>3, <2>2 DEF IInv, TypeOK
<1>7. TypeOK'
  BY <1>1, <1>4, <1>5, <1>6 DEF IInv, TypeOK, disk, registry, pool, breaker, Phases
<1>8. Idle'
  BY <1>1 DEF Idle
<1>9. bucket' = bucket /\ local' = local /\ pending' = pending /\ submitted' = submitted
  BY <1>1 DEF disk
<1>10. ToSet(pending') = {}
  BY <1>2, <1>9, ToSetEmpty
<1> QED
  BY <1>2, <1>7, <1>8, <1>9, <1>10, Keeps

-----------------------------------------------------------------------------
LEMMA BeginIInv ==
  ASSUME IInv, Begin
  PROVE  IInv'
<1>1. /\ UNCHANGED <<disk, registry, index, phase, mode, found, seen, pending, returned,
                     breaker, bounds, submitted>>
      /\ queue # <<>>
      /\ running' = running \cup {Head(queue)} /\ queue' = Tail(queue)
  BY DEF Begin
<1>2. queue \in Seq(Batch) /\ running \subseteq Batch
  BY DEF IInv, TypeOK
<1>3. /\ queue' \in Seq(Batch) /\ Head(queue) \in ToSet(queue)
      /\ ToSet(queue') \subseteq ToSet(queue)
  BY <1>1, <1>2, ToSetTail
<1>4. running' \subseteq Batch
  BY <1>1, <1>2, <1>3, ToSetOf
<1>5. TypeOK'
  BY <1>1, <1>3, <1>4 DEF IInv, TypeOK, disk, registry, seen, breaker, bounds
<1>6. Pooled' \subseteq Pooled
  BY <1>1, <1>3 DEF Pooled
<1>7. Idle'
  BY <1>1 DEF IInv, Idle
<1>8. Len(runs) \in Nat
  BY PooledTypes DEF IInv
<1> QED
  BY <1>1, <1>5, <1>6, <1>7, <1>8, Keeps DEF disk, registry, seen

LEMMA ReturnIInv ==
  ASSUME IInv, NEW b \in running, Ingest(b) \/ IngestFails(b)
  PROVE  IInv'
<1>1. PICK exit \in {0, 1} : Return(b, exit)
  BY DEF Ingest, IngestFails
<1>2. /\ UNCHANGED <<disk, registry, phase, mode, found, seen, pending, queue, breaker, submitted>>
      /\ running' = running \ {b}
      /\ returned' = returned \cup {[batch |-> b, exit |-> exit]}
  BY <1>1 DEF Return
<1>3. b \in Batch
  BY DEF IInv, TypeOK
<1>4. index' \subseteq Paths
  BY DEF Ingest, IngestFails, IInv, TypeOK
<1>5. {crawls', faults', failed', crashes'} \subseteq Nat
  BY DEF Ingest, IngestFails, bounds, IInv, TypeOK
<1>6. running' \subseteq Batch /\ returned' \subseteq Returned
  BY <1>2, <1>3 DEF Returned, IInv, TypeOK
<1>7. TypeOK'
  BY <1>2, <1>4, <1>5, <1>6 DEF IInv, TypeOK, disk, registry, seen, breaker
<1>8. Pooled' \subseteq Pooled
  <2>1. \A r \in returned' : r \in returned \/ r.batch = b
    BY <1>2
  <2> QED
    BY <1>2, <2>1 DEF Pooled
<1>9. phase # "off" /\ phase' = phase
  BY <1>2 DEF IInv, Idle
<1>10. Len(runs) \in Nat
  BY PooledTypes DEF IInv
<1> QED
  BY <1>2, <1>7, <1>8, <1>9, <1>10, Keeps DEF disk, registry, seen, Idle

LEMMA ResumeIInv ==
  ASSUME IInv, NEW r \in returned, Resume(r)
  PROVE  IInv'
<1>1. /\ UNCHANGED <<disk, sha, index, phase, mode, found, seen, pending, queue, running,
                     submitted>>
      /\ returned' = returned \ {r}
      /\ (failures' = 0 /\ UNCHANGED open) \/ IngestionFailed
  BY DEF Resume
<1>2. PICK calls \in SUBSET {"complete", "mark", "fail"} :
        /\ Fail(calls)
        /\ \/ UNCHANGED <<runs, ingestedIn>>
           \/ /\ runs' = [runs EXCEPT ![r.batch.run] = RunStatus(r.exit, calls)]
              /\ mark_ingested(r.batch) \/ UNCHANGED ingestedIn
  BY DEF Resume
<1>3. /\ r.batch \in Pooled /\ r.batch.run \in Nat /\ r.batch.run <= Len(runs)
      /\ Len(runs) \in Nat
  <2>1. r.batch \in Pooled
    BY DEF Pooled
  <2> QED
    BY <2>1, PooledTypes DEF IInv, HeldSeen
<1>4. runs' \in Seq(RunStatuses) /\ Len(runs') = Len(runs)
  <2>1. RunStatus(r.exit, calls) \in RunStatuses
    BY DEF RunStatus, RunStatuses
  <2>2. runs \in Seq(RunStatuses)
    BY DEF IInv, TypeOK
  <2> QED
    BY <1>2, <2>1, <2>2
<1>5. /\ ingestedIn' \in [Paths -> 0 .. Len(runs)]
      /\ \A p \in Paths : ingestedIn'[p] # 0 => sha[p] # NoContent
  BY <1>2, <1>3 DEF mark_ingested, IInv, TypeOK
<1>6. {crawls', faults', failed', crashes'} \subseteq Nat
  <2>1. calls \in SUBSET {"complete", "complete", "complete", "mark", "fail"}
    OBVIOUS
  <2> QED
    BY <1>2, <2>1, FaultsCounted DEF IInv
<1>7. failures' \in Nat /\ open' \in BOOLEAN
  BY <1>1, BreakerTyped DEF IInv, TypeOK
<1>8. TypeOK'
  BY <1>1, <1>4, <1>5, <1>6, <1>7 DEF IInv, TypeOK, disk, seen
<1>9. Pooled' \subseteq Pooled
  BY <1>1 DEF Pooled
<1>10. Idle'
  BY <1>1 DEF IInv, Idle
<1> QED
  BY <1>1, <1>3, <1>4, <1>8, <1>9, <1>10, Keeps DEF disk, seen

LEMMA FlushIInv ==
  ASSUME IInv, Flush
  PROVE  IInv'
<1>1. /\ UNCHANGED <<disk, sha, ingestedIn, index, mode, found, seen, running, returned>>
      /\ phase' = "flushing" /\ pending' = <<>>
  BY DEF Flush
<1>2. PICK calls \in SUBSET {"create", "import", "fail"} :
        /\ Fail(calls)
        /\ Submit(pending, calls) \/ UNCHANGED <<runs, queue, submitted, breaker>>
  BY DEF Flush, SubmitCalls, SubmitNothing
<1>3. pending \in Seq(Paths) /\ pending' \in Seq(Paths)
  BY <1>1 DEF IInv, TypeOK
<1>4. {crawls', faults', failed', crashes'} \subseteq Nat
  <2>1. calls \in SUBSET {"create", "create", "create", "import", "fail"}
    OBVIOUS
  <2> QED
    BY <1>2, <2>1, FaultsCounted DEF IInv
<1>5. /\ runs' \in Seq(RunStatuses) /\ queue' \in Seq(Batch)
      /\ submitted' \in [Paths -> Nat]
      /\ ingestedIn \in [Paths -> 0 .. Len(runs')]
      /\ failures' \in Nat /\ open' \in BOOLEAN
  <2>1. CASE Submit(pending, calls)
    BY <1>3, <2>1, SubmitTyped DEF IInv
  <2>2. CASE UNCHANGED <<runs, queue, submitted, breaker>>
    BY <2>2 DEF IInv, TypeOK, breaker
  <2> QED
    BY <1>2, <2>1, <2>2
<1>6. TypeOK'
  BY <1>1, <1>3, <1>4, <1>5 DEF IInv, TypeOK, disk, seen, Phases
<1>7. Idle'
  BY <1>1 DEF Idle
<1>8. CASE Submit(pending, calls)
  <2>1. \A p \in ToSet(pending) : /\ p \in bucket' \cup local' /\ p \in paths'
                                  /\ p \in local' \/ submitted[p] = 0
    BY <1>1, PooledTypes DEF disk, seen, IInv, Stored, Fresh, HeldSeen
  <2>2. \A b \in Pooled : ToSet(b.docs) \cap ToSet(pending) = {}
    BY DEF IInv, Apart
  <2> QED
    BY <1>1, <1>3, <1>6, <1>7, <1>8, <2>1, <2>2, Submits DEF disk, seen
<1>9. CASE UNCHANGED <<runs, queue, submitted, breaker>>
  <2>1. Pooled' = Pooled /\ ToSet(pending') = {} /\ Len(runs) \in Nat
    BY <1>1, <1>9, ToSetEmpty, PooledTypes DEF Pooled, IInv
  <2> QED
    BY <1>1, <1>6, <1>7, <1>9, <2>1, Keeps DEF disk, seen
<1> QED
  BY <1>2, <1>8, <1>9

-----------------------------------------------------------------------------
LEMMA InitIInv == Init => IInv
<1> SUFFICES ASSUME Init PROVE IInv
  OBVIOUS
<1>1. ToSet(pending) = {} /\ Pooled = {}
  BY ToSetEmpty DEF Init, Pooled
<1>2. TypeOK
  <2>1. mode \in Modes /\ phase \in Phases
    BY DEF Init, NoMode, Modes, Phases
  <2>2. /\ pending \in Seq(Paths) /\ queue \in Seq(Batch) /\ open \in BOOLEAN
        /\ runs \in Seq(RunStatuses) /\ Len(runs) = 0
    BY EmptySeq DEF Init
  <2>3. ingestedIn \in [Paths -> 0 .. Len(runs)] /\ \A p \in Paths : ingestedIn[p] = 0
    BY <2>2 DEF Init
  <2> QED
    BY <2>1, <2>2, <2>3 DEF Init, TypeOK
<1>3. Idle /\ IngestedOnce
  BY DEF Init, Idle, IngestedOnce
<1>4. Stored /\ Fresh /\ HeldSeen /\ Apart
  BY <1>1 DEF Init, Stored, Fresh, HeldSeen, Apart
<1> QED
  BY <1>2, <1>3, <1>4 DEF IInv

LEMMA NextIInv ==
  ASSUME IInv, [Next]_vars
  PROVE  IInv'
<1>1. CASE Start
  BY <1>1, StartIInv
<1>2. ASSUME NEW l \in Links, Handle(l)
      PROVE  IInv'
  BY <1>2, QuietIInv, StoreIInv DEF Handle
<1>3. ASSUME NEW r \in returned, Resume(r)
      PROVE  IInv'
  BY <1>3, ResumeIInv
<1>4. CASE Flush \/ End
  BY <1>4, FlushIInv, EndIInv
<1>5. CASE Begin
  BY <1>5, BeginIInv
<1>6. ASSUME NEW b \in running, Ingest(b) \/ IngestFails(b)
      PROVE  IInv'
  BY <1>6, ReturnIInv
<1>7. CASE Crash
  BY <1>7, CrashIInv
<1>8. CASE UNCHANGED vars
  <2>1. /\ UNCHANGED <<bucket, local, sha, ingestedIn, runs, index, phase, mode, found>>
        /\ UNCHANGED <<paths, hashes, pending, queue, running, returned, failures, open>>
        /\ UNCHANGED <<crawls, faults, failed, crashes, submitted>>
    BY <1>8 DEF vars, disk, registry, seen, pool, breaker, bounds
  <2>2. Pooled' = Pooled /\ TypeOK' /\ Idle' /\ Len(runs) \in Nat
    BY <2>1, PooledTypes DEF Pooled, IInv, TypeOK, Idle
  <2> QED
    BY <2>1, <2>2, Keeps
<1> QED
  BY <1>1, <1>2, <1>3, <1>4, <1>5, <1>6, <1>7, <1>8 DEF Next, Loop, Thread

\* The inductive invariant, for any links, batch size, failing calls and kills.
THEOREM InductiveInvariant == Spec => []IInv
<1>1. IInv /\ [Next]_vars => IInv'
  BY NextIInv
<1> QED
  BY <1>1, InitIInv, PTL DEF Spec

\* Every variable keeps to its type (TypeOK), and a path is marked ingested only
\* if it has a row.
THEOREM TypeCorrect == Spec => []TypeOK
<1>1. IInv => TypeOK
  BY DEF IInv
<1> QED
  BY <1>1, InductiveInvariant, PTL

\* The pipeline gets a document once (IngestedOnce), over all crawls, kills and
\* failing calls, unless the upload of the document failed.
THEOREM OnceIngested == Spec => []IngestedOnce
<1>1. IInv => IngestedOnce
  BY DEF IInv
<1> QED
  BY <1>1, InductiveInvariant, PTL

\* What the batches of the pool and the buffer hold is apart (BatchesApart), however
\* many threads and batches there are.
THEOREM Disjoint == Spec => []BatchesApart
<1>1. IInv => BatchesApart
  BY ApartIsBatchesApart DEF IInv
<1> QED
  BY <1>1, InductiveInvariant, PTL
=============================================================================
