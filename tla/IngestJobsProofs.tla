-------------------------- MODULE IngestJobsProofs --------------------------
(***************************************************************************)
(* Proofs about IngestJobs, for every number of workers, jobs, threads,    *)
(* failing calls and crashes.                                              *)
(***************************************************************************)
EXTENDS IngestJobs, TLAPS

\* A job has come to something only after its pipeline ran.
NotRunYet == {"none", "create", "queued", "first", "pipeline"}

JobConsistent(j) ==
  /\ pc[j] # "none" => owner[j] \in Workers
  /\ pc[j] \in NotRunYet => outcome[j] = "none"
  /\ pc[j] = "except" /\ j \notin shaken => outcome[j] = "failed"
  /\ pc[j] = "ended" /\ j \notin shaken => row[j] = outcome[j] /\ outcome[j] \in Ends

\* A pool's queue holds jobs of its worker that wait, each once.
QueueConsistent(w) ==
  /\ \A i \in 1 .. Len(queue[w]) : pc[queue[w][i]] = "queued" /\ owner[queue[w][i]] = w
  /\ \A i, k \in 1 .. Len(queue[w]) : queue[w][i] = queue[w][k] => i = k

\* An UPDATE says what its stage says, and unless a call of the job failed its
\* thread still waits for it.
WriteConsistent(x) ==
  /\ x.stage = "first" => x.status = "running"
  /\ x.stage = "final" => x.status = outcome[x.job]
  /\ x.stage = "except" => x.status = "failed"
  /\ pc[x.job] = x.stage \/ x.job \in shaken

IInv ==
  /\ TypeOK
  /\ \A j \in Jobs : JobConsistent(j)
  /\ \A w \in Workers : QueueConsistent(w)
  /\ \A x \in writes : WriteConsistent(x)
  /\ DoneIsEarned
  /\ NoRowForgotten

-----------------------------------------------------------------------------
LEMMA InitIInv == Init => IInv
BY IngestJobsAssumption
DEF Init, IInv, TypeOK, Statuses, Stages, JobConsistent, QueueConsistent, DoneIsEarned,
    NoRowForgotten, Stale

LEMMA BootIInv ==
  ASSUME IInv, NEW w \in Workers, Boot(w) \/ BootUnrecovered(w)
  PROVE  IInv'
<1>0. /\ UNCHANGED <<owner, mem, queue, pc, writes, outcome>>
      /\ shaken \subseteq shaken'
      /\ \A j \in Jobs : row'[j] = row[j] \/ (Stale(j) /\ row'[j] = "failed")
  BY DEF Boot, BootUnrecovered, recover_stale_jobs, process, counts, IInv, TypeOK
<1>1. TypeOK'
  BY DEF IInv, TypeOK, Boot, BootUnrecovered, recover_stale_jobs, process, counts, Statuses, Ends
<1>2. \A j \in Jobs : JobConsistent(j)'
  BY <1>0 DEF IInv, JobConsistent, Stale, Ends
<1>3. \A v \in Workers : QueueConsistent(v)'
  BY <1>0 DEF IInv, QueueConsistent
<1>4. \A x \in writes' : WriteConsistent(x)'
  BY <1>0 DEF IInv, WriteConsistent
<1>5. DoneIsEarned'
  BY <1>0 DEF IInv, DoneIsEarned
<1>6. NoRowForgotten'
  <2>1. CASE Boot(w)
    BY <2>1 DEF NoRowForgotten, Stale, Boot, recover_stale_jobs
  <2>2. CASE BootUnrecovered(w)
    BY <2>2 DEF IInv, NoRowForgotten, Stale, BootUnrecovered
  <2> QED
    BY <2>1, <2>2
<1> QED
  BY <1>1, <1>2, <1>3, <1>4, <1>5, <1>6 DEF IInv

LEMMA TriggerIInv ==
  ASSUME IInv, NEW w \in Workers, NEW j \in Jobs, Trigger(w, j)
  PROVE  IInv'
<1> USE DEF Trigger, process, counts
<1>1. TypeOK'
  BY DEF IInv, TypeOK, Statuses, Stages, Live
<1>2. \A k \in Jobs : JobConsistent(k)'
  BY DEF IInv, TypeOK, JobConsistent, NotRunYet
<1>3. \A v \in Workers : QueueConsistent(v)'
  <2>1. \A v \in Workers : \A i \in 1 .. Len(queue[v]) : queue[v][i] \in Jobs \ {j}
    BY DEF IInv, TypeOK, QueueConsistent
  <2> QED
    BY <2>1 DEF IInv, TypeOK, QueueConsistent
<1>4. \A x \in writes' : WriteConsistent(x)'
  BY DEF IInv, TypeOK, WriteConsistent, Updates, Waits
<1>5. DoneIsEarned'
  BY DEF IInv, TypeOK, DoneIsEarned
<1>6. NoRowForgotten'
  BY DEF IInv, TypeOK, NoRowForgotten, Stale, Live
<1> QED
  BY <1>1, <1>2, <1>3, <1>4, <1>5, <1>6 DEF IInv

LEMMA CreateIInv ==
  ASSUME IInv, NEW j \in Jobs, Create(j)
  PROVE  IInv'
<1> USE DEF Create, counts
<1>0. owner[j] \in Workers /\ pc[j] = "create"
  BY DEF IInv, JobConsistent
<1>1. TypeOK'
  BY <1>0 DEF IInv, TypeOK, Statuses, Stages, Live
<1>2. \A k \in Jobs : JobConsistent(k)'
  BY DEF IInv, TypeOK, JobConsistent, NotRunYet
<1>3. \A v \in Workers : QueueConsistent(v)'
  <2>1. \A v \in Workers : \A i \in 1 .. Len(queue[v]) : queue[v][i] \in Jobs \ {j}
    BY DEF IInv, TypeOK, QueueConsistent
  <2>2. ASSUME NEW v \in Workers \ {owner[j]}
        PROVE  QueueConsistent(v)'
    BY <2>1, <2>2 DEF IInv, TypeOK, QueueConsistent
  <2>3. ASSUME NEW v \in Workers, v = owner[j]
        PROVE  QueueConsistent(v)'
    <3>1. queue'[v] = Append(queue[v], j) /\ queue[v] \in Seq(Jobs)
      BY <2>3 DEF IInv, TypeOK
    <3>2. PICK q \in Seq(Jobs) : q = queue[v]
      BY <3>1
    <3>3. /\ pc'[j] = "queued" /\ owner' = owner
          /\ \A k \in Jobs \ {j} : pc'[k] = pc[k]
      BY DEF IInv, TypeOK
    <3>4. \A i \in 1 .. Len(q) : pc[q[i]] = "queued" /\ owner[q[i]] = v /\ q[i] \in Jobs \ {j}
      BY <2>1, <3>2 DEF IInv, QueueConsistent
    <3>5. \A i, k \in 1 .. Len(q) : q[i] = q[k] => i = k
      BY <3>2 DEF IInv, QueueConsistent
    <3>6. /\ Len(queue'[v]) = Len(q) + 1 /\ Len(q) \in Nat
          /\ queue'[v][Len(q) + 1] = j
          /\ \A i \in 1 .. Len(q) : queue'[v][i] = q[i]
      BY <3>1, <3>2
    <3>7. \A i \in 1 .. Len(queue'[v]) : i = Len(q) + 1 \/ i \in 1 .. Len(q)
      BY <3>6
    <3>8. \A i \in 1 .. Len(queue'[v]) : pc'[queue'[v][i]] = "queued" /\ owner'[queue'[v][i]] = v
      BY <2>3, <3>3, <3>4, <3>6, <3>7
    <3>9. \A i, k \in 1 .. Len(queue'[v]) : queue'[v][i] = queue'[v][k] => i = k
      BY <3>4, <3>5, <3>6, <3>7
    <3> QED
      BY <3>8, <3>9 DEF QueueConsistent
  <2> QED
    BY <2>2, <2>3
<1>4. \A x \in writes' : WriteConsistent(x)'
  BY DEF IInv, TypeOK, WriteConsistent, Updates, Waits
<1>5. DoneIsEarned'
  BY DEF IInv, TypeOK, DoneIsEarned
<1>6. NoRowForgotten'
  BY DEF IInv, TypeOK, NoRowForgotten, Stale, Live
<1> QED
  BY <1>1, <1>2, <1>3, <1>4, <1>5, <1>6 DEF IInv

LEMMA CreateFailsIInv ==
  ASSUME IInv, NEW j \in Jobs, CreateFails(j)
  PROVE  IInv'
<1> USE DEF CreateFails, Shake, process
<1>1. TypeOK'
  BY DEF IInv, TypeOK, Stages
<1>2. \A k \in Jobs : JobConsistent(k)'
  BY DEF IInv, TypeOK, JobConsistent, NotRunYet
<1>3. \A v \in Workers : QueueConsistent(v)'
  <2>1. \A v \in Workers : \A i \in 1 .. Len(queue[v]) : queue[v][i] \in Jobs \ {j}
    BY DEF IInv, TypeOK, QueueConsistent
  <2> QED
    BY <2>1 DEF IInv, TypeOK, QueueConsistent
<1>4. \A x \in writes' : WriteConsistent(x)'
  BY DEF IInv, TypeOK, WriteConsistent, Updates, Waits
<1>5. DoneIsEarned'
  BY DEF IInv, TypeOK, DoneIsEarned
<1>6. NoRowForgotten'
  BY DEF IInv, TypeOK, NoRowForgotten, Stale, Live
<1> QED
  BY <1>1, <1>2, <1>3, <1>4, <1>5, <1>6 DEF IInv

LEMMA BeginIInv ==
  ASSUME IInv, NEW w \in Workers, Begin(w)
  PROVE  IInv'
<1> USE DEF process, counts
<1>0. PICK j \in Jobs :
        /\ j = Head(queue[w]) /\ Schedule(j, "first", "running")
        /\ pc[j] = "queued" /\ owner[j] = w
  <2>1. /\ queue[w] \in Seq(Jobs) /\ queue[w] # <<>>
        /\ Schedule(Head(queue[w]), "first", "running")
    BY DEF IInv, TypeOK, Begin
  <2>2. 1 \in 1 .. Len(queue[w]) /\ Head(queue[w]) = queue[w][1] /\ queue[w][1] \in Jobs
    BY <2>1
  <2> QED
    BY <2>1, <2>2 DEF IInv, QueueConsistent
<1>1. /\ mem' = [mem EXCEPT ![j] = "running"]
      /\ pc' = [pc EXCEPT ![j] = "first"]
      /\ writes' = writes \cup {update(j, "first", "running")}
      /\ queue' = [queue EXCEPT ![w] = Tail(@)]
      /\ UNCHANGED <<up, owner, row, outcome, counts, cut, shaken>>
  BY <1>0 DEF Begin, Schedule
<1>2. TypeOK'
  <2>1. update(j, "first", "running") \in Updates
    BY DEF update, Updates, Waits
  <2>2. Tail(queue[w]) \in Seq(Jobs)
    BY DEF IInv, TypeOK, Begin
  <2> QED
    BY <1>1, <2>1, <2>2 DEF IInv, TypeOK, Statuses, Stages, Live, InThread, Waits
<1>3. \A k \in Jobs : JobConsistent(k)'
  BY <1>0, <1>1 DEF IInv, TypeOK, JobConsistent, NotRunYet
<1>4. \A v \in Workers : QueueConsistent(v)'
  <2>1. /\ owner' = owner
        /\ \A k \in Jobs \ {j} : pc'[k] = pc[k]
    BY <1>1 DEF IInv, TypeOK
  <2>2. ASSUME NEW v \in Workers, v # w
        PROVE  QueueConsistent(v)'
    <3>1. queue'[v] = queue[v] /\ queue[v] \in Seq(Jobs)
      BY <1>1, <2>2 DEF IInv, TypeOK
    <3>2. \A i \in 1 .. Len(queue[v]) : queue[v][i] \in Jobs \ {j}
      BY <1>0, <2>2, <3>1 DEF IInv, QueueConsistent
    <3> QED
      BY <2>1, <3>1, <3>2 DEF IInv, QueueConsistent
  <2>3. QueueConsistent(w)'
    <3>1. PICK q \in Seq(Jobs) : q = queue[w] /\ q # <<>>
      BY DEF IInv, TypeOK, Begin
    <3>2. queue'[w] = Tail(q) /\ j = q[1]
      BY <1>0, <1>1, <3>1 DEF IInv, TypeOK
    <3>3. /\ \A i \in 1 .. Len(q) : pc[q[i]] = "queued" /\ owner[q[i]] = w /\ q[i] \in Jobs
          /\ \A i, k \in 1 .. Len(q) : q[i] = q[k] => i = k
      BY <3>1 DEF IInv, QueueConsistent
    <3>4. /\ \A i \in 1 .. Len(queue'[w]) : queue'[w][i] = q[i + 1] /\ i + 1 \in 1 .. Len(q)
          /\ 1 \in 1 .. Len(q)
      BY <3>1, <3>2
    <3>5. \A i \in 1 .. Len(queue'[w]) : queue'[w][i] \in Jobs \ {j}
      BY <3>2, <3>3, <3>4
    <3>6. \A i \in 1 .. Len(queue'[w]) : pc'[queue'[w][i]] = "queued" /\ owner'[queue'[w][i]] = w
      BY <2>1, <3>3, <3>4, <3>5
    <3>7. \A i, k \in 1 .. Len(queue'[w]) : queue'[w][i] = queue'[w][k] => i = k
      <4>1. ASSUME NEW i \in 1 .. Len(queue'[w]), NEW k \in 1 .. Len(queue'[w]),
                   queue'[w][i] = queue'[w][k]
            PROVE  i = k
        <5>1. i + 1 = k + 1
          BY <3>3, <3>4, <4>1
        <5> QED
          BY <5>1
      <4> QED
        BY <4>1
    <3> QED
      BY <3>6, <3>7 DEF QueueConsistent
  <2> QED
    BY <2>2, <2>3
<1>5. \A x \in writes' : WriteConsistent(x)'
  BY <1>0, <1>1 DEF IInv, TypeOK, WriteConsistent, Updates, Waits, update
<1>6. DoneIsEarned'
  BY <1>1 DEF IInv, TypeOK, DoneIsEarned
<1>7. NoRowForgotten'
  BY <1>1 DEF IInv, TypeOK, NoRowForgotten, Stale, Live, InThread, Waits
<1> QED
  BY <1>2, <1>3, <1>4, <1>5, <1>6, <1>7 DEF IInv

\* A job that leaves the pipeline was not waiting in a queue, and what it came to
\* decides the status of the UPDATE it schedules.
LEMMA PipelineIInv ==
  ASSUME IInv, NEW j \in Jobs, Pipeline(j) \/ PipelineRaises(j)
  PROVE  IInv'
<1> USE DEF process, counts
<1>0. PICK result \in Ends, stage \in {"final", "except"} :
        /\ pc[j] = "pipeline"
        /\ stage = "except" => result = "failed"
        /\ outcome' = [outcome EXCEPT ![j] = result]
        /\ mem' = [mem EXCEPT ![j] = result]
        /\ pc' = [pc EXCEPT ![j] = stage]
        /\ writes' = writes \cup {update(j, stage, result)}
        /\ UNCHANGED <<process, owner, row, counts, cut, shaken>>
  <2>1. CASE Pipeline(j)
    BY <2>1 DEF Pipeline, Schedule
  <2>2. CASE PipelineRaises(j)
    BY <2>2 DEF PipelineRaises, Schedule, Ends
  <2> QED
    BY <2>1, <2>2
<1>1. TypeOK'
  <2>1. update(j, stage, result) \in Updates
    BY DEF update, Updates, Waits
  <2> QED
    BY <1>0, <2>1 DEF IInv, TypeOK, Statuses, Stages, Live, InThread, Waits
<1>2. outcome[j] = "none"
  BY <1>0 DEF IInv, JobConsistent, NotRunYet
<1>3. \A k \in Jobs : JobConsistent(k)'
  BY <1>0 DEF IInv, TypeOK, JobConsistent, NotRunYet
<1>4. \A v \in Workers : QueueConsistent(v)'
  <2>1. \A v \in Workers : \A i \in 1 .. Len(queue[v]) : queue[v][i] \in Jobs \ {j}
    BY <1>0 DEF IInv, TypeOK, QueueConsistent
  <2> QED
    BY <1>0, <2>1 DEF IInv, TypeOK, QueueConsistent
<1>5. \A x \in writes' : WriteConsistent(x)'
  <2>1. ASSUME NEW x \in writes
        PROVE  WriteConsistent(x)'
    <3>1. x \in Updates /\ WriteConsistent(x)
      BY DEF IInv, TypeOK
    <3>2. CASE x.job = j
      <4>1. x.stage # "final"
        BY <1>2, <3>1, <3>2 DEF WriteConsistent, Updates, Ends
      <4>2. x.job \in shaken
        BY <1>0, <3>1, <3>2 DEF WriteConsistent, Updates, Waits
      <4> QED
        BY <1>0, <3>1, <4>1, <4>2 DEF WriteConsistent
    <3>3. CASE x.job # j
      BY <1>0, <3>1, <3>3 DEF IInv, TypeOK, WriteConsistent, Updates
    <3> QED
      BY <3>2, <3>3
  <2>2. WriteConsistent(update(j, stage, result))'
    BY <1>0 DEF IInv, TypeOK, WriteConsistent, update
  <2> QED
    BY <1>0, <2>1, <2>2
<1>6. DoneIsEarned'
  BY <1>0, <1>2 DEF IInv, TypeOK, DoneIsEarned
<1>7. NoRowForgotten'
  BY <1>0 DEF IInv, TypeOK, NoRowForgotten, Stale, Live, InThread, Waits
<1> QED
  BY <1>1, <1>3, <1>4, <1>5, <1>6, <1>7 DEF IInv

-----------------------------------------------------------------------------
\* The UPDATE x of job j lands: whether or not the thread still waits, the row is
\* what the stage of x says.
LEMMA LandIInv ==
  ASSUME IInv, NEW x \in writes, Land(x)
  PROVE  IInv'
<1> USE DEF process, counts
<1>0. PICK j \in Jobs, stage \in Waits, status \in {"running"} \cup Ends :
        x = [job |-> j, stage |-> stage, status |-> status]
  BY DEF IInv, TypeOK, Updates
<1>1. /\ x.job = j /\ x.stage = stage /\ x.status = status
      /\ writes' = writes \ {x}
      /\ row' = [row EXCEPT ![j] = status]
      /\ pc' = IF pc[j] = stage THEN [pc EXCEPT ![j] = After(stage)] ELSE pc
      /\ UNCHANGED <<process, owner, mem, outcome, counts, cut, shaken>>
  BY <1>0 DEF Land
<1>2. /\ stage = "first" => status = "running"
      /\ stage = "final" => status = outcome[j]
      /\ stage = "except" => status = "failed"
      /\ pc[j] = stage \/ j \in shaken
  BY <1>1 DEF IInv, WriteConsistent
<1>3. TypeOK'
  BY <1>1 DEF IInv, TypeOK, Statuses, Stages, Live, InThread, Waits, Ends, After
<1>4. \A k \in Jobs : JobConsistent(k)'
  BY <1>1, <1>2 DEF IInv, TypeOK, JobConsistent, NotRunYet, After, Waits, Ends
<1>5. \A v \in Workers : QueueConsistent(v)'
  <2>1. CASE pc[j] = stage
    <3>1. \A v \in Workers : \A i \in 1 .. Len(queue[v]) : queue[v][i] \in Jobs \ {j}
      BY <2>1 DEF IInv, TypeOK, QueueConsistent, Waits
    <3> QED
      BY <1>1, <2>1, <3>1 DEF IInv, TypeOK, QueueConsistent
  <2>2. CASE pc[j] # stage
    BY <1>1, <2>2 DEF IInv, QueueConsistent
  <2> QED
    BY <2>1, <2>2
<1>6. \A y \in writes' : WriteConsistent(y)'
  <2>1. ASSUME NEW y \in writes, y # x
        PROVE  WriteConsistent(y)'
    <3>1. WriteConsistent(y) /\ y \in Updates
      BY DEF IInv, TypeOK
    <3>2. CASE y.job = j /\ j \notin shaken
      <4>1. y.stage = stage
        BY <1>2, <3>1, <3>2 DEF WriteConsistent
      <4>2. y.status = status
        BY <1>2, <3>1, <3>2, <4>1 DEF WriteConsistent, Waits
      <4> QED
        BY <1>0, <2>1, <3>1, <3>2, <4>1, <4>2 DEF Updates
    <3>3. CASE y.job # j \/ j \in shaken
      BY <1>1, <3>1, <3>3 DEF IInv, TypeOK, WriteConsistent, Updates
    <3> QED
      BY <3>2, <3>3
  <2> QED
    BY <1>1, <2>1
<1>7. DoneIsEarned'
  BY <1>1, <1>2 DEF IInv, TypeOK, DoneIsEarned, Waits
<1>8. NoRowForgotten'
  BY <1>1, <1>2 DEF IInv, TypeOK, NoRowForgotten, Stale, Live, InThread, Waits, After, Ends
<1> QED
  BY <1>3, <1>4, <1>5, <1>6, <1>7, <1>8 DEF IInv

\* A database call of job j fails, and its thread sees that or is gone.
LEMMA ShakenIInv ==
  ASSUME IInv, NEW j \in Jobs, NEW rest \in SUBSET writes, Shake(j),
         Raise(j, rest) \/ (writes' = rest /\ UNCHANGED <<mem, pc>>),
         UNCHANGED <<process, owner, row, outcome, cut>>
  PROVE  IInv'
<1> USE DEF process
<1>0. j \in shaken' /\ shaken \subseteq shaken' /\ UNCHANGED crashes /\ faults' = faults + 1
  BY DEF Shake
<1>1. /\ \/ writes' = rest
         \/ writes' = rest \cup {update(j, "except", "failed")} /\ pc'[j] = "except"
      /\ mem' = mem \/ mem' = [mem EXCEPT ![j] = "failed"]
      /\ \/ pc' = pc
         \/ pc[j] \in Waits /\ pc' = [pc EXCEPT ![j] = "ended"]
         \/ pc[j] \in Waits /\ pc' = [pc EXCEPT ![j] = "except"]
  BY DEF Raise, IInv, TypeOK, Waits
<1>2. TypeOK'
  <2>1. update(j, "except", "failed") \in Updates
    BY DEF update, Updates, Waits, Ends
  <2>2. writes' \subseteq Updates
    BY <1>1, <2>1 DEF IInv, TypeOK
  <2>3. mem' \in [Jobs -> Statuses]
    BY <1>1 DEF IInv, TypeOK, Statuses, Ends
  <2>4. pc' \in [Jobs -> Stages]
    BY <1>1 DEF IInv, TypeOK, Stages, Live, InThread, Waits
  <2>5. shaken' \subseteq Jobs
    BY DEF IInv, TypeOK, Shake
  <2> QED
    BY <1>0, <2>2, <2>3, <2>4, <2>5 DEF IInv, TypeOK
<1>3. \A k \in Jobs : JobConsistent(k)'
  BY <1>0, <1>1 DEF IInv, TypeOK, JobConsistent, NotRunYet, Waits
<1>4. \A v \in Workers : QueueConsistent(v)'
  <2>1. CASE pc' = pc
    BY <2>1 DEF IInv, QueueConsistent
  <2>2. CASE pc[j] \in Waits
    <3>1. \A v \in Workers : \A i \in 1 .. Len(queue[v]) : queue[v][i] \in Jobs \ {j}
      BY <2>2 DEF IInv, TypeOK, QueueConsistent, Waits
    <3>2. \A k \in Jobs \ {j} : pc'[k] = pc[k]
      BY <1>1 DEF IInv, TypeOK
    <3> QED
      BY <3>1, <3>2 DEF IInv, QueueConsistent
  <2> QED
    BY <1>1, <2>1, <2>2
<1>5. \A x \in writes' : WriteConsistent(x)'
  <2>1. ASSUME NEW x \in rest
        PROVE  WriteConsistent(x)'
    <3>1. x \in Updates /\ WriteConsistent(x)
      BY DEF IInv, TypeOK
    <3>2. CASE x.job = j
      BY <1>0, <3>1, <3>2 DEF WriteConsistent
    <3>3. CASE x.job # j
      BY <1>0, <1>1, <3>1, <3>3 DEF IInv, TypeOK, WriteConsistent, Updates
    <3> QED
      BY <3>2, <3>3
  <2>2. CASE writes' = rest
    BY <2>1, <2>2
  <2>3. CASE writes' = rest \cup {update(j, "except", "failed")} /\ pc'[j] = "except"
    <3>1. WriteConsistent(update(j, "except", "failed"))'
      BY <2>3 DEF WriteConsistent, update
    <3> QED
      BY <2>1, <2>3, <3>1
  <2> QED
    BY <1>1, <2>2, <2>3
<1>6. DoneIsEarned'
  BY <1>1 DEF IInv, TypeOK, DoneIsEarned
<1>7. NoRowForgotten'
  BY <1>0, <1>1 DEF IInv, TypeOK, NoRowForgotten, Stale
<1> QED
  BY <1>2, <1>3, <1>4, <1>5, <1>6, <1>7 DEF IInv

LEMMA LandFailsIInv ==
  ASSUME IInv, NEW x \in writes, LandFails(x)
  PROVE  IInv'
<1>1. x.job \in Jobs /\ writes \ {x} \in SUBSET writes
  BY DEF IInv, TypeOK, Updates
<1> QED
  BY <1>1, ShakenIInv DEF LandFails

LEMMA TimesOutIInv ==
  ASSUME IInv, NEW j \in Jobs, TimesOut(j)
  PROVE  IInv'
BY ShakenIInv DEF TimesOut

LEMMA CrashIInv ==
  ASSUME IInv, NEW w \in Workers, Crash(w)
  PROVE  IInv'
<1> DEFINE mine == {j \in Jobs : owner[j] = w}
<1>0. /\ queue' = [queue EXCEPT ![w] = <<>>]
      /\ mem' = [j \in Jobs |-> IF j \in mine THEN "none" ELSE mem[j]]
      /\ pc' = [j \in Jobs |-> IF j \in mine /\ pc[j] \in Live THEN "dead" ELSE pc[j]]
      /\ writes' = writes \ Scheduled(w)
      /\ cut' = cut \cup {j \in mine : pc[j] \in Live}
      /\ up' = up \ {w} /\ crashes' = crashes + 1
      /\ UNCHANGED <<owner, row, outcome, faults, shaken>>
  BY DEF Crash
<1>1. TypeOK'
  BY <1>0 DEF IInv, TypeOK, Statuses, Stages
<1>2. \A k \in Jobs : JobConsistent(k)'
  BY <1>0 DEF IInv, TypeOK, JobConsistent, NotRunYet, Live, InThread, Waits
<1>3. \A v \in Workers : QueueConsistent(v)'
  <2>1. ASSUME NEW v \in Workers, v # w
        PROVE  QueueConsistent(v)'
    <3>1. queue'[v] = queue[v] /\ queue[v] \in Seq(Jobs) /\ owner' = owner
      BY <1>0, <2>1 DEF IInv, TypeOK
    <3>2. \A i \in 1 .. Len(queue[v]) : queue[v][i] \in Jobs \ mine
      BY <2>1, <3>1 DEF IInv, QueueConsistent
    <3>3. \A k \in Jobs \ mine : pc'[k] = pc[k]
      BY <1>0
    <3> QED
      BY <3>1, <3>2, <3>3 DEF IInv, QueueConsistent
  <2>2. QueueConsistent(w)'
    <3>1. queue'[w] = <<>>
      BY <1>0 DEF IInv, TypeOK
    <3> QED
      BY <3>1 DEF QueueConsistent
  <2> QED
    BY <2>1, <2>2
<1>4. \A x \in writes' : WriteConsistent(x)'
  BY <1>0 DEF IInv, TypeOK, WriteConsistent, Scheduled, Updates
<1>5. DoneIsEarned'
  BY <1>0 DEF IInv, DoneIsEarned
<1>6. NoRowForgotten'
  BY <1>0 DEF IInv, NoRowForgotten, Stale
<1> QED
  BY <1>1, <1>2, <1>3, <1>4, <1>5, <1>6 DEF IInv

-----------------------------------------------------------------------------
LEMMA NextIInv ==
  ASSUME IInv, [Next]_vars
  PROVE  IInv'
<1>1. ASSUME NEW w \in Workers, Boot(w) \/ BootUnrecovered(w)
      PROVE  IInv'
  BY <1>1, BootIInv
<1>2. ASSUME NEW w \in Workers, Begin(w)
      PROVE  IInv'
  BY <1>2, BeginIInv
<1>3. ASSUME NEW w \in Workers, Crash(w)
      PROVE  IInv'
  BY <1>3, CrashIInv
<1>4. ASSUME NEW w \in Workers, NEW j \in Jobs, Trigger(w, j)
      PROVE  IInv'
  BY <1>4, TriggerIInv
<1>5. ASSUME NEW j \in Jobs, Serve(j)
      PROVE  IInv'
  BY <1>5, CreateIInv, CreateFailsIInv DEF Serve
<1>6. ASSUME NEW j \in Jobs, Thread(j)
      PROVE  IInv'
  BY <1>6, PipelineIInv, TimesOutIInv DEF Thread
<1>7. ASSUME NEW j \in Jobs, Loop(j)
      PROVE  IInv'
  BY <1>7, LandIInv, LandFailsIInv DEF Loop
<1>8. CASE UNCHANGED vars
  BY <1>8 DEF vars, process, counts, IInv, TypeOK, JobConsistent, QueueConsistent,
              WriteConsistent, DoneIsEarned, NoRowForgotten, Stale
<1> QED
  BY <1>1, <1>2, <1>3, <1>4, <1>5, <1>6, <1>7, <1>8 DEF Next

\* The inductive invariant, for every number of workers, jobs, faults and crashes.
THEOREM InductiveInvariant == Spec => []IInv
<1>1. IInv /\ [Next]_vars => IInv'
  BY NextIInv
<1> QED
  BY <1>1, InitIInv, PTL DEF Spec

\* Every variable keeps to its type (TypeOK).
THEOREM TypeCorrect == Spec => []TypeOK
<1>1. IInv => TypeOK
  BY DEF IInv
<1> QED
  BY <1>1, InductiveInvariant, PTL

\* Nothing reports a job done that the pipeline did not finish (DoneIsEarned),
\* however many UPDATEs are late and whatever other workers' startups write.
THEOREM DoneEarned == Spec => []DoneIsEarned
<1>1. IInv => DoneIsEarned
  BY DEF IInv
<1> QED
  BY <1>1, InductiveInvariant, PTL

\* Every unfinished row has somebody who will change it (NoRowForgotten), unless
\* a database call of its job failed.
THEOREM RowsRemembered == Spec => []NoRowForgotten
<1>1. IInv => NoRowForgotten
  BY DEF IInv
<1> QED
  BY <1>1, InductiveInvariant, PTL

\* The row of a job whose thread is through says what the pipeline came to
\* (RowIsOutcome), unless a database call of the job failed.
THEOREM RowsAreOutcomes == Spec => []RowIsOutcome
<1>1. IInv => RowIsOutcome
  BY DEF IInv, JobConsistent, RowIsOutcome, Settled
<1> QED
  BY <1>1, InductiveInvariant, PTL

-----------------------------------------------------------------------------
\* With one worker and a database that answers, the place of a job's thread tells
\* what its row says, and nobody waits in a process that is down.
RowFollows(j) ==
  /\ pc[j] \in {"none", "create"} => row[j] = "none"
  /\ pc[j] \in {"queued", "first"} => row[j] = "pending"
  /\ pc[j] \in {"pipeline", "final", "except"} => row[j] = "running"
  /\ pc[j] \in Live => owner[j] \in up

OneInv ==
  /\ shaken = {}
  /\ \A j \in Jobs : RowFollows(j)

OneWorker == \A v, w \in Workers : v = w

LEMMA NothingFails ==
  ASSUME MaxFaults = 0, TypeOK
  PROVE  /\ \A w \in Workers : ~BootUnrecovered(w)
         /\ \A j \in Jobs : ~Shake(j)
BY DEF TypeOK, BootUnrecovered, Shake

\* What a step does with row when nothing fails.
LEMMA LedgerStep ==
  ASSUME MaxFaults = 0, IInv, OneInv, [Next]_vars
  PROVE  \/ \E w \in Workers : Boot(w)
         \/ row' = row
         \/ \E j \in Jobs : Create(j)
         \/ \E x \in writes : Land(x) /\ pc[x.job] = x.stage
<1>1. ASSUME NEW j \in Jobs, Loop(j)
      PROVE  \E x \in writes : Land(x) /\ pc[x.job] = x.stage
  <2>1. PICK x \in writes : Land(x) \/ LandFails(x)
    BY <1>1 DEF Loop
  <2>2. x.job \in Jobs /\ WriteConsistent(x)
    BY DEF IInv, TypeOK, Updates
  <2>3. Land(x)
    BY <2>1, <2>2, NothingFails DEF IInv, LandFails
  <2> QED
    BY <2>2, <2>3 DEF OneInv, WriteConsistent
<1>2. ASSUME NEW j \in Jobs, Serve(j) \/ Thread(j)
      PROVE  Create(j) \/ row' = row
  BY <1>2, NothingFails DEF IInv, Serve, Thread, CreateFails, Pipeline, PipelineRaises, TimesOut
<1>3. ASSUME NEW w \in Workers, Begin(w) \/ Crash(w) \/ BootUnrecovered(w)
      PROVE  row' = row
  BY <1>3 DEF Begin, Crash, BootUnrecovered
<1>4. ASSUME NEW w \in Workers, NEW j \in Jobs, Trigger(w, j)
      PROVE  row' = row
  BY <1>4 DEF Trigger
<1> QED
  BY <1>1, <1>2, <1>3, <1>4 DEF Next, vars

LEMMA InitOneInv == Init => OneInv
BY DEF Init, OneInv, RowFollows, Live, InThread, Waits

LEMMA NextOneInv ==
  ASSUME MaxFaults = 0, OneWorker, IInv, OneInv, [Next]_vars
  PROVE  OneInv'
<1> USE DEF process, counts, OneInv, RowFollows
<1>0. /\ TypeOK /\ \A j \in Jobs : RowFollows(j) /\ ~Shake(j)
      /\ \A w \in Workers : ~BootUnrecovered(w)
  BY NothingFails DEF IInv
<1>1. ASSUME NEW w \in Workers, Boot(w)
      PROVE  OneInv'
  <2>1. /\ UNCHANGED <<owner, pc, shaken>> /\ up' = up \cup {w} /\ w \notin up
        /\ \A j \in Jobs : row'[j] = row[j] \/ Stale(j)
    BY <1>1 DEF Boot, recover_stale_jobs
  <2>2. \A j \in Jobs : pc[j] \notin Live
    BY <1>0, <2>1 DEF OneWorker, TypeOK
  <2> QED
    BY <1>0, <2>1, <2>2 DEF Live, InThread, Waits, Stale
<1>2. ASSUME NEW w \in Workers, Begin(w)
      PROVE  OneInv'
  <2>1. PICK j \in Jobs : /\ pc[j] = "queued"
                         /\ pc' = [pc EXCEPT ![j] = "first"]
                         /\ UNCHANGED <<up, owner, row, shaken>>
    <3>1. /\ queue[w] \in Seq(Jobs) /\ queue[w] # <<>>
      BY <1>2 DEF IInv, TypeOK, Begin
    <3>2. 1 \in 1 .. Len(queue[w]) /\ Head(queue[w]) = queue[w][1] /\ queue[w][1] \in Jobs
      BY <3>1
    <3>3. pc[Head(queue[w])] = "queued"
      BY <3>2 DEF IInv, QueueConsistent
    <3> QED
      BY <1>2, <3>2, <3>3 DEF Begin, Schedule
  <2> QED
    BY <1>0, <2>1 DEF TypeOK, Live, InThread, Waits
<1>3. ASSUME NEW w \in Workers, Crash(w)
      PROVE  OneInv'
  <2>1. /\ \A j \in Jobs : pc'[j] = "dead" \/ (pc'[j] = pc[j] /\ (owner[j] # w \/ pc[j] \notin Live))
        /\ up' = up \ {w} /\ UNCHANGED <<owner, row, shaken>>
    BY <1>3 DEF Crash
  <2> QED
    BY <1>0, <2>1 DEF Live, InThread, Waits
<1>4. ASSUME NEW w \in Workers, NEW j \in Jobs, Trigger(w, j)
      PROVE  OneInv'
  BY <1>0, <1>4 DEF Trigger, TypeOK, Live, InThread, Waits
<1>5. ASSUME NEW j \in Jobs, Create(j)
      PROVE  OneInv'
  BY <1>0, <1>5 DEF Create, TypeOK, Live, InThread, Waits
<1>6. ASSUME NEW j \in Jobs, Pipeline(j) \/ PipelineRaises(j)
      PROVE  OneInv'
  BY <1>0, <1>6 DEF Pipeline, PipelineRaises, Schedule, TypeOK, Live, InThread, Waits
<1>7. ASSUME NEW x \in writes, Land(x)
      PROVE  OneInv'
  <2>1. /\ x.job \in Jobs /\ x.stage \in Waits /\ pc[x.job] = x.stage
        /\ x.stage = "first" => x.status = "running"
    BY DEF IInv, TypeOK, Updates, WriteConsistent
  <2> QED
    BY <1>0, <1>7, <2>1 DEF Land, After, TypeOK, Live, InThread, Waits
<1>8. CASE UNCHANGED vars
  BY <1>0, <1>8 DEF vars, Live
<1>9. ASSUME NEW j \in Jobs, TimesOut(j) \/ CreateFails(j)
      PROVE  FALSE
  BY <1>0, <1>9 DEF TimesOut, CreateFails
<1>10. ASSUME NEW x \in writes, LandFails(x)
       PROVE  FALSE
  BY <1>0, <1>10 DEF LandFails, TypeOK, Updates
<1> QED
  BY <1>0, <1>1, <1>2, <1>3, <1>4, <1>5, <1>6, <1>7, <1>8, <1>9, <1>10
  DEF Next, Serve, Thread, Loop

LEMMA InitLedger == Init => L!Init
BY DEF Init, L!Init

LEMMA NextLedger ==
  ASSUME MaxFaults = 0, OneWorker, IInv, OneInv, [Next]_vars
  PROVE  [L!Next]_row
<1>1. ASSUME NEW w \in Workers, Boot(w)
      PROVE  L!Next
  BY <1>1 DEF Boot, recover_stale_jobs, Stale, L!Next, L!Restart, L!Unfinished
<1>2. ASSUME NEW j \in Jobs, Create(j)
      PROVE  L!Next
  <2>1. row[j] = "none"
    BY <1>2 DEF Create, OneInv, RowFollows
  <2> QED
    BY <1>2, <2>1 DEF Create, L!Next, L!Create, L!Move
<1>3. ASSUME NEW x \in writes, Land(x), pc[x.job] = x.stage
      PROVE  L!Next
  <2>1. PICK j \in Jobs : j = x.job
    BY DEF IInv, TypeOK, Updates
  <2>2. /\ x.stage \in Waits /\ x.status \in {"running"} \cup Ends
        /\ x.stage = "first" <=> x.status = "running"
    <3>1. x \in Updates /\ WriteConsistent(x)
      BY DEF IInv, TypeOK
    <3>2. outcome[j] \in {"none"} \cup Ends
      BY DEF IInv, TypeOK
    <3> QED
      BY <2>1, <3>1, <3>2 DEF WriteConsistent, Updates, Waits, Ends
  <2>3. row' = [row EXCEPT ![j] = x.status] /\ pc[j] = x.stage
    BY <1>3, <2>1 DEF Land
  <2>4. CASE x.stage = "first"
    BY <2>2, <2>3, <2>4 DEF OneInv, RowFollows, L!Next, L!Start, L!Move
  <2>5. CASE x.stage # "first"
    BY <2>2, <2>3, <2>5 DEF OneInv, RowFollows, Waits, Ends, L!Next, L!End, L!Move
  <2> QED
    BY <2>4, <2>5
<1> QED
  BY <1>1, <1>2, <1>3, LedgerStep

\* With one worker and a database that answers, the table ingestion_jobs is the
\* ledger of JobLedger (LedgerOfOneWorker), for every number of jobs and crashes.
THEOREM Ledger ==
  ASSUME MaxFaults = 0, OneWorker
  PROVE  Spec => LedgerOfOneWorker
<1>1. IInv /\ OneInv /\ [Next]_vars => OneInv' /\ [L!Next]_row
  BY NextOneInv, NextLedger
<1> QED
  BY <1>1, InitOneInv, InitLedger, InductiveInvariant, PTL DEF Spec, LedgerOfOneWorker, L!Spec
=============================================================================
