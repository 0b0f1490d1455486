--------------------------- MODULE AssistantProofs ---------------------------
(***************************************************************************)
(* The safety properties of Assistant, for any requests, sessions and      *)
(* questions and any limit of the history.  What a request has queued      *)
(* tells what of it is saved; the invariant keeps the two together.        *)
(***************************************************************************)
EXTENDS Assistant, SequenceTheorems, FiniteSetTheorems, WellFoundedInduction, TLAPS

ReportRecord ==
  [answered : SUBSET Checks, positive : SUBSET Checks, authentic : BOOLEAN, form : Forms]

\* The lists of tasks a request can hold: an exchange with its answer for the
\* cache, one that came from the cache, and a report.
CachedExchange == {<<"user", "assistant", "cache">>, <<"assistant", "cache">>, <<"cache">>}
ServedExchange == {<<"user", "assistant">>, <<"assistant">>}
TaskLists      == CachedExchange \cup ServedExchange \cup {<<"report">>, <<>>}

RequestRecord ==
  [pc : Steps, kind : Kinds \cup {None}, sid : Sessions \cup {None}, q : Questions \cup {None},
   vec : BOOLEAN, tries : 0 .. MaxRetries, base : Nat, past : SUBSET Nat, retrieved : BOOLEAN,
   reply : Requests \cup {None}, tasks : TaskLists, cut : BOOLEAN, report : ReportRecord \cup {None}]

TypeInv ==
  /\ req \in [Requests -> RequestRecord]
  /\ history \in Seq([by : Requests, role : {"user", "assistant"}])
  /\ cache \subseteq [q : Questions, reply : Requests, at : 0 .. MaxNow]
  /\ reports \subseteq [by : Requests, form : Forms]
  /\ given \subseteq [by : Requests, form : Forms]
  /\ up \subseteq Services
  /\ now \in 0 .. MaxNow
  /\ outages \in 0 .. MaxOutages
  /\ kills \in 0 .. MaxKills

Whole == {"user", "assistant"}

\* A request r with the locals c is about a question, once it is one.
AboutQuestion(r, c) ==
  /\ c.kind \in KindsOf[r] \cup {None}
  /\ c.pc \in {"embed", "lookup", "load"} \cup Streaming \/ c.tasks \in CachedExchange \cup ServedExchange
       => c.q \in Questions

\* The answer is its own when the cache is to have it.
ReplyConsistent(r, c) ==
  /\ c.pc \notin {"answered", "closing", "tasks", "over"} => c.reply = None
  /\ c.pc = "answered" => c.reply \in {r, None}
  /\ c.pc = "closing" /\ c.tasks = <<>> => c.reply = None
  /\ c.tasks \in CachedExchange => c.reply = r
  /\ c.tasks \in ServedExchange => c.reply # None
  /\ c.tasks = <<"report">> => c.reply = None

\* What is queued tells what is saved.
TasksConsistent(r, c) ==
  /\ c.pc \notin {"closing", "tasks"} => c.tasks = <<>>
  /\ c.pc = "tasks" => c.tasks # <<>>
  /\ c.pc = "closing" => c.tasks \in {<<>>, <<"user", "assistant">>, <<"user", "assistant", "cache">>}
  /\ c.tasks = <<"report">> => c.report \in ReportRecord
  /\ c.pc = "idle" => ~c.cut

SavedConsistent(r, c) ==
  /\ c.pc \notin {"tasks", "over"} \/ c.reply = None => SavedRoles(r) = {}
  /\ c.tasks \in {<<"user", "assistant", "cache">>, <<"user", "assistant">>} => SavedRoles(r) = {}
  /\ c.tasks \in {<<"assistant", "cache">>, <<"assistant">>} => SavedRoles(r) = {"user"}
  /\ c.tasks = <<"cache">> => SavedRoles(r) = Whole
  /\ c.pc = "over" /\ ~c.cut /\ c.reply # None => SavedRoles(r) = Whole

ReportConsistent(c) ==
  c.report # None => (c.report.authentic <=> Cardinality(c.report.positive) >= 2)

\* The context misses only what newer messages replaced, or what came later.
ContextConsistent(c) ==
  /\ c.past \subseteq DOMAIN history
  /\ c.base \in 0 .. Len(history)
  /\ c.pc \in Streaming /\ c.tasks = <<>> =>
       \A i \in Rows(c.sid) :
         i <= c.base /\ i \notin c.past =>
           /\ Cardinality(c.past) >= HistoryLimit
           /\ \A j \in c.past : j > i

Consistent(r, c) ==
  /\ AboutQuestion(r, c)
  /\ ReplyConsistent(r, c)
  /\ TasksConsistent(r, c)
  /\ SavedConsistent(r, c)
  /\ ReportConsistent(c)
  /\ ContextConsistent(c)

\* The table holds no row twice, and no answer before its question.
HistoryConsistent ==
  /\ \A i \in DOMAIN history : history[i].role = "assistant" =>
       \E j \in DOMAIN history : j < i /\ history[j] = [by |-> history[i].by, role |-> "user"]
  /\ \A i, j \in DOMAIN history : history[i] = history[j] => i = j

\* The request whose answer is in the cache is over, with its exchange saved.
CacheConsistent ==
  /\ \A e \in cache : At(e.reply, "over") /\ SavedRoles(e.reply) = Whole
  /\ CachedOnce

\* The inductive invariant.
IInv ==
  /\ TypeInv
  /\ \A r \in Requests : Consistent(r, req[r])
  /\ HistoryConsistent
  /\ CacheConsistent

\* A request may go from its locals to c: c agrees with what is stored, stays
\* in its session once something is saved, and is over if it was.
MayBecome(r, c) ==
  /\ c \in RequestRecord
  /\ Consistent(r, c)
  /\ c.sid = req[r].sid \/ SavedRoles(r) = {}
  /\ At(r, "over") => c.pc = "over"

-----------------------------------------------------------------------------
\* Tasks and rows.

LEMMA Lists ==
  /\ <<>> # <<"report">>
  /\ <<>> \notin CachedExchange \cup ServedExchange
  /\ <<"report">> \notin CachedExchange \cup ServedExchange
  /\ CachedExchange \cap ServedExchange = {}
  /\ <<"user", "assistant", "cache">> # <<"assistant", "cache">>
  /\ <<"user", "assistant", "cache">> # <<"cache">>
  /\ <<"assistant", "cache">> # <<"cache">>
  /\ <<"user", "assistant">> # <<"assistant">>
  /\ <<"user", "assistant", "cache">> \notin ServedExchange \cup {<<>>, <<"assistant">>, <<"report">>}
  /\ <<>> \notin {<<"assistant", "cache">>, <<"assistant">>, <<"cache">>}
BY DEF CachedExchange, ServedExchange

\* Every task of a list by its head, and what is left after it.
LEMMA Tails ==
  ASSUME NEW l \in TaskLists, l # <<>>
  PROVE  /\ Head(l) = "user" =>
              \/ l = <<"user", "assistant", "cache">> /\ Tail(l) = <<"assistant", "cache">>
              \/ l = <<"user", "assistant">> /\ Tail(l) = <<"assistant">>
         /\ Head(l) = "assistant" =>
              \/ l = <<"assistant", "cache">> /\ Tail(l) = <<"cache">>
              \/ l = <<"assistant">> /\ Tail(l) = <<>>
         /\ Head(l) = "cache" => l = <<"cache">> /\ Tail(l) = <<>>
         /\ Head(l) = "report" => l = <<"report">> /\ Tail(l) = <<>>
<1>1. CASE l = <<"user", "assistant", "cache">>
  BY <1>1
<1>2. CASE l = <<"assistant", "cache">>
  BY <1>2
<1>3. CASE l = <<"cache">>
  BY <1>3
<1>4. CASE l = <<"user", "assistant">>
  BY <1>4
<1>5. CASE l = <<"assistant">>
  BY <1>5
<1>6. CASE l = <<"report">>
  BY <1>6
<1>7. QED
  BY <1>1, <1>2, <1>3, <1>4, <1>5, <1>6 DEF TaskLists, CachedExchange, ServedExchange

LEMMA RowType ==
  ASSUME TypeInv, NEW i \in DOMAIN history
  PROVE  history[i] \in [by : Requests, role : {"user", "assistant"}]
<1> DEFINE Row == [by : Requests, role : {"user", "assistant"}]
<1>1. history \in Seq(Row)
  BY DEF TypeInv
<1> HIDE DEF Row
<1>2. DOMAIN history = 1 .. Len(history)
  BY <1>1, LenProperties
<1>3. history[i] \in Row
  BY <1>1, <1>2, ElementOfSeq
<1>4. QED
  BY <1>3 DEF Row

\* The rows of every session stay as they are when no request with rows changes
\* its session.
LEMMA SameRows ==
  ASSUME TypeInv, UNCHANGED history,
         \A r \in Requests : req'[r].sid = req[r].sid \/ SavedRoles(r) = {}
  PROVE  \A s : Rows(s)' = Rows(s)
<1>1. ASSUME NEW i \in DOMAIN history
      PROVE  req'[history[i].by].sid = req[history[i].by].sid
  <2>1. history[i].by \in Requests /\ history[i].role \in SavedRoles(history[i].by)
    BY RowType DEF SavedRoles
  <2>2. QED
    BY <2>1
<1>2. QED
  BY <1>1 DEF Rows

LEMMA SameSaved ==
  ASSUME UNCHANGED history
  PROVE  \A r : SavedRoles(r)' = SavedRoles(r)
BY DEF SavedRoles

-----------------------------------------------------------------------------
\* A step that leaves the history alone.

LEMMA Moves ==
  ASSUME IInv, UNCHANGED history,
         req' = [r \in Requests |-> req'[r]],
         \A r \in Requests : \E c : req'[r] = c /\ MayBecome(r, c)
  PROVE  /\ req' \in [Requests -> RequestRecord]
         /\ \A r \in Requests : Consistent(r, req[r])'
         /\ HistoryConsistent'
         /\ \A e \in cache : At(e.reply, "over")' /\ SavedRoles(e.reply)' = Whole
<1>1. req' \in [Requests -> RequestRecord]
  <2>1. \A r \in Requests : req'[r] \in RequestRecord
    BY DEF MayBecome
  <2>2. QED
    BY <2>1
<1>2. \A s : Rows(s)' = Rows(s)
  <2>1. \A r \in Requests : req'[r].sid = req[r].sid \/ SavedRoles(r) = {}
    BY DEF MayBecome
  <2>2. QED
    BY <2>1, SameRows DEF IInv
<1>3. \A r : SavedRoles(r)' = SavedRoles(r)
  BY SameSaved
<1>4. ASSUME NEW r \in Requests
      PROVE  Consistent(r, req[r])'
  <2>1. PICK c : req'[r] = c /\ MayBecome(r, c)
    OBVIOUS
  <2>2. Consistent(r, c)
    BY <2>1 DEF MayBecome
  <2>3. AboutQuestion(r, req[r])' /\ ReplyConsistent(r, req[r])' /\ TasksConsistent(r, req[r])'
        /\ ReportConsistent(req[r])'
    BY <2>1, <2>2 DEF Consistent, AboutQuestion, ReplyConsistent, TasksConsistent, ReportConsistent
  <2>4. SavedConsistent(r, req[r])'
    BY <2>1, <2>2, <1>3 DEF Consistent, SavedConsistent
  <2>5. ContextConsistent(req[r])'
    BY <2>1, <2>2, <1>2 DEF Consistent, ContextConsistent
  <2>6. QED
    BY <2>3, <2>4, <2>5 DEF Consistent
<1>5. HistoryConsistent'
  BY DEF IInv, HistoryConsistent
<1>6. ASSUME NEW e \in cache
      PROVE  At(e.reply, "over")' /\ SavedRoles(e.reply)' = Whole
  <2>1. e.reply \in Requests /\ At(e.reply, "over") /\ SavedRoles(e.reply) = Whole
    BY DEF IInv, TypeInv, CacheConsistent
  <2>2. req'[e.reply].pc = "over"
    BY <2>1 DEF MayBecome
  <2>3. QED
    BY <2>1, <2>2, <1>3 DEF At
<1>7. QED
  BY <1>1, <1>4, <1>5, <1>6

\* A request stays what it is.
LEMMA Stays ==
  ASSUME IInv, NEW r \in Requests
  PROVE  MayBecome(r, req[r])
BY DEF IInv, TypeInv, MayBecome, At

LEMMA MovesOne ==
  ASSUME IInv, NEW r \in Requests, NEW c, Becomes(r, c), MayBecome(r, c), UNCHANGED history
  PROVE  /\ req' \in [Requests -> RequestRecord]
         /\ \A q \in Requests : Consistent(q, req[q])'
         /\ HistoryConsistent'
         /\ \A e \in cache : At(e.reply, "over")' /\ SavedRoles(e.reply)' = Whole
<1>1. req' = [q \in Requests |-> IF q = r THEN c ELSE req[q]]
  BY DEF Becomes, IInv, TypeInv
<1>2. \A q \in Requests : \E d : req'[q] = d /\ MayBecome(q, d)
  BY <1>1, Stays
<1>3. QED
  BY <1>1, <1>2, Moves

\* A step of one request that leaves the stores alone.
LEMMA Local ==
  ASSUME IInv, NEW r \in Requests, NEW c, Becomes(r, c), MayBecome(r, c),
         UNCHANGED stores, UNCHANGED world
  PROVE  IInv'
<1>1. /\ req' \in [Requests -> RequestRecord]
      /\ \A q \in Requests : Consistent(q, req[q])'
      /\ HistoryConsistent'
      /\ \A e \in cache : At(e.reply, "over")' /\ SavedRoles(e.reply)' = Whole
  BY MovesOne DEF stores
<1>2. TypeInv'
  BY <1>1 DEF IInv, TypeInv, stores, world
<1>3. CacheConsistent'
  BY <1>1 DEF IInv, CacheConsistent, CachedOnce, stores
<1>4. QED
  BY <1>1, <1>2, <1>3 DEF IInv

-----------------------------------------------------------------------------
\* What a request becomes.

\* Before its answer.
Thinking == {"embed", "lookup", "load", "plan", "embed again", "search", "tool", "respond"}

LEMMA Forward ==
  ASSUME IInv, NEW r \in Requests, req[r].pc \in Thinking, NEW c \in RequestRecord,
         \/ c.pc \in Thinking /\ c.reply = None
         \/ c.pc = "answered" /\ c.reply \in {r, None},
         c.kind = req[r].kind, c.sid = req[r].sid, c.q = req[r].q, c.base = req[r].base,
         c.past = req[r].past, c.tasks = req[r].tasks, c.report = req[r].report,
         req[r].pc \in Streaming \/ c.pc \notin Streaming
  PROVE  MayBecome(r, c)
<1>1. Consistent(r, req[r]) /\ c.tasks = <<>> /\ c.pc \in Steps
  BY DEF IInv, Consistent, TasksConsistent, Thinking, Steps, Streaming
<1>2. AboutQuestion(r, c) /\ ReplyConsistent(r, c) /\ TasksConsistent(r, c)
  BY <1>1, Lists DEF Consistent, AboutQuestion, ReplyConsistent, TasksConsistent, Thinking, Streaming
<1>3. SavedRoles(r) = {}
  BY <1>1 DEF Consistent, SavedConsistent, Thinking
<1>4. SavedConsistent(r, c)
  BY <1>1, <1>3, Lists DEF SavedConsistent, Thinking, CachedExchange, ServedExchange
<1>5. ReportConsistent(c) /\ ContextConsistent(c)
  BY <1>1 DEF Consistent, ReportConsistent, ContextConsistent
<1>6. QED
  BY <1>1, <1>2, <1>4, <1>5 DEF MayBecome, Consistent, At, Thinking

LEMMA OverType ==
  ASSUME NEW d \in RequestRecord, AssistantAssumption
  PROVE  /\ Over(d) \in RequestRecord
         /\ Over(d).pc = "over" /\ Over(d).tasks = <<>> /\ Over(d).past = {}
         /\ Over(d).base = 0 /\ Over(d).report = None
         /\ Over(d).kind = d.kind /\ Over(d).sid = d.sid /\ Over(d).reply = d.reply
         /\ Over(d).cut = d.cut
<1>1. MaxRetries \in Nat
  BY DEF AssistantAssumption
<1>2. "over" \in Steps /\ <<>> \in TaskLists /\ 0 \in 0 .. MaxRetries
  BY <1>1 DEF Steps, TaskLists
<1>3. QED
  BY <1>2 DEF RequestRecord, Over

LEMMA Ends ==
  ASSUME IInv, NEW r \in Requests, NEW d \in RequestRecord,
         d.kind \in KindsOf[r] \cup {None}, d.sid = req[r].sid, d.reply = req[r].reply,
         d.cut \/ d.reply = None \/ SavedRoles(r) = Whole
  PROVE  MayBecome(r, Over(d))
<1> DEFINE c == Over(d)
<1>1. /\ c \in RequestRecord
      /\ c.pc = "over" /\ c.tasks = <<>> /\ c.past = {} /\ c.base = 0 /\ c.report = None
      /\ c.kind = d.kind /\ c.sid = d.sid /\ c.reply = d.reply /\ c.cut = d.cut
  BY OverType, AssistantAssumption
<1> HIDE DEF c
<1>2. Consistent(r, req[r]) /\ history \in Seq([by : Requests, role : {"user", "assistant"}])
  BY DEF IInv, TypeInv
<1>3. AboutQuestion(r, c) /\ ReplyConsistent(r, c) /\ TasksConsistent(r, c)
  BY <1>1, Lists DEF AboutQuestion, ReplyConsistent, TasksConsistent, Streaming
<1>4. SavedConsistent(r, c)
  BY <1>1, <1>2, Lists DEF Consistent, SavedConsistent, CachedExchange, ServedExchange
<1>5. ReportConsistent(c) /\ ContextConsistent(c)
  <2>1. 0 \in 0 .. Len(history)
    BY <1>2, LenProperties
  <2>2. QED
    BY <1>1, <2>1 DEF ReportConsistent, ContextConsistent, Streaming
<1>6. MayBecome(r, c)
  BY <1>1, <1>3, <1>4, <1>5 DEF MayBecome, Consistent
<1>7. QED
  BY <1>6 DEF c

LEMMA Types ==
  ASSUME IInv, NEW r \in Requests
  PROVE  req[r] \in RequestRecord /\ Consistent(r, req[r])
BY DEF IInv, TypeInv

LEMMA GoesType ==
  ASSUME IInv, NEW r \in Requests, NEW pc \in Steps
  PROVE  /\ Goes(r, pc) \in RequestRecord
         /\ Goes(r, pc).pc = pc
         /\ Goes(r, pc).tries = 0
         /\ Goes(r, pc) = [req[r] EXCEPT !.pc = pc, !.tries = 0]
<1>1. 0 \in 0 .. MaxRetries
  BY AssistantAssumption DEF AssistantAssumption
<1>2. req[r] \in RequestRecord
  BY Types
<1>3. QED
  BY <1>1, <1>2 DEF RequestRecord, Goes

-----------------------------------------------------------------------------
\* From the request to its answer.

LEMMA Opens ==
  ASSUME IInv, NEW r \in Requests, NEW kind, NEW s \in Sessions, NEW q \in Questions,
         Open(r, kind, s, q)
  PROVE  IInv'
<1> DEFINE c == [req[r] EXCEPT !.pc = "embed", !.kind = kind, !.sid = s, !.q = q,
                               !.base = Len(history)]
<1>1. /\ req[r] \in RequestRecord /\ Consistent(r, req[r]) /\ req[r].pc = "idle"
      /\ kind \in KindsOf[r] /\ kind \in Kinds /\ Becomes(r, c)
      /\ history \in Seq([by : Requests, role : {"user", "assistant"}])
  BY Types, AssistantAssumption DEF Open, Arrives, At, IInv, TypeInv, AssistantAssumption
<1>2. Len(history) \in Nat /\ Len(history) \in 0 .. Len(history)
  BY <1>1, LenProperties
<1>3. c \in RequestRecord
  BY <1>1, <1>2 DEF RequestRecord, Steps
<1>4. /\ c.pc = "embed" /\ c.kind = kind /\ c.q = q /\ c.base = Len(history)
      /\ c.past = req[r].past /\ c.tasks = <<>> /\ c.reply = None /\ c.report = req[r].report
  BY <1>1 DEF RequestRecord, Consistent, TasksConsistent, ReplyConsistent
<1> HIDE DEF c
<1>5. SavedRoles(r) = {}
  BY <1>1 DEF Consistent, SavedConsistent
<1>6. AboutQuestion(r, c) /\ ReplyConsistent(r, c) /\ TasksConsistent(r, c)
  BY <1>1, <1>4, Lists DEF AboutQuestion, ReplyConsistent, TasksConsistent
<1>7. SavedConsistent(r, c) /\ ReportConsistent(c) /\ ContextConsistent(c)
  BY <1>1, <1>2, <1>4, <1>5, Lists
     DEF Consistent, SavedConsistent, ReportConsistent, ContextConsistent, Streaming,
         CachedExchange, ServedExchange
<1>8. MayBecome(r, c)
  BY <1>1, <1>3, <1>5, <1>6, <1>7 DEF MayBecome, Consistent, At
<1>9. QED
  BY <1>1, <1>8, Local DEF Open

\* A step before the answer that only goes to another stage.
LEMMA GoesOn ==
  ASSUME IInv, NEW r \in Requests, req[r].pc \in Thinking, NEW pc \in Thinking,
         req[r].pc \in Streaming \/ pc \notin Streaming,
         Becomes(r, Goes(r, pc)), UNCHANGED <<stores, world>>
  PROVE  IInv'
<1>1. req[r] \in RequestRecord /\ Consistent(r, req[r]) /\ pc \in Steps
  BY Types DEF Thinking, Steps, Streaming
<1>2. Goes(r, pc) \in RequestRecord /\ Goes(r, pc) = [req[r] EXCEPT !.pc = pc, !.tries = 0]
  BY <1>1, GoesType
<1>3. req[r].reply = None
  BY <1>1 DEF Consistent, ReplyConsistent, Thinking
<1> DEFINE c == Goes(r, pc)
<1>4. /\ c.pc = pc /\ c.reply = None
      /\ c.kind = req[r].kind /\ c.sid = req[r].sid /\ c.q = req[r].q /\ c.base = req[r].base
      /\ c.past = req[r].past /\ c.tasks = req[r].tasks /\ c.report = req[r].report
  BY <1>1, <1>2, <1>3 DEF RequestRecord
<1> HIDE DEF c
<1>5. MayBecome(r, c)
  BY <1>2, <1>4, Forward DEF c
<1>6. QED
  BY <1>5, Local DEF c

\* An exception before the answer: nothing is queued, the request is over.
LEMMA Errors ==
  ASSUME IInv, NEW r \in Requests, req[r].pc \in Thinking, Error(r), UNCHANGED <<stores, world>>
  PROVE  IInv'
<1>1. req[r] \in RequestRecord /\ Consistent(r, req[r])
  BY Types
<1>2. req[r].tasks = <<>> /\ req[r].reply = None /\ req[r].kind \in KindsOf[r] \cup {None}
  BY <1>1 DEF Consistent, TasksConsistent, ReplyConsistent, AboutQuestion, Thinking
<1>3. Becomes(r, Over(req[r]))
  BY <1>2 DEF Error, AfterResponse
<1>4. MayBecome(r, Over(req[r]))
  BY <1>1, <1>2, Ends
<1>5. QED
  BY <1>3, <1>4, Local

LEMMA BacksOff ==
  ASSUME IInv, NEW r \in Requests, Backoff(r)
  PROVE  IInv'
<1> DEFINE c == [req[r] EXCEPT !.tries = NextTry(@)]
<1>1. /\ req[r] \in RequestRecord /\ Consistent(r, req[r]) /\ Becomes(r, c)
      /\ req[r].tries < MaxRetries /\ MaxRetries \in Nat
  BY Types, AssistantAssumption DEF Backoff, TriesLeft, AssistantAssumption
<1>2. req[r].tries + 1 \in 0 .. MaxRetries
  BY <1>1 DEF RequestRecord
<1>3. c \in RequestRecord
  BY <1>1, <1>2 DEF RequestRecord, NextTry
<1>4. /\ c.pc = req[r].pc /\ c.kind = req[r].kind /\ c.sid = req[r].sid /\ c.q = req[r].q
      /\ c.base = req[r].base /\ c.past = req[r].past /\ c.reply = req[r].reply
      /\ c.tasks = req[r].tasks /\ c.cut = req[r].cut /\ c.report = req[r].report
  BY <1>1 DEF RequestRecord
<1> HIDE DEF c
<1>5. AboutQuestion(r, c) /\ ReplyConsistent(r, c) /\ TasksConsistent(r, c)
  BY <1>1, <1>4 DEF Consistent, AboutQuestion, ReplyConsistent, TasksConsistent
<1>6. SavedConsistent(r, c) /\ ReportConsistent(c) /\ ContextConsistent(c)
  BY <1>1, <1>4 DEF Consistent, SavedConsistent, ReportConsistent, ContextConsistent
<1>7. MayBecome(r, c)
  BY <1>3, <1>4, <1>5, <1>6 DEF MayBecome, Consistent, At
<1>8. QED
  BY <1>1, <1>7, Local DEF Backoff

LEMMA Embeds ==
  ASSUME IInv, NEW r \in Requests, Embed(r)
  PROVE  IInv'
<1>1. req[r] \in RequestRecord /\ Consistent(r, req[r]) /\ req[r].pc = "embed"
  BY Types DEF Embed, At
<1>2. CASE Becomes(r, Goes(r, "load"))
  BY <1>1, <1>2, GoesOn DEF Embed, Thinking, Streaming
<1>3. CASE Becomes(r, [Goes(r, "lookup") EXCEPT !.vec = TRUE])
  <2> DEFINE c == [Goes(r, "lookup") EXCEPT !.vec = TRUE]
  <2>1. /\ Goes(r, "lookup") \in RequestRecord
        /\ Goes(r, "lookup") = [req[r] EXCEPT !.pc = "lookup", !.tries = 0]
    BY GoesType DEF Steps
  <2>2. c \in RequestRecord
    BY <2>1 DEF RequestRecord
  <2>3. req[r].reply = None
    BY <1>1 DEF Consistent, ReplyConsistent
  <2>4. /\ c.pc = "lookup" /\ c.reply = None
        /\ c.kind = req[r].kind /\ c.sid = req[r].sid /\ c.q = req[r].q /\ c.base = req[r].base
        /\ c.past = req[r].past /\ c.tasks = req[r].tasks /\ c.report = req[r].report
    BY <1>1, <2>1, <2>3 DEF RequestRecord
  <2> HIDE DEF c
  <2>5. MayBecome(r, c)
    BY <1>1, <2>2, <2>4, Forward DEF Thinking, Streaming
  <2>6. QED
    BY <1>3, <2>5, Local DEF c, Embed
<1>4. QED
  BY <1>2, <1>3 DEF Embed

LEMMA Replays ==
  ASSUME IInv, NEW r \in Requests, req[r].pc = "lookup", NEW e \in cache,
         Replay(r, e), UNCHANGED <<stores, world>>
  PROVE  IInv'
<1> DEFINE c == [Goes(r, "closing") EXCEPT !.reply = e.reply, !.tasks = HitTasks]
<1>1. /\ req[r] \in RequestRecord /\ Consistent(r, req[r]) /\ Becomes(r, c)
      /\ e.reply \in Requests /\ e.reply # None
      /\ Goes(r, "closing") \in RequestRecord
      /\ Goes(r, "closing") = [req[r] EXCEPT !.pc = "closing", !.tries = 0]
  BY Types, GoesType, AssistantAssumption DEF IInv, TypeInv, Replay, Steps, Streaming, AssistantAssumption
<1>2. HitTasks = <<"user", "assistant">> /\ HitTasks \in TaskLists /\ HitTasks \in ServedExchange
  BY DEF HitTasks, TaskLists, ServedExchange
<1>3. c \in RequestRecord
  BY <1>1, <1>2 DEF RequestRecord
<1>4. /\ c.pc = "closing" /\ c.reply = e.reply /\ c.tasks = <<"user", "assistant">>
      /\ c.kind = req[r].kind /\ c.sid = req[r].sid /\ c.q = req[r].q /\ c.base = req[r].base
      /\ c.past = req[r].past /\ c.report = req[r].report
  BY <1>1, <1>2 DEF RequestRecord
<1> HIDE DEF c
<1>5. SavedRoles(r) = {}
  BY <1>1 DEF Consistent, SavedConsistent
<1>6. AboutQuestion(r, c)
  BY <1>1, <1>4 DEF Consistent, AboutQuestion
<1>7. ReplyConsistent(r, c)
  BY <1>1, <1>2, <1>4, Lists DEF ReplyConsistent
<1>8. TasksConsistent(r, c)
  BY <1>4 DEF TasksConsistent
<1>9. SavedConsistent(r, c)
  BY <1>1, <1>4, <1>5 DEF SavedConsistent
<1>10. ReportConsistent(c) /\ ContextConsistent(c)
  BY <1>1, <1>4 DEF Consistent, ReportConsistent, ContextConsistent
<1>11. MayBecome(r, c)
  BY <1>1, <1>3, <1>4, <1>6, <1>7, <1>8, <1>9, <1>10 DEF MayBecome, Consistent, At
<1>12. QED
  BY <1>1, <1>11, Local

LEMMA LooksUp ==
  ASSUME IInv, NEW r \in Requests, Lookup(r)
  PROVE  IInv'
<1>1. req[r].pc = "lookup" /\ UNCHANGED <<stores, world>>
  BY DEF Lookup, At
<1>2. ASSUME NEW e \in Nearest(req[r].q), Replay(r, e)
      PROVE  IInv'
  BY <1>1, <1>2, Replays DEF Nearest, Hits
<1>3. CASE Becomes(r, Goes(r, "load"))
  BY <1>1, <1>3, GoesOn DEF Thinking, Streaming
<1>4. QED
  BY <1>2, <1>3 DEF Lookup, stream_cache, _stream_cache

-----------------------------------------------------------------------------
\* The context.

\* A finite set of numbers that is not empty has a largest one.
LEMMA Largest ==
  ASSUME NEW S, S # {}, IsFiniteSet(S), S \subseteq Nat
  PROVE  \E m \in S : \A i \in S : i <= m
<1> DEFINE Above(i) == {j \in S : j >= i}
           T        == {Above(i) : i \in S}
<1>1. T # {} /\ T \subseteq FiniteSubsetsOf(S)
  <2>1. ASSUME NEW i \in S
        PROVE  Above(i) \in FiniteSubsetsOf(S)
    <3>1. Above(i) \in SUBSET S
      OBVIOUS
    <3>2. IsFiniteSet(Above(i))
      BY <3>1, FS_Subset
    <3>3. QED
      BY <3>1, <3>2 DEF FiniteSubsetsOf
  <2>2. QED
    BY <2>1
<1>2. PICK A \in T : \A B \in T : <<B, A>> \notin StrictSubsetOrdering(S)
  <2> HIDE DEF T
  <2>1. QED
    BY <1>1, FS_StrictSubsetOrderingWellFounded, WFMin
<1>3. PICK m \in S : A = Above(m)
  OBVIOUS
<1>4. ASSUME NEW i \in S, ~(i <= m)
      PROVE  FALSE
  <2>1. i \in Nat /\ m \in Nat /\ i > m
    BY <1>4
  <2>2. Above(i) \in T
    OBVIOUS
  <2>3. ASSUME NEW j \in Above(i)
        PROVE  j \in Above(m)
    <3>1. j \in S /\ j \in Nat /\ j >= i
      OBVIOUS
    <3>2. j >= m
      BY <2>1, <3>1
    <3>3. QED
      BY <3>1, <3>2
  <2>4. m \in Above(m) /\ m \notin Above(i)
    BY <2>1
  <2>5. <<Above(i), A>> \in StrictSubsetOrdering(S)
    <3>1. Above(i) \in SUBSET S /\ Above(m) \in SUBSET S
      OBVIOUS
    <3> HIDE DEF Above
    <3>2. QED
      BY <1>3, <2>3, <2>4, <3>1 DEF StrictSubsetOrdering
  <2>6. QED
    BY <1>2, <2>2, <2>5
<1>5. QED
  BY <1>4

\* get_history returns the newest rows: it leaves one out only when it returns
\* HistoryLimit rows, all newer.
LEMMA NewestRows ==
  ASSUME TypeInv, NEW s, NEW i \in Rows(s), i \notin get_history(s)
  PROVE  /\ Cardinality(get_history(s)) >= HistoryLimit
         /\ \A j \in get_history(s) : j > i
<1> DEFINE After(k) == {j \in Rows(s) : j > k}
           past     == get_history(s)
           older    == Rows(s) \ past
<1>1. /\ Rows(s) \subseteq Nat /\ IsFiniteSet(Rows(s)) /\ HistoryLimit \in Nat
  <2>1. Len(history) \in Nat /\ DOMAIN history = 1 .. Len(history)
    BY LenProperties DEF TypeInv
  <2>2. IsFiniteSet(1 .. Len(history)) /\ Rows(s) \in SUBSET (1 .. Len(history))
    BY <2>1, FS_Interval DEF Rows
  <2>3. IsFiniteSet(Rows(s))
    BY <2>2, FS_Subset
  <2>4. QED
    BY <2>1, <2>2, <2>3, AssistantAssumption DEF AssistantAssumption
<1>2. past = {k \in Rows(s) : Cardinality(After(k)) < HistoryLimit}
  BY DEF get_history
<1>3. \A k \in Rows(s) : IsFiniteSet(After(k)) /\ Cardinality(After(k)) \in Nat
  <2>1. \A k \in Rows(s) : After(k) \in SUBSET Rows(s)
    OBVIOUS
  <2> HIDE DEF After
  <2>2. QED
    BY <1>1, <2>1, FS_Subset, FS_CardinalityType
<1>4. IsFiniteSet(past) /\ IsFiniteSet(older) /\ Cardinality(past) \in Nat
  <2>1. past \in SUBSET Rows(s) /\ older \in SUBSET Rows(s)
    BY <1>2
  <2> HIDE DEF past, older
  <2>2. QED
    BY <1>1, <2>1, FS_Subset, FS_CardinalityType
<1>5. i \in older
  OBVIOUS
<1>6. PICK m \in older : \A k \in older : k <= m
  <2>1. older # {} /\ older \subseteq Nat
    BY <1>1, <1>5
  <2> HIDE DEF older
  <2>2. QED
    BY <1>4, <2>1, Largest
<1>7. After(m) \in SUBSET past
  BY <1>1, <1>6
<1>8. Cardinality(After(m)) <= Cardinality(past)
  <2> HIDE DEF After, past
  <2>1. QED
    BY <1>4, <1>7, FS_Subset
<1>9. ~(Cardinality(After(m)) < HistoryLimit)
  BY <1>2, <1>6
<1>10. Cardinality(past) >= HistoryLimit
  <2> HIDE DEF After, past
  <2>1. m \in Rows(s)
    BY <1>6
  <2>2. QED
    BY <1>1, <1>3, <1>4, <1>8, <1>9, <2>1
<1>11. ASSUME NEW j \in past, ~(j > i)
       PROVE  FALSE
  <2>1. j \in Rows(s) /\ Cardinality(After(j)) < HistoryLimit /\ ~(Cardinality(After(i)) < HistoryLimit)
    BY <1>2
  <2>2. After(i) \in SUBSET After(j)
    BY <1>1, <1>11, <2>1
  <2> HIDE DEF After
  <2>3. Cardinality(After(i)) <= Cardinality(After(j))
    BY <1>3, <2>1, <2>2, FS_Subset
  <2>4. QED
    BY <1>1, <1>3, <2>1, <2>3
<1>12. QED
  BY <1>10, <1>11

LEMMA RowNumbers ==
  ASSUME TypeInv, NEW s
  PROVE  get_history(s) \subseteq DOMAIN history /\ DOMAIN history \subseteq Nat
<1>1. DOMAIN history = 1 .. Len(history) /\ Len(history) \in Nat
  BY LenProperties DEF TypeInv
<1>2. DOMAIN history \subseteq Nat
  BY <1>1
<1>3. QED
  BY <1>2 DEF get_history, Rows

LEMMA Loads ==
  ASSUME IInv, NEW r \in Requests, Load(r)
  PROVE  IInv'
<1>1. /\ req[r] \in RequestRecord /\ Consistent(r, req[r]) /\ req[r].pc = "load" /\ TypeInv
      /\ UNCHANGED <<stores, world>>
  BY Types DEF Load, At, IInv
<1>2. req[r].reply = None /\ req[r].tasks = <<>> /\ SavedRoles(r) = {}
      /\ req[r].kind \in KindsOf[r] \cup {None}
  BY <1>1 DEF Consistent, ReplyConsistent, TasksConsistent, SavedConsistent, AboutQuestion
<1>3. CASE Becomes(r, Over(req[r]))
  BY <1>1, <1>2, <1>3, Ends, Local
<1>4. ASSUME NEW pc \in {"plan", "search", "embed again"},
             Becomes(r, [Goes(r, pc) EXCEPT !.past = get_history(req[r].sid)])
      PROVE  IInv'
  <2> DEFINE past == get_history(req[r].sid)
             c    == [Goes(r, pc) EXCEPT !.past = past]
  <2>1. past \subseteq DOMAIN history /\ DOMAIN history \subseteq Nat
    BY <1>1, RowNumbers
  <2>2. \A i \in Rows(req[r].sid) : i \notin past =>
          Cardinality(past) >= HistoryLimit /\ \A j \in past : j > i
    BY <1>1, NewestRows
  <2> HIDE DEF past
  <2>3. Goes(r, pc) \in RequestRecord /\ Goes(r, pc) = [req[r] EXCEPT !.pc = pc, !.tries = 0]
    BY GoesType DEF Steps, Streaming
  <2>4. c \in RequestRecord
    BY <2>1, <2>3 DEF RequestRecord
  <2>5. /\ c.pc = pc /\ c.past = past
        /\ c.reply = None /\ c.tasks = <<>>
        /\ c.kind = req[r].kind /\ c.sid = req[r].sid /\ c.q = req[r].q /\ c.base = req[r].base
        /\ c.report = req[r].report
    BY <1>1, <1>2, <2>3 DEF RequestRecord
  <2>6. Becomes(r, c)
    BY <1>4 DEF past
  <2> HIDE DEF c
  <2>7. AboutQuestion(r, c) /\ ReplyConsistent(r, c) /\ TasksConsistent(r, c)
    BY <1>1, <2>5, Lists DEF Consistent, AboutQuestion, ReplyConsistent, TasksConsistent
  <2>8. SavedConsistent(r, c)
    BY <1>2, <2>5, Lists DEF SavedConsistent, CachedExchange, ServedExchange
  <2>9. ReportConsistent(c) /\ ContextConsistent(c)
    BY <1>1, <2>1, <2>2, <2>5 DEF Consistent, ReportConsistent, ContextConsistent
  <2>10. MayBecome(r, c)
    BY <1>1, <2>4, <2>5, <2>7, <2>8, <2>9 DEF MayBecome, Consistent, At
  <2>11. QED
    BY <1>1, <2>6, <2>10, Local
<1>5. QED
  BY <1>3, <1>4 DEF Load, agent_app, legal_research_app

-----------------------------------------------------------------------------
\* The graphs.

LEMMA Plans ==
  ASSUME IInv, NEW r \in Requests, planner_node(r)
  PROVE  IInv'
<1>1. req[r].pc = "plan" /\ UNCHANGED <<stores, world>>
  BY DEF planner_node, At
<1>2. ASSUME NEW action
      PROVE  Route(r, action) \in {"respond", "tool", "search", "embed again"}
  BY DEF Route
<1>3. ASSUME NEW action, Becomes(r, Goes(r, Route(r, action)))
      PROVE  IInv'
  <2>1. Route(r, action) \in Thinking
    BY <1>2 DEF Thinking
  <2>2. QED
    BY <1>1, <1>3, <2>1, GoesOn DEF Thinking, Streaming
<1>4. QED
  BY <1>3 DEF planner_node

LEMMA EmbedsAgain ==
  ASSUME IInv, NEW r \in Requests, EmbedAgain(r)
  PROVE  IInv'
<1>1. req[r].pc = "embed again" /\ UNCHANGED <<stores, world>>
  BY DEF EmbedAgain, At
<1>2. CASE Becomes(r, Goes(r, "search"))
  BY <1>1, <1>2, GoesOn DEF Thinking, Streaming
<1>3. CASE Error(r)
  BY <1>1, <1>3, Errors DEF Thinking
<1>4. QED
  BY <1>2, <1>3 DEF EmbedAgain

LEMMA UsesTool ==
  ASSUME IInv, NEW r \in Requests, tool_node(r)
  PROVE  IInv'
<1>1. req[r].pc = "tool" /\ UNCHANGED <<stores, world>>
  BY DEF tool_node, At
<1>2. CASE Becomes(r, Goes(r, "respond"))
  BY <1>1, <1>2, GoesOn DEF Thinking, Streaming
<1>3. CASE Error(r)
  BY <1>1, <1>3, Errors DEF Thinking
<1>4. QED
  BY <1>2, <1>3 DEF tool_node

LEMMA Retrieves ==
  ASSUME IInv, NEW r \in Requests, retrieve_node(r)
  PROVE  IInv'
<1>1. /\ req[r].pc = "search" /\ UNCHANGED <<stores, world>>
      /\ req[r] \in RequestRecord /\ Consistent(r, req[r])
  BY Types DEF retrieve_node, At
<1>2. CASE Error(r)
  BY <1>1, <1>2, Errors DEF Thinking
<1>3. CASE Becomes(r, [Goes(r, "respond") EXCEPT !.retrieved = TRUE])
  <2> DEFINE c == [Goes(r, "respond") EXCEPT !.retrieved = TRUE]
  <2>1. /\ Goes(r, "respond") \in RequestRecord
        /\ Goes(r, "respond") = [req[r] EXCEPT !.pc = "respond", !.tries = 0]
    BY GoesType DEF Steps, Streaming
  <2>2. c \in RequestRecord
    BY <2>1 DEF RequestRecord
  <2>3. req[r].reply = None
    BY <1>1 DEF Consistent, ReplyConsistent
  <2>4. /\ c.pc = "respond" /\ c.reply = None
        /\ c.kind = req[r].kind /\ c.sid = req[r].sid /\ c.q = req[r].q /\ c.base = req[r].base
        /\ c.past = req[r].past /\ c.tasks = req[r].tasks /\ c.report = req[r].report
    BY <1>1, <2>1, <2>3 DEF RequestRecord
  <2> HIDE DEF c
  <2>5. MayBecome(r, c)
    BY <1>1, <2>2, <2>4, Forward DEF Thinking, Streaming
  <2>6. QED
    BY <1>1, <1>3, <2>5, Local DEF c
<1>4. QED
  BY <1>2, <1>3 DEF retrieve_node

LEMMA Generates ==
  ASSUME IInv, NEW r \in Requests, generate_node(r)
  PROVE  IInv'
<1>1. /\ req[r].pc = "respond" /\ UNCHANGED <<stores, world>>
      /\ req[r] \in RequestRecord /\ Consistent(r, req[r])
  BY Types DEF generate_node, At
<1>2. CASE Error(r)
  BY <1>1, <1>2, Errors DEF Thinking
<1>3. ASSUME NEW a \in {r, None}, Becomes(r, [Goes(r, "answered") EXCEPT !.reply = a])
      PROVE  IInv'
  <2> DEFINE c == [Goes(r, "answered") EXCEPT !.reply = a]
  <2>1. /\ Goes(r, "answered") \in RequestRecord
        /\ Goes(r, "answered") = [req[r] EXCEPT !.pc = "answered", !.tries = 0]
    BY GoesType DEF Steps, Streaming
  <2>2. c \in RequestRecord
    BY <2>1 DEF RequestRecord
  <2>3. /\ c.pc = "answered" /\ c.reply = a
        /\ c.kind = req[r].kind /\ c.sid = req[r].sid /\ c.q = req[r].q /\ c.base = req[r].base
        /\ c.past = req[r].past /\ c.tasks = req[r].tasks /\ c.report = req[r].report
    BY <1>1, <2>1 DEF RequestRecord
  <2> HIDE DEF c
  <2>4. MayBecome(r, c)
    BY <1>1, <2>2, <2>3, Forward DEF Thinking, Streaming
  <2>5. QED
    BY <1>1, <1>3, <2>4, Local DEF c
<1>4. QED
  BY <1>2, <1>3 DEF generate_node

LEMMA QueuesTasks ==
  ASSUME IInv, NEW r \in Requests, event_generator(r)
  PROVE  IInv'
<1> DEFINE c == [Goes(r, "closing") EXCEPT !.tasks = FinalTasks(req[r].reply)]
<1>1. /\ req[r].pc = "answered" /\ UNCHANGED <<stores, world>> /\ Becomes(r, c)
      /\ req[r] \in RequestRecord /\ Consistent(r, req[r])
  BY Types DEF event_generator, At
<1>2. /\ SavedRoles(r) = {} /\ r # None /\ req[r].reply \in {r, None}
      /\ req[r].q \in Questions
  BY <1>1, AssistantAssumption
     DEF AssistantAssumption, Consistent, SavedConsistent, ReplyConsistent, AboutQuestion, Streaming
<1>3. /\ FinalTasks(req[r].reply) \in TaskLists
      /\ \/ req[r].reply = None /\ FinalTasks(req[r].reply) = <<>>
         \/ req[r].reply = r /\ FinalTasks(req[r].reply) = <<"user", "assistant", "cache">>
  BY <1>2 DEF FinalTasks, TaskLists, CachedExchange
<1>4. /\ Goes(r, "closing") \in RequestRecord
      /\ Goes(r, "closing") = [req[r] EXCEPT !.pc = "closing", !.tries = 0]
  BY GoesType DEF Steps, Streaming
<1>5. c \in RequestRecord
  BY <1>3, <1>4 DEF RequestRecord
<1>6. /\ c.pc = "closing" /\ c.tasks = FinalTasks(req[r].reply)
      /\ c.kind = req[r].kind /\ c.sid = req[r].sid /\ c.q = req[r].q /\ c.base = req[r].base
      /\ c.past = req[r].past /\ c.reply = req[r].reply /\ c.report = req[r].report
  BY <1>1, <1>3, <1>4 DEF RequestRecord
<1> HIDE DEF c
<1>7. AboutQuestion(r, c)
  BY <1>1, <1>2, <1>6 DEF Consistent, AboutQuestion
<1>8. ReplyConsistent(r, c)
  <2>1. c.tasks \in CachedExchange => c.reply = r
    BY <1>3, <1>6, Lists
  <2>2. c.tasks \notin ServedExchange
    BY <1>3, <1>6, Lists
  <2>3. c.tasks = <<>> => c.reply = None
    BY <1>3, <1>6
  <2>4. c.tasks # <<"report">>
    BY <1>3, <1>6, Lists
  <2>5. QED
    BY <1>6, <2>1, <2>2, <2>3, <2>4 DEF ReplyConsistent
<1>9. TasksConsistent(r, c)
  BY <1>3, <1>6, Lists DEF TasksConsistent
<1>10. SavedConsistent(r, c)
  <2>1. /\ c.tasks \notin {<<"assistant", "cache">>, <<"assistant">>} /\ c.tasks # <<"cache">>
    BY <1>3, <1>6, Lists
  <2>2. QED
    BY <1>2, <1>6, <2>1 DEF SavedConsistent
<1>11. ReportConsistent(c) /\ ContextConsistent(c)
  <2>1. req[r].tasks = <<>>
    BY <1>1 DEF Consistent, TasksConsistent
  <2>2. QED
    BY <1>1, <1>6, <2>1 DEF Consistent, ReportConsistent, ContextConsistent, Streaming
<1>12. MayBecome(r, c)
  BY <1>1, <1>5, <1>6, <1>7, <1>8, <1>9, <1>10, <1>11 DEF MayBecome, Consistent, At
<1>13. QED
  BY <1>1, <1>12, Local

\* The response has ended with tasks queued.
LEMMA StartsTasks ==
  ASSUME IInv, NEW r \in Requests, req[r].pc = "closing", req[r].tasks # <<>>,
         NEW c \in RequestRecord, c.pc = "tasks",
         c.kind = req[r].kind, c.sid = req[r].sid, c.q = req[r].q, c.base = req[r].base,
         c.past = req[r].past, c.reply = req[r].reply, c.tasks = req[r].tasks, c.report = req[r].report
  PROVE  MayBecome(r, c)
<1>1. Consistent(r, req[r])
  BY Types
<1>2. AboutQuestion(r, c) /\ ReplyConsistent(r, c)
  BY <1>1 DEF Consistent, AboutQuestion, ReplyConsistent, Streaming
<1>3. TasksConsistent(r, c) /\ SavedConsistent(r, c)
  BY <1>1 DEF Consistent, TasksConsistent, SavedConsistent
<1>4. ReportConsistent(c) /\ ContextConsistent(c)
  BY <1>1 DEF Consistent, ReportConsistent, ContextConsistent, Streaming
<1>5. QED
  BY <1>2, <1>3, <1>4 DEF MayBecome, Consistent, At

LEMMA Closes ==
  ASSUME IInv, NEW r \in Requests, Done(r)
  PROVE  IInv'
<1>1. /\ req[r].pc = "closing" /\ Becomes(r, AfterResponse(req[r])) /\ UNCHANGED <<stores, world>>
      /\ req[r] \in RequestRecord /\ Consistent(r, req[r])
  BY Types DEF Done, At
<1>2. CASE req[r].tasks = <<>>
  <2>1. req[r].reply = None /\ req[r].kind \in KindsOf[r] \cup {None}
    BY <1>1, <1>2 DEF Consistent, ReplyConsistent, AboutQuestion
  <2>2. MayBecome(r, Over(req[r]))
    BY <1>1, <2>1, Ends
  <2>3. QED
    BY <1>1, <1>2, <2>2, Local DEF AfterResponse
<1>3. CASE req[r].tasks # <<>>
  <2> DEFINE c == [req[r] EXCEPT !.pc = "tasks"]
  <2>1. c \in RequestRecord
    BY <1>1 DEF RequestRecord, Steps
  <2>2. /\ c.pc = "tasks"
        /\ c.kind = req[r].kind /\ c.sid = req[r].sid /\ c.q = req[r].q /\ c.base = req[r].base
        /\ c.past = req[r].past /\ c.reply = req[r].reply /\ c.tasks = req[r].tasks
        /\ c.report = req[r].report
    BY <1>1 DEF RequestRecord
  <2>3. Becomes(r, c)
    BY <1>1, <1>3 DEF AfterResponse
  <2> HIDE DEF c
  <2>4. MayBecome(r, c)
    BY <1>1, <1>3, <2>1, <2>2, StartsTasks
  <2>5. QED
    BY <1>1, <2>3, <2>4, Local
<1>4. QED
  BY <1>2, <1>3

LEMMA Stops ==
  ASSUME IInv, NEW r \in Requests, Stop(r)
  PROVE  IInv'
<1> DEFINE left == [req[r] EXCEPT !.cut = TRUE, !.tries = 0]
<1>1. /\ req[r].pc \in Streaming /\ UNCHANGED <<stores, world>>
      /\ Becomes(r, Over(left)) \/ Becomes(r, AfterResponse(left))
      /\ req[r] \in RequestRecord /\ Consistent(r, req[r]) /\ 0 \in 0 .. MaxRetries
  BY Types, AssistantAssumption DEF Stop, AssistantAssumption
<1>2. left \in RequestRecord
  BY <1>1 DEF RequestRecord
<1>3. /\ left.cut = TRUE /\ left.kind = req[r].kind /\ left.sid = req[r].sid /\ left.q = req[r].q
      /\ left.base = req[r].base /\ left.past = req[r].past /\ left.reply = req[r].reply
      /\ left.tasks = req[r].tasks /\ left.report = req[r].report
  BY <1>1 DEF RequestRecord
<1> HIDE DEF left
<1>4. left.kind \in KindsOf[r] \cup {None}
  BY <1>1, <1>3 DEF Consistent, AboutQuestion
<1>5. MayBecome(r, Over(left))
  BY <1>2, <1>3, <1>4, Ends
<1>6. CASE Becomes(r, Over(left))
  BY <1>1, <1>5, <1>6, Local
<1>7. CASE Becomes(r, AfterResponse(left)) /\ left.tasks = <<>>
  BY <1>1, <1>5, <1>7, Local DEF AfterResponse
<1>8. CASE Becomes(r, AfterResponse(left)) /\ left.tasks # <<>>
  <2> DEFINE c == [left EXCEPT !.pc = "tasks"]
  <2>1. c \in RequestRecord
    BY <1>2 DEF RequestRecord, Steps
  <2>2. /\ c.pc = "tasks"
        /\ c.kind = req[r].kind /\ c.sid = req[r].sid /\ c.q = req[r].q /\ c.base = req[r].base
        /\ c.past = req[r].past /\ c.reply = req[r].reply /\ c.tasks = req[r].tasks
        /\ c.report = req[r].report
    BY <1>2, <1>3 DEF RequestRecord
  <2>3. Becomes(r, c)
    BY <1>8 DEF AfterResponse
  <2>4. req[r].pc = "closing" /\ req[r].tasks # <<>>
    BY <1>1, <1>3, <1>8 DEF Consistent, TasksConsistent, Streaming
  <2> HIDE DEF c
  <2>5. MayBecome(r, c)
    BY <2>1, <2>2, <2>4, StartsTasks
  <2>6. QED
    BY <1>1, <2>3, <2>5, Local
<1>9. QED
  BY <1>1, <1>6, <1>7, <1>8

-----------------------------------------------------------------------------
\* Reports.

\* "at least 2 of 3 checks": the weights say so.
LEMMA TwoOfThree ==
  ASSUME NEW passed \in SUBSET Checks
  PROVE  Authentic(passed) <=> Cardinality(passed) >= 2
<1> DEFINE m == "metadata_extraction"
           l == "case_law_match"
           f == "fraud_analysis"
<1>1. Weight[m] = 20 /\ Weight[l] = 40 /\ Weight[f] = 40
  BY DEF Weight, Checks
<1>2. passed \in {{}, {m}, {l}, {f}, {m, l}, {m, f}, {l, f}, {m, l, f}}
  BY DEF Checks
<1>3. \A x : IsFiniteSet({x}) /\ Cardinality({x}) = 1
  BY FS_Singleton
<1>4. \A x, y : x # y => IsFiniteSet({x, y}) /\ Cardinality({x, y}) = 2
  <2>1. ASSUME NEW x, NEW y, x # y
        PROVE  IsFiniteSet({x, y}) /\ Cardinality({x, y}) = 2
    <3>1. {x, y} = {x} \cup {y} /\ y \notin {x}
      BY <2>1
    <3>2. IsFiniteSet({x} \cup {y}) /\ Cardinality({x} \cup {y}) = Cardinality({x}) + 1
      BY <1>3, <3>1, FS_AddElement
    <3>3. Cardinality({x, y}) = Cardinality({x} \cup {y}) /\ IsFiniteSet({x, y})
      BY <3>1, <3>2, Zenon
    <3>4. Cardinality({x}) = 1
      BY <1>3
    <3>5. QED
      BY <3>2, <3>3, <3>4
  <2>2. QED
    BY <2>1
<1>5. Cardinality({m, l, f}) = 3
  <2>1. {m, l, f} = {m, l} \cup {f} /\ f \notin {m, l} /\ m # l
    OBVIOUS
  <2>2. Cardinality({m, l} \cup {f}) = Cardinality({m, l}) + 1
    BY <1>4, <2>1, FS_AddElement
  <2>3. Cardinality({m, l, f}) = Cardinality({m, l} \cup {f})
    BY <2>1, Zenon
  <2>4. Cardinality({m, l}) = 2
    BY <1>4, <2>1
  <2>5. QED
    BY <2>2, <2>3, <2>4
<1>6. Cardinality({}) = 0
  BY FS_EmptySet
<1>7. Authentic(passed) <=>
        (IF m \in passed THEN 20 ELSE 0) + (IF l \in passed THEN 40 ELSE 0) + (IF f \in passed THEN 40 ELSE 0) >= 60
  BY <1>1 DEF Authentic, Score, Plus
<1>8. CASE passed = {}
  BY <1>6, <1>7, <1>8
<1>9. CASE passed = {m} \/ passed = {l} \/ passed = {f}
  <2>1. Cardinality(passed) = 1
    BY <1>3, <1>9
  <2>2. QED
    BY <1>7, <1>9, <2>1
<1>10. CASE passed = {m, l} \/ passed = {m, f} \/ passed = {l, f}
  <2>1. Cardinality(passed) = 2
    BY <1>4, <1>10, m # l /\ m # f /\ l # f, Zenon
  <2>2. QED
    BY <1>7, <1>10, <2>1
<1>11. CASE passed = {m, l, f}
  BY <1>5, <1>7, <1>11
<1>12. QED
  BY <1>2, <1>8, <1>9, <1>10, <1>11

LEMMA ReportType ==
  ASSUME NEW a \in SUBSET Checks, NEW p \in SUBSET a, NEW f \in Forms
  PROVE  /\ Report(a, p, f) \in ReportRecord
         /\ Report(a, p, f).form = f
         /\ Report(a, p, f).authentic <=> Cardinality(Report(a, p, f).positive) >= 2
<1>1. Passed(a, p) = p /\ p \in SUBSET Checks
  BY DEF Passed
<1>2. Authentic(p) <=> Cardinality(p) >= 2
  BY <1>1, TwoOfThree
<1>3. Authentic(p) \in BOOLEAN
  BY DEF Authentic
<1>4. Report(a, p, f) = [answered |-> a, positive |-> p, authentic |-> Authentic(p), form |-> f]
  BY <1>1 DEF Report
<1>5. QED
  BY <1>1, <1>2, <1>3, <1>4 DEF ReportRecord

LEMMA ReportsReturned ==
  ASSUME NEW x \in verify_document(up) \cup predict_case_duration(up)
  PROVE  /\ x \in ReportRecord
         /\ x.authentic <=> Cardinality(x.positive) >= 2
<1>1. \E a \in SUBSET Checks : \E p \in SUBSET a : \E f \in Forms : x = Report(a, p, f)
  <2> DEFINE reachable == {c \in Checks : Needs[c] \subseteq up}
             whole     == UNION {{Report(a, p, "whole") : p \in SUBSET a} : a \in SUBSET reachable}
             odd       == {Report(a, {}, f) : a \in (SUBSET reachable) \ {{}}, f \in {"malformed", "error"}}
             predicted == {Report({}, {}, f) : f \in IF "ollama" \in up THEN Forms ELSE {"error"}}
  <2>1. x \in whole \cup odd \cup predicted
    <3>1. x \in verify_document(up) => x \in whole \/ x \in odd
      BY DEF verify_document
    <3>2. x \in predict_case_duration(up) => x \in predicted
      BY DEF predict_case_duration
    <3> HIDE DEF whole, odd, predicted
    <3>3. QED
      BY <3>1, <3>2
  <2>2. CASE x \in whole
    <3>1. PICK a \in SUBSET reachable : x \in {Report(a, p, "whole") : p \in SUBSET a}
      BY <2>2
    <3>2. PICK p \in SUBSET a : x = Report(a, p, "whole")
      BY <3>1
    <3>3. a \in SUBSET Checks /\ "whole" \in Forms
      BY DEF Forms
    <3>4. QED
      BY <3>2, <3>3
  <2>3. CASE x \in odd
    <3>1. PICK a \in SUBSET reachable, f \in {"malformed", "error"} : x = Report(a, {}, f)
      BY <2>3
    <3>2. a \in SUBSET Checks /\ {} \in SUBSET a /\ f \in Forms
      BY DEF Forms
    <3>3. QED
      BY <3>1, <3>2
  <2>4. CASE x \in predicted
    <3>1. PICK f \in Forms : x = Report({}, {}, f)
      BY <2>4 DEF Forms
    <3>2. QED
      BY <3>1
  <2>5. QED
    BY <2>1, <2>2, <2>3, <2>4
<1>2. QED
  BY <1>1, ReportType

LEMMA Reports1 ==
  ASSUME IInv, NEW r \in Requests, NEW kind,
         NEW rs \in {verify_document(up), predict_case_duration(up)}, Reported(r, kind, rs)
  PROVE  IInv'
<1>1. /\ req[r] \in RequestRecord /\ Consistent(r, req[r]) /\ req[r].pc = "idle"
      /\ kind \in KindsOf[r] /\ kind \in Kinds /\ UNCHANGED <<history, cache, reports, world>>
      /\ 0 \in 0 .. MaxRetries
  BY Types, AssistantAssumption DEF Reported, Arrives, At, AssistantAssumption
<1>2. SavedRoles(r) = {} /\ req[r].reply = None
  BY <1>1 DEF Consistent, SavedConsistent, ReplyConsistent
<1>3. ASSUME Becomes(r, Over([req[r] EXCEPT !.kind = kind])), UNCHANGED given
      PROVE  IInv'
  <2> DEFINE d == [req[r] EXCEPT !.kind = kind]
  <2>1. d \in RequestRecord
    BY <1>1 DEF RequestRecord
  <2>2. d.kind = kind /\ d.sid = req[r].sid /\ d.reply = req[r].reply
    BY <1>1 DEF RequestRecord
  <2> HIDE DEF d
  <2>3. MayBecome(r, Over(d))
    BY <1>1, <1>2, <2>1, <2>2, Ends
  <2>4. QED
    BY <1>1, <1>3, <2>3, Local DEF d, stores
<1>4. ASSUME NEW report \in rs, Returns(r, kind, report)
      PROVE  IInv'
  <2> DEFINE c == [req[r] EXCEPT !.pc = "tasks", !.kind = kind, !.report = report,
                                 !.tasks = <<"report">>]
  <2>1. report \in ReportRecord /\ (report.authentic <=> Cardinality(report.positive) >= 2)
    BY ReportsReturned
  <2>2. <<"report">> \in TaskLists /\ "tasks" \in Steps
    BY DEF TaskLists, Steps
  <2>3. c \in RequestRecord
    BY <1>1, <2>1, <2>2 DEF RequestRecord
  <2>4. /\ c.pc = "tasks" /\ c.kind = kind /\ c.report = report /\ c.tasks = <<"report">>
        /\ c.sid = req[r].sid /\ c.reply = None /\ c.base = req[r].base /\ c.past = req[r].past
    BY <1>1, <1>2, <2>2 DEF RequestRecord
  <2> HIDE DEF c
  <2>5. AboutQuestion(r, c) /\ ReplyConsistent(r, c)
    BY <1>1, <2>4, Lists DEF AboutQuestion, ReplyConsistent, Streaming
  <2>6. TasksConsistent(r, c)
    BY <2>1, <2>4, Lists DEF TasksConsistent
  <2>7. SavedConsistent(r, c)
    <3>1. c.tasks \notin {<<"assistant", "cache">>, <<"assistant">>} /\ c.tasks # <<"cache">>
      BY <2>4, Lists DEF CachedExchange, ServedExchange
    <3>2. QED
      BY <1>2, <2>4, <3>1 DEF SavedConsistent
  <2>8. ReportConsistent(c) /\ ContextConsistent(c)
    BY <1>1, <2>1, <2>4 DEF Consistent, ReportConsistent, ContextConsistent, Streaming
  <2>9. MayBecome(r, c)
    BY <1>1, <2>3, <2>4, <2>5, <2>6, <2>7, <2>8 DEF MayBecome, Consistent, At
  <2>10. Becomes(r, c)
    <3> DEFINE d == [req[r] EXCEPT !.kind = kind, !.report = report, !.tasks = <<"report">>]
    <3>1. d.tasks = <<"report">> /\ [d EXCEPT !.pc = "tasks"] = c
      BY <1>1 DEF c, RequestRecord
    <3>2. AfterResponse(d) = [d EXCEPT !.pc = "tasks"]
      BY <3>1, Lists DEF AfterResponse
    <3>3. QED
      BY <1>4, <3>1, <3>2 DEF Returns, ReportTasks
  <2>11. /\ req' \in [Requests -> RequestRecord]
         /\ \A p \in Requests : Consistent(p, req[p])'
         /\ HistoryConsistent'
         /\ \A e \in cache : At(e.reply, "over")' /\ SavedRoles(e.reply)' = Whole
    BY <1>1, <2>9, <2>10, MovesOne
  <2>12. given' \subseteq [by : Requests, form : Forms]
    <3>1. report.form \in Forms
      BY <2>1 DEF ReportRecord
    <3>2. QED
      BY <1>4, <3>1 DEF Returns, IInv, TypeInv
  <2>13. TypeInv'
    BY <1>1, <2>11, <2>12 DEF IInv, TypeInv, world
  <2>14. CacheConsistent'
    BY <1>1, <2>11 DEF IInv, CacheConsistent, CachedOnce
  <2>15. QED
    BY <2>11, <2>13, <2>14 DEF IInv
<1>5. QED
  BY <1>3, <1>4 DEF Reported, Refuses

-----------------------------------------------------------------------------
\* Background tasks.

\* The locals of a request once its first task is done.
LEMMA NextTask ==
  ASSUME IInv, NEW r \in Requests, req[r].pc = "tasks"
  PROVE  /\ Tail(req[r].tasks) \in TaskLists
         /\ Next1(r) \in RequestRecord
         /\ Next1(r).tasks = Tail(req[r].tasks)
         /\ Next1(r).pc = IF Tail(req[r].tasks) = <<>> THEN "over" ELSE "tasks"
         /\ Next1(r).kind = req[r].kind /\ Next1(r).sid = req[r].sid /\ Next1(r).q = req[r].q
         /\ Next1(r).reply = req[r].reply /\ Next1(r).cut = req[r].cut
         /\ Next1(r).report \in {req[r].report, None}
         /\ Next1(r).past \in {req[r].past, {}} /\ Next1(r).base \in {req[r].base, 0}
<1> DEFINE tail == Tail(req[r].tasks)
           d    == [req[r] EXCEPT !.tasks = tail, !.tries = 0]
<1>1. /\ req[r] \in RequestRecord /\ Consistent(r, req[r]) /\ req[r].tasks # <<>>
      /\ req[r].tasks \in TaskLists /\ 0 \in 0 .. MaxRetries
  BY Types, AssistantAssumption DEF RequestRecord, Consistent, TasksConsistent, AssistantAssumption
<1>2. tail \in TaskLists
  <2>1. Head(req[r].tasks) \in {"user", "assistant", "cache", "report"}
    BY <1>1 DEF TaskLists, CachedExchange, ServedExchange
  <2>2. tail \in {<<"assistant", "cache">>, <<"assistant">>, <<"cache">>, <<>>}
    BY <1>1, <2>1, Tails
  <2>3. QED
    BY <2>2 DEF TaskLists, CachedExchange, ServedExchange
<1> HIDE DEF tail
<1>3. d \in RequestRecord
  BY <1>1, <1>2 DEF RequestRecord
<1>4. /\ d.tasks = tail /\ d.kind = req[r].kind /\ d.sid = req[r].sid /\ d.q = req[r].q
      /\ d.reply = req[r].reply /\ d.cut = req[r].cut /\ d.report = req[r].report
      /\ d.past = req[r].past /\ d.base = req[r].base
  BY <1>1, <1>2 DEF RequestRecord
<1>5. Next1(r) = AfterResponse(d)
  BY DEF Next1, tail
<1> HIDE DEF d
<1>6. CASE tail = <<>>
  <2>1. Next1(r) = Over(d)
    BY <1>4, <1>5, <1>6 DEF AfterResponse
  <2>2. Over(d).q = d.q
    BY <1>3 DEF Over, RequestRecord
  <2>3. QED
    BY <1>3, <1>4, <1>6, <2>1, <2>2, OverType, AssistantAssumption DEF tail, TaskLists
<1>7. CASE tail # <<>>
  <2>1. Next1(r) = [d EXCEPT !.pc = "tasks"]
    BY <1>4, <1>5, <1>7 DEF AfterResponse
  <2>2. [d EXCEPT !.pc = "tasks"] \in RequestRecord
    BY <1>3 DEF RequestRecord, Steps
  <2>3. /\ [d EXCEPT !.pc = "tasks"].pc = "tasks" /\ [d EXCEPT !.pc = "tasks"].tasks = d.tasks
        /\ [d EXCEPT !.pc = "tasks"].kind = d.kind /\ [d EXCEPT !.pc = "tasks"].sid = d.sid
        /\ [d EXCEPT !.pc = "tasks"].q = d.q /\ [d EXCEPT !.pc = "tasks"].reply = d.reply
        /\ [d EXCEPT !.pc = "tasks"].cut = d.cut /\ [d EXCEPT !.pc = "tasks"].report = d.report
        /\ [d EXCEPT !.pc = "tasks"].past = d.past /\ [d EXCEPT !.pc = "tasks"].base = d.base
    BY <1>3 DEF RequestRecord
  <2>4. QED
    BY <1>2, <1>4, <1>7, <2>1, <2>2, <2>3 DEF tail
<1>8. QED
  BY <1>6, <1>7

LEMMA TaskFails ==
  ASSUME IInv, NEW r \in Requests, Fails(r), UNCHANGED world
  PROVE  IInv'
<1> DEFINE d == [req[r] EXCEPT !.cut = TRUE]
<1>1. req[r] \in RequestRecord /\ Consistent(r, req[r]) /\ Becomes(r, Over(d)) /\ UNCHANGED stores
  BY Types DEF Fails
<1>2. d \in RequestRecord
  BY <1>1 DEF RequestRecord
<1>3. d.cut = TRUE /\ d.kind = req[r].kind /\ d.sid = req[r].sid /\ d.reply = req[r].reply
  BY <1>1 DEF RequestRecord
<1>4. req[r].kind \in KindsOf[r] \cup {None}
  BY <1>1 DEF Consistent, AboutQuestion
<1> HIDE DEF d
<1>5. MayBecome(r, Over(d))
  BY <1>2, <1>3, <1>4, Ends
<1>6. QED
  BY <1>1, <1>5, Local

\* The last task: its request is over.
LEMMA LastTask ==
  ASSUME IInv, NEW r \in Requests, req[r].pc = "tasks", Tail(req[r].tasks) = <<>>,
         req[r].reply = None \/ SavedRoles(r) = Whole
  PROVE  MayBecome(r, Next1(r)) /\ Next1(r).pc = "over"
<1> DEFINE c == Next1(r)
<1>1. /\ c \in RequestRecord /\ c.tasks = <<>> /\ c.pc = "over" /\ c.kind = req[r].kind
      /\ c.sid = req[r].sid /\ c.reply = req[r].reply /\ c.report \in {req[r].report, None}
      /\ c.past \in {req[r].past, {}} /\ c.base \in {req[r].base, 0}
  BY NextTask
<1>2. Consistent(r, req[r]) /\ history \in Seq([by : Requests, role : {"user", "assistant"}])
  BY Types DEF IInv, TypeInv
<1> HIDE DEF c
<1>3. AboutQuestion(r, c) /\ ReplyConsistent(r, c) /\ TasksConsistent(r, c)
  BY <1>1, <1>2, Lists DEF Consistent, AboutQuestion, ReplyConsistent, TasksConsistent, Streaming
<1>4. SavedConsistent(r, c)
  BY <1>1, <1>2, Lists DEF Consistent, SavedConsistent, CachedExchange, ServedExchange
<1>5. ReportConsistent(c) /\ ContextConsistent(c)
  <2>1. 0 \in 0 .. Len(history)
    BY <1>2, LenProperties
  <2>2. QED
    BY <1>1, <1>2, <2>1 DEF Consistent, ReportConsistent, ContextConsistent, Streaming
<1>6. QED
  BY <1>1, <1>3, <1>4, <1>5 DEF c, MayBecome, Consistent

LEMMA Caches ==
  ASSUME IInv, NEW r \in Requests, set_cached_response(r)
  PROVE  IInv'
<1> DEFINE new == [q |-> req[r].q, reply |-> req[r].reply, at |-> now]
<1>1. /\ req[r] \in RequestRecord /\ Consistent(r, req[r]) /\ req[r].pc = "tasks"
      /\ Head(req[r].tasks) = "cache" /\ cache' \in {cache, cache \cup {new}}
      /\ Becomes(r, Next1(r)) /\ UNCHANGED <<history, reports, given, world>>
  BY Types DEF set_cached_response, Todo, At
<1>2. req[r].tasks = <<"cache">> /\ Tail(req[r].tasks) = <<>>
  BY <1>1, Tails DEF RequestRecord, Consistent, TasksConsistent
<1>3. req[r].tasks \in CachedExchange
  BY <1>2 DEF CachedExchange
<1>4. SavedRoles(r) = Whole /\ req[r].reply = r /\ req[r].q \in Questions
  BY <1>1, <1>2, <1>3 DEF Consistent, SavedConsistent, ReplyConsistent, AboutQuestion
<1>5. MayBecome(r, Next1(r)) /\ Next1(r).pc = "over"
  BY <1>1, <1>2, <1>4, LastTask
<1>6. /\ req' \in [Requests -> RequestRecord]
      /\ \A p \in Requests : Consistent(p, req[p])'
      /\ HistoryConsistent'
      /\ \A e \in cache : At(e.reply, "over")' /\ SavedRoles(e.reply)' = Whole
  BY <1>1, <1>5, MovesOne
<1>7. new \in [q : Questions, reply : Requests, at : 0 .. MaxNow] /\ new.reply = r
  BY <1>4 DEF IInv, TypeInv
<1>8. At(r, "over")' /\ SavedRoles(r)' = Whole
  BY <1>1, <1>4, <1>5 DEF At, Becomes, IInv, TypeInv, SavedRoles
<1>9. TypeInv'
  <2>1. cache' \subseteq [q : Questions, reply : Requests, at : 0 .. MaxNow]
    BY <1>1, <1>7 DEF IInv, TypeInv
  <2>2. QED
    BY <1>1, <1>6, <2>1 DEF IInv, TypeInv, world
<1>10. \A e \in cache : e.reply # r
  BY <1>1 DEF IInv, CacheConsistent, At
<1> HIDE DEF new
<1>11. CacheConsistent'
  <2>1. \A e \in cache' : At(e.reply, "over")' /\ SavedRoles(e.reply)' = Whole
    BY <1>1, <1>6, <1>7, <1>8
  <2>2. \A e, f \in cache' : e.reply = f.reply => e = f
    BY <1>1, <1>7, <1>10 DEF IInv, CacheConsistent, CachedOnce
  <2>3. QED
    BY <2>1, <2>2 DEF CacheConsistent, CachedOnce
<1>12. QED
  BY <1>6, <1>9, <1>11 DEF IInv

LEMMA SavesReport ==
  ASSUME IInv, NEW r \in Requests, save_report(r)
  PROVE  IInv'
<1>1. /\ req[r] \in RequestRecord /\ Consistent(r, req[r]) /\ req[r].pc = "tasks"
      /\ Head(req[r].tasks) = "report" /\ UNCHANGED world
  BY Types DEF save_report, Todo, At
<1>2. req[r].tasks = <<"report">> /\ Tail(req[r].tasks) = <<>>
  BY <1>1, Tails DEF RequestRecord, Consistent, TasksConsistent
<1>3. CASE Fails(r)
  BY <1>1, <1>3, TaskFails
<1>4. ASSUME reports' = reports \cup {[by |-> r, form |-> req[r].report.form]},
             Becomes(r, Next1(r)), UNCHANGED <<history, cache, given>>
      PROVE  IInv'
  <2> DEFINE new == [by |-> r, form |-> req[r].report.form]
  <2>1. req[r].reply = None
    BY <1>1, <1>2, Lists DEF Consistent, ReplyConsistent, TasksConsistent
  <2>2. MayBecome(r, Next1(r))
    BY <1>1, <1>2, <2>1, LastTask
  <2>3. /\ req' \in [Requests -> RequestRecord]
        /\ \A p \in Requests : Consistent(p, req[p])'
        /\ HistoryConsistent'
        /\ \A e \in cache : At(e.reply, "over")' /\ SavedRoles(e.reply)' = Whole
    BY <1>4, <2>2, MovesOne
  <2>4. new \in [by : Requests, form : Forms]
    BY <1>1, <1>2 DEF Consistent, TasksConsistent, ReportRecord
  <2> HIDE DEF new
  <2>5. TypeInv'
    BY <1>1, <1>4, <2>3, <2>4 DEF new, IInv, TypeInv, world
  <2>6. CacheConsistent'
    BY <1>4, <2>3 DEF IInv, CacheConsistent, CachedOnce
  <2>7. QED
    BY <2>3, <2>5, <2>6 DEF IInv
<1>5. QED
  BY <1>3, <1>4 DEF save_report

\* One row more: what it changes for the requests and the sessions.
LEMMA Appended ==
  ASSUME TypeInv, NEW r \in Requests, NEW role \in Whole,
         history' = Append(history, [by |-> r, role |-> role]),
         \A q \in Requests : req'[q].sid = req[q].sid
  PROVE  /\ history' \in Seq([by : Requests, role : {"user", "assistant"}])
         /\ Len(history') = Len(history) + 1 /\ Len(history) \in Nat
         /\ DOMAIN history = 1 .. Len(history)
         /\ DOMAIN history' = 1 .. Len(history) + 1
         /\ \A i \in DOMAIN history : history'[i] = history[i]
         /\ history'[Len(history) + 1] = [by |-> r, role |-> role]
         /\ SavedRoles(r)' = SavedRoles(r) \cup {role}
         /\ \A q : q # r => SavedRoles(q)' = SavedRoles(q)
         /\ \A s : \A i \in Rows(s)' : i \in Rows(s) \/ i = Len(history) + 1
<1> DEFINE Row == [by : Requests, role : {"user", "assistant"}]
           new == [by |-> r, role |-> role]
           n   == Len(history) + 1
<1>1. history \in Seq(Row) /\ new \in Row /\ history' = Append(history, new)
  BY DEF TypeInv, Whole
<1>2. new.by = r /\ new.role = role
  OBVIOUS
<1> HIDE DEF Row, new
<1>3. /\ history' \in Seq(Row) /\ Len(history') = n /\ Len(history) \in Nat
      /\ DOMAIN history = 1 .. Len(history) /\ DOMAIN history' = 1 .. n
      /\ \A i \in DOMAIN history : history'[i] = history[i]
      /\ history'[n] = new
  BY <1>1, LenProperties, AppendProperties
<1>4. DOMAIN history' = DOMAIN history \cup {n} /\ n \notin DOMAIN history
  BY <1>3
<1> HIDE DEF n
<1>5. SavedRoles(r)' = SavedRoles(r) \cup {role}
  BY <1>2, <1>3, <1>4 DEF SavedRoles
<1>6. ASSUME NEW q, q # r
      PROVE  SavedRoles(q)' = SavedRoles(q)
  BY <1>2, <1>3, <1>4, <1>6 DEF SavedRoles
<1>7. ASSUME NEW s, NEW i \in Rows(s)', i # n
      PROVE  i \in Rows(s)
  <2>1. i \in DOMAIN history /\ history'[i] = history[i] /\ req'[history[i].by].sid = s
    BY <1>3, <1>4, <1>7 DEF Rows
  <2>2. history[i].by \in Requests
    BY <2>1, RowType
  <2>3. QED
    BY <2>1, <2>2 DEF Rows
<1>8. QED
  BY <1>3, <1>5, <1>6, <1>7 DEF Row, new, n

LEMMA Adds ==
  ASSUME IInv, NEW r \in Requests, NEW role \in Whole, add_message(r, role)
  PROVE  IInv'
<1>1. /\ TypeInv /\ req[r] \in RequestRecord /\ Consistent(r, req[r]) /\ req[r].pc = "tasks"
      /\ Head(req[r].tasks) = role /\ UNCHANGED world
  BY Types DEF add_message, Todo, At, IInv, Whole
<1>2. \/ role = "user" /\ req[r].tasks = <<"user", "assistant", "cache">>
           /\ Tail(req[r].tasks) = <<"assistant", "cache">>
      \/ role = "user" /\ req[r].tasks = <<"user", "assistant">> /\ Tail(req[r].tasks) = <<"assistant">>
      \/ role = "assistant" /\ req[r].tasks = <<"assistant", "cache">> /\ Tail(req[r].tasks) = <<"cache">>
      \/ role = "assistant" /\ req[r].tasks = <<"assistant">> /\ Tail(req[r].tasks) = <<>>
  BY <1>1, Tails DEF RequestRecord, Consistent, TasksConsistent, Whole
<1>3. CASE Fails(r)
  BY <1>1, <1>3, TaskFails
<1>4. ASSUME history' = Append(history, [by |-> r, role |-> role]),
             Becomes(r, Next1(r)), UNCHANGED <<cache, reports, given>>
      PROVE  IInv'
  <2> DEFINE c == Next1(r)
             n == Len(history) + 1
  <2>1. /\ c \in RequestRecord /\ c.tasks = Tail(req[r].tasks) /\ c.kind = req[r].kind
        /\ c.sid = req[r].sid /\ c.q = req[r].q /\ c.reply = req[r].reply
        /\ c.pc = IF Tail(req[r].tasks) = <<>> THEN "over" ELSE "tasks"
        /\ c.report \in {req[r].report, None}
        /\ c.past \in {req[r].past, {}} /\ c.base \in {req[r].base, 0}
    BY <1>1, NextTask
  <2> HIDE DEF c
  <2>2. req' = [q \in Requests |-> IF q = r THEN c ELSE req[q]]
    BY <1>1, <1>4 DEF c, Becomes, TypeInv
  <2>3. \A q \in Requests : req'[q].sid = req[q].sid
    BY <2>1, <2>2
  <2>4. /\ history' \in Seq([by : Requests, role : {"user", "assistant"}])
        /\ Len(history') = n /\ Len(history) \in Nat
        /\ DOMAIN history = 1 .. Len(history)
        /\ DOMAIN history' = 1 .. n
        /\ \A i \in DOMAIN history : history'[i] = history[i]
        /\ history'[n] = [by |-> r, role |-> role]
        /\ SavedRoles(r)' = SavedRoles(r) \cup {role}
        /\ \A q : q # r => SavedRoles(q)' = SavedRoles(q)
        /\ \A s : \A i \in Rows(s)' : i \in Rows(s) \/ i = n
    BY <1>1, <1>4, <2>3, Appended
  <2>5. TypeInv'
    BY <1>1, <1>4, <2>1, <2>2, <2>4 DEF TypeInv, world
  <2>6. ASSUME NEW d \in RequestRecord, ContextConsistent(d)
        PROVE  ContextConsistent(d)'
    <3>1. d.base \in 0 .. Len(history')
      BY <2>4, <2>6 DEF ContextConsistent
    <3>2. d.past \subseteq DOMAIN history'
      BY <2>4, <2>6 DEF ContextConsistent
    <3>3. ASSUME d.pc \in Streaming, d.tasks = <<>>,
                 NEW i \in Rows(d.sid)', i <= d.base, i \notin d.past
          PROVE  Cardinality(d.past) >= HistoryLimit /\ \A j \in d.past : j > i
      <4>1. d.base <= Len(history) /\ i # n
        BY <2>4, <2>6, <3>3 DEF ContextConsistent
      <4>2. i \in Rows(d.sid)
        BY <2>4, <3>3, <4>1
      <4>3. QED
        BY <2>6, <3>3, <4>2 DEF ContextConsistent
    <3>4. QED
      BY <3>1, <3>2, <3>3 DEF ContextConsistent
  <2>7. ASSUME NEW q \in Requests
        PROVE  Consistent(q, req[q])'
    <3>1. CASE q # r
      <4>1. req'[q] = req[q] /\ Consistent(q, req[q]) /\ req[q] \in RequestRecord
        BY <2>2, <3>1, Types
      <4>2. PICK d \in RequestRecord : d = req[q] /\ Consistent(q, d)
        BY <4>1
      <4>3. req'[q] = d /\ SavedRoles(q)' = SavedRoles(q) /\ ContextConsistent(d)'
        BY <2>4, <2>6, <3>1, <4>1, <4>2 DEF Consistent
      <4>4. QED
        BY <4>2, <4>3
           DEF Consistent, AboutQuestion, ReplyConsistent, TasksConsistent, SavedConsistent,
               ReportConsistent, ContextConsistent
    <3>2. CASE q = r
      <4>1. PICK d \in RequestRecord : d = c /\ req'[q] = d
        BY <2>1, <2>2, <3>2
      <4>2. d.reply # None /\ (d.tasks \in CachedExchange => d.reply = r)
        BY <1>1, <1>2, <2>1, <4>1, Lists, AssistantAssumption
           DEF Consistent, ReplyConsistent, CachedExchange, ServedExchange, AssistantAssumption
      <4>3. d.q \in Questions
        BY <1>1, <1>2, <2>1, <4>1 DEF Consistent, AboutQuestion, CachedExchange, ServedExchange
      <4>4. AboutQuestion(q, d)
        BY <1>1, <2>1, <3>2, <4>1, <4>3 DEF Consistent, AboutQuestion
      <4>5. ReplyConsistent(q, d)
        BY <1>2, <2>1, <3>2, <4>1, <4>2, Lists DEF ReplyConsistent, CachedExchange, ServedExchange
      <4>6. TasksConsistent(q, d)
        BY <1>2, <2>1, <4>1, Lists DEF TasksConsistent, CachedExchange, ServedExchange
      <4>7. \/ d.tasks \in {<<"assistant", "cache">>, <<"assistant">>} /\ SavedRoles(r)' = {"user"}
            \/ d.tasks \in {<<"cache">>, <<>>} /\ SavedRoles(r)' = Whole
        <5>1. CASE role = "user"
          <6>1. SavedRoles(r) = {}
            BY <1>1, <1>2, <5>1 DEF Consistent, SavedConsistent
          <6>2. QED
            BY <1>2, <2>1, <2>4, <4>1, <5>1, <6>1
        <5>2. CASE role = "assistant"
          <6>1. SavedRoles(r) = {"user"}
            BY <1>1, <1>2, <5>2 DEF Consistent, SavedConsistent
          <6>2. QED
            BY <1>2, <2>1, <2>4, <4>1, <5>2, <6>1 DEF Whole
        <5>3. QED
          BY <1>2, <5>1, <5>2
      <4>8. (d.pc = "over" => d.tasks = <<>>) /\ d.pc \in {"over", "tasks"}
        BY <2>1, <4>1
      <4>9. SavedConsistent(q, d)'
        <5>1. d.tasks \notin {<<"user", "assistant", "cache">>, <<"user", "assistant">>}
          BY <1>2, <2>1, <4>1, Lists DEF CachedExchange, ServedExchange
        <5>2. d.tasks \in {<<"assistant", "cache">>, <<"assistant">>} => SavedRoles(r)' = {"user"}
          BY <4>7, Lists
        <5>3. d.tasks \in {<<"cache">>, <<>>} => SavedRoles(r)' = Whole
          BY <4>7, Lists
        <5>4. QED
          BY <3>2, <4>2, <4>8, <5>1, <5>2, <5>3 DEF SavedConsistent
      <4>10. ReportConsistent(d)
        BY <1>1, <2>1, <4>1 DEF Consistent, ReportConsistent
      <4>11. ContextConsistent(d)
        <5>1. d.pc \in Streaming => FALSE
          BY <4>8 DEF Streaming
        <5>2. req[r].past \subseteq DOMAIN history /\ req[r].base \in 0 .. Len(history)
          BY <1>1 DEF Consistent, ContextConsistent
        <5>3. d.past \subseteq DOMAIN history
          BY <2>1, <4>1, <5>2
        <5>4. 0 \in 0 .. Len(history)
          BY <2>4
        <5>5. d.base \in 0 .. Len(history)
          BY <2>1, <4>1, <5>2, <5>4
        <5>6. QED
          BY <5>1, <5>3, <5>5 DEF ContextConsistent
      <4>12. ContextConsistent(d)'
        BY <2>6, <4>11
      <4>13. QED
        BY <4>1, <4>4, <4>5, <4>6, <4>9, <4>10, <4>12
           DEF Consistent, AboutQuestion, ReplyConsistent, TasksConsistent, SavedConsistent,
               ReportConsistent, ContextConsistent
    <3>3. QED
      BY <3>1, <3>2
  <2>8. HistoryConsistent'
    <3>1. role \notin SavedRoles(r) /\ (role = "assistant" => "user" \in SavedRoles(r))
      BY <1>1, <1>2 DEF Consistent, SavedConsistent
    <3>2. \A i \in DOMAIN history : history[i] # [by |-> r, role |-> role]
      BY <3>1 DEF SavedRoles
    <3>3. role = "assistant" => \E j \in DOMAIN history : history[j] = [by |-> r, role |-> "user"]
      <4>1. ASSUME role = "assistant"
            PROVE  \E j \in DOMAIN history : history[j] = [by |-> r, role |-> "user"]
        <5>1. PICK j \in DOMAIN history : history[j].by = r /\ history[j].role = "user"
          BY <3>1, <4>1 DEF SavedRoles
        <5>2. history[j] \in [by : Requests, role : {"user", "assistant"}]
          BY <1>1, RowType
        <5>3. history[j] = [by |-> r, role |-> "user"]
          BY <5>1, <5>2
        <5>4. QED
          BY <5>3
      <4>2. QED
        BY <4>1
    <3>4. ASSUME NEW i \in DOMAIN history', history'[i].role = "assistant"
          PROVE  \E j \in DOMAIN history' :
                   j < i /\ history'[j] = [by |-> history'[i].by, role |-> "user"]
      <4>1. CASE i \in DOMAIN history
        <5>1. PICK j \in DOMAIN history :
                j < i /\ history[j] = [by |-> history[i].by, role |-> "user"]
          BY <2>4, <3>4, <4>1 DEF IInv, HistoryConsistent
        <5>2. j \in DOMAIN history' /\ history'[j] = history[j] /\ history'[i] = history[i]
          BY <2>4, <4>1
        <5>3. QED
          BY <5>1, <5>2
      <4>2. CASE i = n
        <5>1. history'[i].by = r /\ role = "assistant"
          BY <2>4, <3>4, <4>2
        <5>2. PICK j \in DOMAIN history : history[j] = [by |-> r, role |-> "user"]
          BY <3>3, <5>1
        <5>3. j \in DOMAIN history' /\ j < i /\ history'[j] = history[j]
          BY <2>4, <4>2
        <5>4. QED
          BY <5>1, <5>2, <5>3
      <4>3. QED
        BY <2>4, <4>1, <4>2
    <3>5. ASSUME NEW i \in DOMAIN history', NEW j \in DOMAIN history', history'[i] = history'[j]
          PROVE  i = j
      <4>1. CASE i \in DOMAIN history /\ j \in DOMAIN history
        BY <2>4, <3>5, <4>1 DEF IInv, HistoryConsistent
      <4>2. CASE i \in DOMAIN history /\ j = n
        BY <2>4, <3>2, <3>5, <4>2
      <4>3. CASE i = n /\ j \in DOMAIN history
        BY <2>4, <3>2, <3>5, <4>3
      <4>4. QED
        BY <2>4, <4>1, <4>2, <4>3
    <3>6. QED
      BY <3>4, <3>5 DEF HistoryConsistent
  <2>9. CacheConsistent'
    <3>1. ASSUME NEW e \in cache
          PROVE  At(e.reply, "over")' /\ SavedRoles(e.reply)' = Whole
      <4>1. e.reply \in Requests /\ req[e.reply].pc = "over" /\ SavedRoles(e.reply) = Whole
        BY <1>1 DEF TypeInv, IInv, CacheConsistent, At
      <4>2. e.reply # r
        BY <1>1, <4>1
      <4>3. QED
        BY <2>2, <2>4, <4>1, <4>2 DEF At
    <3>2. QED
      BY <1>4, <3>1 DEF IInv, CacheConsistent, CachedOnce
  <2>10. QED
    BY <2>5, <2>7, <2>8, <2>9 DEF IInv
<1>5. QED
  BY <1>3, <1>4 DEF add_message

-----------------------------------------------------------------------------
\* The environment.

LEMMA Environment ==
  ASSUME IInv, Tick \/ Outage \/ Recover
  PROVE  IInv'
<1>1. /\ up' \subseteq Services /\ now' \in 0 .. MaxNow
      /\ outages' \in 0 .. MaxOutages /\ kills' \in 0 .. MaxKills
  <2>1. /\ up \subseteq Services /\ now \in 0 .. MaxNow /\ outages \in 0 .. MaxOutages
        /\ kills \in 0 .. MaxKills /\ MaxNow \in Nat /\ MaxOutages \in Nat
    BY AssistantAssumption DEF IInv, TypeInv, AssistantAssumption
  <2>2. CASE Tick
    BY <2>1, <2>2 DEF Tick
  <2>3. CASE Outage
    BY <2>1, <2>3 DEF Outage
  <2>4. CASE Recover
    BY <2>1, <2>4 DEF Recover
  <2>5. QED
    BY <2>2, <2>3, <2>4
<1>2. UNCHANGED <<req, history, cache, reports, given>>
  BY DEF Tick, Outage, Recover, stores
<1>3. req' = [r \in Requests |-> req'[r]]
  BY <1>2 DEF IInv, TypeInv
<1>4. \A r \in Requests : \E c : req'[r] = c /\ MayBecome(r, c)
  BY <1>2, Stays
<1>5. /\ req' \in [Requests -> RequestRecord]
      /\ \A r \in Requests : Consistent(r, req[r])'
      /\ HistoryConsistent'
      /\ \A e \in cache : At(e.reply, "over")' /\ SavedRoles(e.reply)' = Whole
  BY <1>2, <1>3, <1>4, Moves
<1>6. QED
  BY <1>1, <1>2, <1>5 DEF IInv, TypeInv, CacheConsistent, CachedOnce

LEMMA Dies ==
  ASSUME IInv, Kill
  PROVE  IInv'
<1>1. PICK R \in SUBSET Active :
        req' = [r \in Requests |-> IF r \in R THEN Over([req[r] EXCEPT !.cut = TRUE]) ELSE req[r]]
  BY DEF Kill
<1>2. UNCHANGED <<history, cache, reports, given, up, now, outages>> /\ kills' \in 0 .. MaxKills
  BY AssistantAssumption DEF Kill, stores, IInv, TypeInv, AssistantAssumption
<1>3. ASSUME NEW r \in Requests
      PROVE  \E c : req'[r] = c /\ MayBecome(r, c)
  <2>1. CASE r \in R
    <3> DEFINE d == [req[r] EXCEPT !.cut = TRUE]
    <3>1. req[r] \in RequestRecord /\ Consistent(r, req[r])
      BY Types
    <3>2. d \in RequestRecord
      BY <3>1 DEF RequestRecord
    <3>3. d.cut = TRUE /\ d.kind = req[r].kind /\ d.sid = req[r].sid /\ d.reply = req[r].reply
      BY <3>1 DEF RequestRecord
    <3>4. req[r].kind \in KindsOf[r] \cup {None}
      BY <3>1 DEF Consistent, AboutQuestion
    <3>5. req'[r] = Over(d)
      BY <1>1, <2>1
    <3> HIDE DEF d
    <3>6. MayBecome(r, Over(d))
      BY <3>2, <3>3, <3>4, Ends
    <3>7. QED
      BY <3>5, <3>6
  <2>2. CASE r \notin R
    BY <1>1, <2>2, Stays
  <2>3. QED
    BY <2>1, <2>2
<1>4. req' = [r \in Requests |-> req'[r]]
  BY <1>1
<1>5. /\ req' \in [Requests -> RequestRecord]
      /\ \A r \in Requests : Consistent(r, req[r])'
      /\ HistoryConsistent'
      /\ \A e \in cache : At(e.reply, "over")' /\ SavedRoles(e.reply)' = Whole
  BY <1>2, <1>3, <1>4, Moves
<1>6. QED
  BY <1>2, <1>5 DEF IInv, TypeInv, CacheConsistent, CachedOnce

-----------------------------------------------------------------------------
\* The inductive invariant.

LEMMA Initially == Init => IInv
<1> SUFFICES ASSUME Init PROVE IInv
  OBVIOUS
<1>1. /\ req = [r \in Requests |-> Fresh] /\ history = <<>> /\ cache = {} /\ reports = {} /\ given = {}
      /\ up = Services /\ now = 0 /\ outages = 0 /\ kills = 0
      /\ {0} \subseteq (0 .. MaxNow) \cap (0 .. MaxOutages) \cap (0 .. MaxKills) \cap (0 .. MaxRetries)
  BY AssistantAssumption DEF Init, AssistantAssumption
<1>2. "idle" \in Steps /\ <<>> \in TaskLists
  BY DEF Steps, TaskLists
<1>3. Fresh \in RequestRecord
  BY <1>1, <1>2 DEF Fresh, RequestRecord
<1>4. history \in Seq([by : Requests, role : {"user", "assistant"}]) /\ Len(history) = 0
      /\ \A i : i \notin DOMAIN history
  BY <1>1
<1>5. TypeInv
  BY <1>1, <1>3, <1>4 DEF TypeInv
<1>6. ASSUME NEW r \in Requests
      PROVE  Consistent(r, Fresh)
  <2>1. SavedRoles(r) = {}
    BY <1>4 DEF SavedRoles
  <2>2. /\ Fresh.pc = "idle" /\ Fresh.kind = None /\ Fresh.base = 0 /\ Fresh.past = {}
        /\ Fresh.reply = None /\ Fresh.tasks = <<>> /\ Fresh.report = None /\ ~Fresh.cut
    BY DEF Fresh
  <2>3. AboutQuestion(r, Fresh) /\ ReplyConsistent(r, Fresh) /\ TasksConsistent(r, Fresh)
    BY <2>2, Lists DEF AboutQuestion, ReplyConsistent, TasksConsistent, Streaming
  <2>4. SavedConsistent(r, Fresh)
    BY <2>1, <2>2, Lists DEF SavedConsistent, CachedExchange, ServedExchange
  <2>5. ReportConsistent(Fresh) /\ ContextConsistent(Fresh)
    BY <1>4, <2>2 DEF ReportConsistent, ContextConsistent, Streaming
  <2>6. QED
    BY <2>3, <2>4, <2>5 DEF Consistent
<1>7. \A r \in Requests : Consistent(r, req[r])
  BY <1>1, <1>6
<1>8. HistoryConsistent /\ CacheConsistent
  BY <1>1, <1>4 DEF HistoryConsistent, CacheConsistent, CachedOnce
<1>9. QED
  BY <1>5, <1>7, <1>8 DEF IInv

LEMMA Step == IInv /\ [Next]_vars => IInv'
<1> SUFFICES ASSUME IInv, [Next]_vars PROVE IInv'
  OBVIOUS
<1>1. ASSUME NEW r \in Requests, Ask(r)
      PROVE  IInv'
  <2>1. CASE chat_stream(r) \/ legal_research(r)
    BY <2>1, Opens DEF chat_stream, legal_research
  <2>2. CASE verify_court_document(r) \/ predict_duration(r)
    BY <2>2, Reports1 DEF verify_court_document, predict_duration
  <2>3. CASE Stop(r)
    BY <2>3, Stops
  <2>4. QED
    BY <1>1, <2>1, <2>2, <2>3 DEF Ask
<1>2. ASSUME NEW r \in Requests, Serve(r)
      PROVE  IInv'
  <2>1. CASE Backoff(r) \/ Embed(r) \/ Lookup(r) \/ Load(r)
    BY <2>1, BacksOff, Embeds, LooksUp, Loads
  <2>2. CASE planner_node(r) \/ EmbedAgain(r) \/ retrieve_node(r) \/ tool_node(r)
    BY <2>2, Plans, EmbedsAgain, Retrieves, UsesTool
  <2>3. CASE generate_node(r) \/ event_generator(r) \/ Done(r)
    BY <2>3, Generates, QueuesTasks, Closes
  <2>4. CASE add_message(r, "user") \/ add_message(r, "assistant")
    BY <2>4, Adds DEF Whole
  <2>5. CASE set_cached_response(r) \/ save_report(r)
    BY <2>5, Caches, SavesReport
  <2>6. QED
    BY <1>2, <2>1, <2>2, <2>3, <2>4, <2>5 DEF Serve
<1>3. CASE Tick \/ Outage \/ Recover
  BY <1>3, Environment
<1>4. CASE Kill
  BY <1>4, Dies
<1>5. CASE UNCHANGED vars
  <2>1. \A r \in Requests : \E c : req'[r] = c /\ MayBecome(r, c)
    BY <1>5, Stays DEF vars
  <2>2. /\ req' \in [Requests -> RequestRecord]
        /\ \A r \in Requests : Consistent(r, req[r])'
        /\ HistoryConsistent'
        /\ \A e \in cache : At(e.reply, "over")' /\ SavedRoles(e.reply)' = Whole
    <3>1. UNCHANGED history /\ req' = [r \in Requests |-> req'[r]]
      BY <1>5 DEF vars, IInv, TypeInv
    <3>2. QED
      BY <2>1, <3>1, Moves
  <2>3. QED
    BY <1>5, <2>2 DEF vars, IInv, TypeInv, CacheConsistent, CachedOnce
<1>6. QED
  BY <1>1, <1>2, <1>3, <1>4, <1>5 DEF Next

\* Every reachable state satisfies the inductive invariant.
THEOREM InductiveInvariant == Spec => []IInv
BY Initially, Step, PTL DEF Spec

-----------------------------------------------------------------------------
\* The properties.

\* A set of numbers that is not empty has a smallest one.
LEMMA Smallest ==
  ASSUME NEW S, S # {}, S \subseteq Nat
  PROVE  \E m \in S : \A i \in S : m <= i
<1>1. PICK k \in S : TRUE
  OBVIOUS
<1> DEFINE T == {d \in 0 .. k : k - d \in S}
<1>2. k \in Nat /\ 0 \in T /\ T \subseteq 0 .. k /\ T \subseteq Nat
  BY <1>1
<1>3. IsFiniteSet(T)
  <2> HIDE DEF T
  <2>1. IsFiniteSet(0 .. k)
    BY <1>2, FS_Interval
  <2>2. QED
    BY <1>2, <2>1, FS_Subset
<1>4. PICK m \in T : \A d \in T : d <= m
  <2> HIDE DEF T
  <2>1. QED
    BY <1>2, <1>3, Largest
<1>5. ASSUME NEW i \in S, ~(k - m <= i)
      PROVE  FALSE
  <2>1. i \in Nat /\ m \in 0 .. k /\ i < k - m
    BY <1>2, <1>5
  <2>2. k - i \in T
    BY <1>2, <1>5, <2>1
  <2>3. k - i <= m
    BY <1>4, <2>2
  <2>4. QED
    BY <1>2, <2>1, <2>3
<1>6. QED
  BY <1>4, <1>5

\* A request that looks in the cache leaves it for the end of its stream by no
\* other step.
LEMMA OtherSteps ==
  ASSUME IInv, Next, NEW r \in Requests, req[r].pc = "lookup", ~Lookup(r)
  PROVE  req'[r].pc # "closing"
<1>1. req \in [Requests -> RequestRecord]
  BY DEF IInv, TypeInv
<1>2. ASSUME NEW p, p # r, NEW c, Becomes(p, c)
      PROVE  req'[r] = req[r]
  BY <1>1, <1>2 DEF Becomes
<1>3. ASSUME NEW p \in Requests, p # r, Ask(p) \/ Serve(p)
      PROVE  req'[r] = req[r]
  <2>1. CASE Ask(p)
    BY <1>2, <1>3, <2>1
       DEF Ask, chat_stream, legal_research, Open, verify_court_document, predict_duration, Reported,
           Returns, Refuses, Stop
  <2>2. CASE Backoff(p) \/ Embed(p) \/ Lookup(p) \/ Load(p)
    BY <1>2, <1>3, <2>2
       DEF Backoff, Embed, Lookup, stream_cache, _stream_cache, Replay, Load, agent_app, legal_research_app
  <2>3. CASE planner_node(p) \/ EmbedAgain(p) \/ retrieve_node(p) \/ tool_node(p)
    BY <1>2, <1>3, <2>3 DEF planner_node, EmbedAgain, retrieve_node, tool_node, Error
  <2>4. CASE generate_node(p) \/ event_generator(p) \/ Done(p)
    BY <1>2, <1>3, <2>4 DEF generate_node, event_generator, Done, Error
  <2>5. CASE add_message(p, "user") \/ add_message(p, "assistant") \/ set_cached_response(p) \/ save_report(p)
    BY <1>2, <1>3, <2>5 DEF add_message, set_cached_response, save_report, Fails
  <2>6. QED
    BY <1>3, <2>1, <2>2, <2>3, <2>4, <2>5 DEF Serve
<1>4. ~Ask(r)
  BY DEF Ask, chat_stream, legal_research, Open, verify_court_document, predict_duration, Reported,
         Arrives, Stop, At, Streaming
<1>5. ~Serve(r)
  <2>1. ~Backoff(r) /\ ~Embed(r) /\ ~Load(r)
    BY DEF Backoff, Calls, CachesWithoutVector, Embed, Load, At
  <2>2. ~planner_node(r) /\ ~EmbedAgain(r) /\ ~retrieve_node(r) /\ ~tool_node(r) /\ ~generate_node(r)
        /\ ~event_generator(r) /\ ~Done(r)
    BY DEF planner_node, EmbedAgain, retrieve_node, tool_node, generate_node, event_generator, Done, At
  <2>3. Todo(r) = "none"
    BY DEF Todo, At
  <2>4. ~add_message(r, "user") /\ ~add_message(r, "assistant") /\ ~set_cached_response(r) /\ ~save_report(r)
    BY <2>3 DEF add_message, set_cached_response, save_report
  <2>5. QED
    BY <2>1, <2>2, <2>4 DEF Serve
<1>6. CASE Tick \/ Outage \/ Recover
  BY <1>6 DEF Tick, Outage, Recover
<1>7. CASE Kill
  <2>1. PICK R \in SUBSET Active :
          req' = [p \in Requests |-> IF p \in R THEN Over([req[p] EXCEPT !.cut = TRUE]) ELSE req[p]]
    BY <1>7 DEF Kill
  <2>2. CASE r \in R
    <3>1. [req[r] EXCEPT !.cut = TRUE] \in RequestRecord
      BY <1>1 DEF RequestRecord
    <3>2. Over([req[r] EXCEPT !.cut = TRUE]).pc = "over"
      BY <3>1, OverType, AssistantAssumption
    <3>3. QED
      BY <2>1, <2>2, <3>2
  <2>3. CASE r \notin R
    BY <2>1, <2>3
  <2>4. QED
    BY <2>2, <2>3
<1>8. QED
  BY <1>3, <1>4, <1>5, <1>6, <1>7 DEF Next

\* The types of the requests, the stores and the clock.
THEOREM TypeCorrect == Spec => []AssistantTypeOK
<1>1. IInv => AssistantTypeOK
  <2> SUFFICES ASSUME IInv PROVE AssistantTypeOK
    OBVIOUS
  <2>1. ASSUME NEW r \in Requests
        PROVE  /\ DOMAIN req[r] = DOMAIN Fresh
               /\ req[r].pc \in Steps
               /\ req[r].kind \in KindsOf[r] \cup {None}
               /\ req[r].tries \in 0 .. MaxRetries
               /\ req[r].past \subseteq DOMAIN history
               /\ req[r].reply \in Requests \cup {None}
               /\ req[r].tasks \in Seq(Tasks)
               /\ req[r].pc \in {"idle", "over"} => req[r].tasks = <<>>
    <3>1. req[r] \in RequestRecord /\ Consistent(r, req[r])
      BY Types
    <3>2. DOMAIN req[r] = DOMAIN Fresh
      BY <3>1 DEF RequestRecord, Fresh
    <3>3. /\ req[r].pc \in Steps /\ req[r].tries \in 0 .. MaxRetries
          /\ req[r].reply \in Requests \cup {None} /\ req[r].tasks \in TaskLists
      BY <3>1 DEF RequestRecord
    <3>4. TaskLists \subseteq Seq(Tasks)
      BY DEF TaskLists, CachedExchange, ServedExchange, Tasks
    <3>5. QED
      BY <3>1, <3>2, <3>3, <3>4 DEF Consistent, AboutQuestion, ContextConsistent, TasksConsistent
  <2>2. QED
    BY <2>1 DEF IInv, TypeInv, AssistantTypeOK
<1>2. QED
  BY <1>1, InductiveInvariant, PTL

\* The page of a session shows each row once, an answer only below its
\* question, and has a preview: chat_stream, get_session_messages,
\* get_user_sessions.
THEOREM Ordered == Spec => []AnswerFollowsQuestion
<1>1. IInv => AnswerFollowsQuestion
  <2> SUFFICES ASSUME IInv, NEW s \in Sessions
               PROVE  /\ \A i \in Rows(s) : history[i].role = "assistant" =>
                           \E j \in Rows(s) : j < i /\ history[j] = [history[i] EXCEPT !.role = "user"]
                      /\ \A i, j \in Rows(s) : history[i] = history[j] => i = j
                      /\ s \in DOMAIN get_user_sessions => get_user_sessions[s] # {}
    BY DEF AnswerFollowsQuestion, get_session_messages
  <2>1. TypeInv /\ HistoryConsistent
    BY DEF IInv
  <2>2. \A i \in Rows(s) : i \in DOMAIN history /\ history[i] \in [by : Requests, role : Whole]
    BY <2>1, RowType DEF Rows, Whole
  <2>3. ASSUME NEW i \in Rows(s), history[i].role = "assistant"
        PROVE  \E j \in Rows(s) : j < i /\ history[j] = [history[i] EXCEPT !.role = "user"]
    <3>1. PICK j \in DOMAIN history : j < i /\ history[j] = [by |-> history[i].by, role |-> "user"]
      BY <2>1, <2>2, <2>3 DEF HistoryConsistent
    <3>2. j \in Rows(s)
      BY <3>1 DEF Rows
    <3>3. [history[i] EXCEPT !.role = "user"] = [by |-> history[i].by, role |-> "user"]
      BY <2>2
    <3>4. QED
      BY <3>1, <3>2, <3>3
  <2>4. \A i, j \in Rows(s) : history[i] = history[j] => i = j
    BY <2>1, <2>2 DEF HistoryConsistent
  <2>5. ASSUME s \in DOMAIN get_user_sessions
        PROVE  get_user_sessions[s] # {}
    <3> DEFINE asked == {i \in Rows(s) : history[i].role = "user"}
    <3>1. get_user_sessions[s] = Preview(s) /\ Rows(s) # {}
      BY <2>5 DEF get_user_sessions
    <3>2. asked # {}
      <4>1. PICK i \in Rows(s) : TRUE
        BY <3>1
      <4>2. CASE history[i].role = "user"
        BY <4>2
      <4>3. CASE history[i].role = "assistant"
        <5>1. PICK j \in Rows(s) : history[j] = [history[i] EXCEPT !.role = "user"]
          BY <2>3, <4>3
        <5>2. history[j].role = "user"
          BY <2>2, <5>1
        <5>3. QED
          BY <5>2
      <4>4. QED
        BY <2>2, <4>2, <4>3 DEF Whole
    <3>3. asked \subseteq Nat
      BY <2>1, RowNumbers DEF Rows
    <3>4. PICK i \in asked : \A j \in asked : i <= j
      <4> HIDE DEF asked
      <4>1. QED
        BY <3>2, <3>3, Smallest
    <3>5. i \in Preview(s)
      BY <3>4 DEF Preview
    <3>6. QED
      BY <3>1, <3>5
  <2>6. QED
    BY <2>3, <2>4, <2>5
<1>2. QED
  BY <1>1, InductiveInvariant, PTL

\* An exchange nothing cut short is saved whole, exactly when there was an
\* answer: chat_stream and its background tasks.
THEOREM WholeExchanges == Spec => []OnlyWholeExchanges
<1>1. IInv => OnlyWholeExchanges
  BY DEF IInv, Consistent, SavedConsistent, OnlyWholeExchanges, At, Whole
<1>2. QED
  BY <1>1, InductiveInvariant, PTL

\* An answer in the cache is in the history of the one who asked:
\* set_cached_response runs after both add_message.
THEOREM Saved == Spec => []CachedIsSaved
<1>1. IInv => CachedIsSaved
  BY DEF IInv, CacheConsistent, CachedIsSaved, Whole
<1>2. QED
  BY <1>1, InductiveInvariant, PTL

\* The cache has an answer once: a hit is not cached again.
THEOREM Once == Spec => []CachedOnce
<1>1. IInv => CachedOnce
  BY DEF IInv, CacheConsistent
<1>2. QED
  BY <1>1, InductiveInvariant, PTL

\* The context of a request misses only what newer messages replaced:
\* get_history.
THEOREM Complete == Spec => []ContextIsComplete
<1>1. IInv => ContextIsComplete
  BY DEF IInv, Consistent, ContextConsistent, ContextIsComplete
<1>2. QED
  BY <1>1, InductiveInvariant, PTL

-----------------------------------------------------------------------------
\* The audit log: an invariant of its own, on top of IInv.

Pending(r) == req[r].tasks = <<"report">>

Entry(r) == [by |-> r, form |-> req[r].report.form]

\* What became of a report that was given, once its request is over.
Settled(g) ==
  /\ At(g.by, "over")
  /\ g \in reports <=> ~req[g.by].cut
  /\ outages = 0 /\ kills = 0 /\ req[g.by].cut => g.form = "coercible"

\* A report that was given waits for its row, or it is settled.
LogInv ==
  /\ reports \subseteq given
  /\ outages = 0 => up = Services
  /\ \A r \in Requests : Pending(r) => Entry(r) \in given
  /\ \A g \in given :
       \/ Pending(g.by) /\ g = Entry(g.by) /\ ~req[g.by].cut /\ g \notin reports
       \/ Settled(g)

\* A request that is at work on something else was given no report.
LEMMA NoneGiven ==
  ASSUME IInv, LogInv, NEW r \in Requests, req[r].pc # "over", ~Pending(r)
  PROVE  \A g \in given : g.by \in Requests /\ g.by # r
BY DEF LogInv, Settled, At, IInv, TypeInv

LEMMA OneMoves ==
  ASSUME IInv, NEW r \in Requests, NEW c, Becomes(r, c)
  PROVE  req'[r] = c /\ \A q \in Requests : q # r => req'[q] = req[q]
BY DEF Becomes, IInv, TypeInv

\* A step of such a request.
LEMMA Quiet ==
  ASSUME IInv, LogInv, NEW r \in Requests, req[r].pc # "over", ~Pending(r),
         NEW c, Becomes(r, c), c.tasks # <<"report">>,
         UNCHANGED <<reports, given, up, outages, kills>>
  PROVE  LogInv'
<1>1. req'[r] = c /\ \A q \in Requests : q # r => req'[q] = req[q]
  BY OneMoves
<1>2. ASSUME NEW q \in Requests, Pending(q)'
      PROVE  Entry(q)' \in given'
  BY <1>1, <1>2 DEF LogInv, Pending, Entry
<1>3. ASSUME NEW g \in given'
      PROVE  \/ Pending(g.by)' /\ g = Entry(g.by)' /\ ~req'[g.by].cut /\ g \notin reports'
             \/ Settled(g)'
  <2>1. g \in given /\ req'[g.by] = req[g.by]
    BY <1>1, NoneGiven
  <2>2. QED
    BY <2>1 DEF LogInv, Pending, Entry, Settled, At
<1>4. QED
  BY <1>2, <1>3 DEF LogInv

\* Who waits for the row of a report.
LEMMA PendingIsTask ==
  ASSUME IInv, NEW r \in Requests
  PROVE  /\ req[r].pc # "tasks" => ~Pending(r)
         /\ req[r].tasks # <<>> /\ Head(req[r].tasks) # "report" => ~Pending(r)
         /\ req[r].pc \notin {"closing", "tasks"} => req[r].tasks = <<>>
<1>1. Consistent(r, req[r])
  BY Types
<1>2. req[r].pc # "tasks" => ~Pending(r)
  BY <1>1, Lists DEF Consistent, TasksConsistent, Pending, ServedExchange, CachedExchange
<1>3. Head(<<"report">>) = "report"
  OBVIOUS
<1>4. QED
  BY <1>1, <1>2, <1>3 DEF Consistent, TasksConsistent, Pending

LEMMA TasksAfter ==
  ASSUME NEW d \in RequestRecord, AssistantAssumption
  PROVE  Over(d).tasks = <<>> /\ AfterResponse(d).tasks \in {<<>>, d.tasks}
<1>1. Over(d).tasks = <<>>
  BY OverType
<1>2. [d EXCEPT !.pc = "tasks"].tasks = d.tasks
  BY DEF RequestRecord
<1>3. QED
  BY <1>1, <1>2 DEF AfterResponse

\* A step of a request that is answered.
LEMMA QuietStream ==
  ASSUME IInv, LogInv, NEW r \in Requests, req[r].pc \notin {"tasks", "over"},
         NEW c, Becomes(r, c), c.tasks \in {req[r].tasks, <<>>, HitTasks, FinalTasks(r), FinalTasks(None)},
         UNCHANGED <<reports, given, up, outages, kills>>
  PROVE  LogInv'
<1>1. ~Pending(r)
  BY PendingIsTask
<1>2. {<<>>, HitTasks, FinalTasks(r), FinalTasks(None)} \subseteq {<<>>} \cup CachedExchange \cup ServedExchange
  BY DEF HitTasks, FinalTasks, CachedExchange, ServedExchange
<1>3. c.tasks # <<"report">>
  BY <1>1, <1>2, Lists DEF Pending
<1>4. QED
  BY <1>1, <1>3, Quiet

LEMMA GoesTasks ==
  ASSUME IInv, NEW r \in Requests, NEW pc \in Steps
  PROVE  /\ Goes(r, pc) \in RequestRecord
         /\ Goes(r, pc).tasks = req[r].tasks
<1>1. req[r] \in RequestRecord /\ Goes(r, pc) \in RequestRecord
  BY Types, GoesType
<1>2. QED
  BY <1>1 DEF Goes, RequestRecord

\* From the question to the search.
LEMMA LogLooks ==
  ASSUME IInv, LogInv, NEW r \in Requests, Embed(r) \/ Lookup(r) \/ Load(r)
  PROVE  LogInv'
<1>1. /\ req[r] \in RequestRecord /\ req[r].pc \notin {"tasks", "over"}
      /\ UNCHANGED <<reports, given, up, outages, kills>>
  BY Types DEF Embed, Lookup, Load, At, stores, world
<1>2. {"lookup", "load", "closing", "plan", "search", "embed again"} \subseteq Steps
  BY DEF Steps, Streaming
<1>3. CASE Embed(r)
  <2>0. Goes(r, "lookup") \in RequestRecord /\ Goes(r, "lookup").tasks = req[r].tasks
    BY <1>2, GoesTasks
  <2>1. [Goes(r, "lookup") EXCEPT !.vec = TRUE].tasks = req[r].tasks
    BY <2>0 DEF RequestRecord
  <2>2. Goes(r, "load").tasks = req[r].tasks
    BY <1>2, GoesTasks
  <2>3. QED
    BY <1>1, <1>3, <2>1, <2>2, QuietStream DEF Embed
<1>4. CASE Lookup(r)
  <2>0. Goes(r, "closing") \in RequestRecord /\ Goes(r, "closing").tasks = req[r].tasks
    BY <1>2, GoesTasks
  <2>1. ASSUME NEW e
        PROVE  [Goes(r, "closing") EXCEPT !.reply = e.reply, !.tasks = HitTasks].tasks = HitTasks
    BY <2>0 DEF RequestRecord
  <2>2. Goes(r, "load").tasks = req[r].tasks
    BY <1>2, GoesTasks
  <2>3. QED
    BY <1>1, <1>4, <2>1, <2>2, QuietStream DEF Lookup, stream_cache, _stream_cache, Replay
<1>5. CASE Load(r)
  <2>1. ASSUME NEW pc \in Steps, NEW past
        PROVE  [Goes(r, pc) EXCEPT !.past = past].tasks = req[r].tasks
    BY GoesTasks DEF RequestRecord
  <2>2. Over(req[r]).tasks = <<>>
    BY <1>1, TasksAfter, AssistantAssumption
  <2>3. CASE Becomes(r, Over(req[r]))
    BY <1>1, <2>2, <2>3, QuietStream
  <2>4. CASE agent_app(r)
    BY <1>1, <1>2, <2>1, <2>4, QuietStream DEF agent_app
  <2>5. CASE legal_research_app(r)
    <3> DEFINE pc == IF req[r].vec THEN "search" ELSE "embed again"
    <3>1. pc \in Steps
      BY <1>2
    <3>2. Becomes(r, [Goes(r, pc) EXCEPT !.past = get_history(req[r].sid)])
      BY <2>5 DEF legal_research_app
    <3> HIDE DEF pc
    <3>3. [Goes(r, pc) EXCEPT !.past = get_history(req[r].sid)].tasks = req[r].tasks
      BY <2>1, <3>1
    <3>4. QED
      BY <1>1, <3>2, <3>3, QuietStream
  <2>6. QED
    BY <1>5, <2>3, <2>4, <2>5 DEF Load
<1>6. QED
  BY <1>3, <1>4, <1>5

\* The nodes of the graphs.
LEMMA LogNodes ==
  ASSUME IInv, LogInv, NEW r \in Requests,
         planner_node(r) \/ EmbedAgain(r) \/ retrieve_node(r) \/ tool_node(r) \/ generate_node(r)
  PROVE  LogInv'
<1>1. /\ req[r] \in RequestRecord /\ req[r].pc \notin {"tasks", "over"}
      /\ UNCHANGED <<reports, given, up, outages, kills>>
  BY Types DEF planner_node, EmbedAgain, retrieve_node, tool_node, generate_node, At, stores, world
<1>2. {"search", "embed again", "respond", "tool", "answered"} \subseteq Steps
  BY DEF Steps, Streaming
<1>3. ASSUME NEW pc \in {"search", "embed again", "respond", "tool", "answered"}, Becomes(r, Goes(r, pc))
      PROVE  LogInv'
  <2>1. Goes(r, pc).tasks = req[r].tasks
    BY <1>2, GoesTasks
  <2>2. QED
    BY <1>1, <1>3, <2>1, QuietStream
<1>4. CASE Error(r)
  <2>1. AfterResponse(req[r]).tasks \in {<<>>, req[r].tasks}
    BY <1>1, TasksAfter, AssistantAssumption
  <2>2. QED
    BY <1>1, <1>4, <2>1, QuietStream DEF Error
<1>5. CASE planner_node(r)
  <2>1. \A action : Route(r, action) \in {"search", "embed again", "respond", "tool"}
    BY DEF Route
  <2>2. PICK action : Becomes(r, Goes(r, Route(r, action)))
    BY <1>5 DEF planner_node
  <2>3. QED
    BY <1>3, <2>1, <2>2
<1>6. CASE EmbedAgain(r) \/ tool_node(r)
  BY <1>3, <1>4, <1>6 DEF EmbedAgain, tool_node
<1>7. CASE retrieve_node(r)
  <2>0. Goes(r, "respond") \in RequestRecord /\ Goes(r, "respond").tasks = req[r].tasks
    BY <1>2, GoesTasks
  <2>1. [Goes(r, "respond") EXCEPT !.retrieved = TRUE].tasks = req[r].tasks
    BY <2>0 DEF RequestRecord
  <2>2. QED
    BY <1>1, <1>4, <1>7, <2>1, QuietStream DEF retrieve_node
<1>8. CASE generate_node(r)
  <2>0. Goes(r, "answered") \in RequestRecord /\ Goes(r, "answered").tasks = req[r].tasks
    BY <1>2, GoesTasks
  <2>1. ASSUME NEW a
        PROVE  [Goes(r, "answered") EXCEPT !.reply = a].tasks = req[r].tasks
    BY <2>0 DEF RequestRecord
  <2>2. QED
    BY <1>1, <1>4, <1>8, <2>1, QuietStream DEF generate_node
<1>9. QED
  BY <1>5, <1>6, <1>7, <1>8

\* The end of the stream.
LEMMA LogCloses ==
  ASSUME IInv, LogInv, NEW r \in Requests, event_generator(r) \/ Done(r) \/ Stop(r)
  PROVE  LogInv'
<1>1. /\ req[r] \in RequestRecord /\ req[r].pc \notin {"tasks", "over"}
      /\ UNCHANGED <<reports, given, up, outages, kills>>
  BY Types DEF event_generator, Done, Stop, At, Streaming, stores, world
<1>2. CASE event_generator(r)
  <2> DEFINE c == [Goes(r, "closing") EXCEPT !.tasks = FinalTasks(req[r].reply)]
  <2>1. "closing" \in Steps
    BY DEF Steps, Streaming
  <2>2. c.tasks = FinalTasks(req[r].reply)
    BY <2>1, GoesTasks DEF RequestRecord
  <2>3. req[r].reply \in {r, None}
    BY <1>2, Types DEF event_generator, At, Consistent, ReplyConsistent
  <2>4. QED
    BY <1>1, <1>2, <2>2, <2>3, QuietStream DEF event_generator
<1>3. CASE Done(r)
  <2>1. AfterResponse(req[r]).tasks \in {<<>>, req[r].tasks}
    BY <1>1, TasksAfter, AssistantAssumption
  <2>2. QED
    BY <1>1, <1>3, <2>1, QuietStream DEF Done
<1>4. CASE Stop(r)
  <2> DEFINE left == [req[r] EXCEPT !.cut = TRUE, !.tries = 0]
  <2>1. 0 \in 0 .. MaxRetries
    BY AssistantAssumption DEF AssistantAssumption
  <2>2. left \in RequestRecord /\ left.tasks = req[r].tasks
    BY <1>1, <2>1 DEF RequestRecord
  <2>3. Becomes(r, Over(left)) \/ Becomes(r, AfterResponse(left))
    BY <1>4 DEF Stop
  <2> HIDE DEF left
  <2>4. Over(left).tasks = <<>> /\ AfterResponse(left).tasks \in {<<>>, req[r].tasks}
    BY <2>2, TasksAfter, AssistantAssumption
  <2>5. QED
    BY <1>1, <2>3, <2>4, QuietStream
<1>5. QED
  BY <1>2, <1>3, <1>4

\* A call that is made again.
LEMMA LogBacksOff ==
  ASSUME IInv, LogInv, NEW r \in Requests, Backoff(r)
  PROVE  LogInv'
<1> DEFINE c == [req[r] EXCEPT !.tries = NextTry(@)]
<1>1. /\ req[r] \in RequestRecord /\ Becomes(r, c)
      /\ UNCHANGED <<reports, given, up, outages, kills>>
  BY Types DEF Backoff, stores, world
<1>2. c.tasks = req[r].tasks
  BY <1>1 DEF RequestRecord
<1>3. req[r].pc # "over" /\ ~Pending(r)
  <2>1. Calls(r)
    BY DEF Backoff
  <2>2. CASE CachesWithoutVector(r)
    <3>1. req[r].pc = "tasks" /\ Head(req[r].tasks) = "cache"
      BY <2>2 DEF CachesWithoutVector, At
    <3>2. req[r].tasks # <<>>
      BY <3>1, Types DEF Consistent, TasksConsistent
    <3>3. QED
      BY <3>1, <3>2, PendingIsTask
  <2>3. CASE ~CachesWithoutVector(r)
    BY <2>1, <2>3, PendingIsTask DEF Calls
  <2>4. QED
    BY <2>2, <2>3
<1> HIDE DEF c
<1>4. QED
  BY <1>1, <1>2, <1>3, Quiet DEF Pending

\* A report is given: its request was idle, so it is the only one of it.
LEMMA LogReports ==
  ASSUME IInv, LogInv, NEW r \in Requests, NEW kind, NEW rs, Reported(r, kind, rs),
         rs \in {verify_document(up), predict_case_duration(up)}
  PROVE  LogInv'
<1>1. /\ req[r] \in RequestRecord /\ req[r].pc = "idle" /\ UNCHANGED <<reports, up, outages, kills>>
      /\ kind \in Kinds /\ req[r].tasks = <<>> /\ req[r].cut \in BOOLEAN
  BY Types, PendingIsTask, AssistantAssumption
     DEF Reported, Arrives, At, world, AssistantAssumption, RequestRecord
<1>2. PICK report \in rs : Returns(r, kind, report) \/ Refuses(r, kind, report)
  BY DEF Reported
<1>3. CASE Refuses(r, kind, report)
  <2> DEFINE d == [req[r] EXCEPT !.kind = kind]
  <2>1. d \in RequestRecord
    BY <1>1 DEF RequestRecord
  <2>2. Becomes(r, Over(d)) /\ UNCHANGED given
    BY <1>3 DEF Refuses
  <2> HIDE DEF d
  <2>3. Over(d).tasks = <<>>
    BY <2>1, TasksAfter, AssistantAssumption
  <2>4. QED
    BY <1>1, <2>2, <2>3, QuietStream
<1>4. CASE Returns(r, kind, report)
  <2> DEFINE d == [req[r] EXCEPT !.kind = kind, !.report = report, !.tasks = <<"report">>]
             c == [d EXCEPT !.pc = "tasks"]
             new == [by |-> r, form |-> report.form]
  <2>1. d.tasks = <<"report">> /\ c.tasks = <<"report">> /\ c.report = report /\ c.cut = req[r].cut
    BY <1>1 DEF RequestRecord
  <2>2. Becomes(r, c) /\ given' = given \cup {new}
    <3>1. AfterResponse(d) = c
      BY <2>1, Lists DEF AfterResponse
    <3>2. QED
      BY <1>4, <3>1 DEF Returns, ReportTasks
  <2> HIDE DEF c, d
  <2>3. req'[r] = c /\ \A q \in Requests : q # r => req'[q] = req[q]
    BY <2>2, OneMoves
  <2>4. ~req[r].cut
    BY <1>1, Types DEF Consistent, TasksConsistent
  <2>5. Entry(r)' = new
    BY <2>1, <2>3 DEF Entry
  <2>6. \A g \in given : g.by \in Requests /\ g.by # r
    <3>1. ~Pending(r)
      BY <1>1, PendingIsTask
    <3>2. QED
      BY <1>1, <3>1, NoneGiven
  <2>7. new.by = r /\ new \notin reports
    BY <2>6 DEF LogInv
  <2> HIDE DEF new
  <2>8. ASSUME NEW q \in Requests, Pending(q)'
        PROVE  Entry(q)' \in given'
    <3>1. CASE q = r
      BY <2>2, <2>5, <3>1
    <3>2. CASE q # r
      BY <2>2, <2>3, <2>8, <3>2 DEF LogInv, Pending, Entry
    <3>3. QED
      BY <3>1, <3>2
  <2>9. ASSUME NEW g \in given'
        PROVE  \/ Pending(g.by)' /\ g = Entry(g.by)' /\ ~req'[g.by].cut /\ g \notin reports'
               \/ Settled(g)'
    <3>1. CASE g = new
      BY <1>1, <2>1, <2>3, <2>4, <2>5, <2>7, <3>1 DEF Pending
    <3>2. CASE g \in given
      <4>1. req'[g.by] = req[g.by]
        BY <2>3, <2>6, <3>2
      <4>2. QED
        BY <1>1, <3>2, <4>1 DEF LogInv, Pending, Entry, Settled, At
    <3>3. QED
      BY <2>2, <3>1, <3>2
  <2>10. QED
    BY <1>1, <2>2, <2>8, <2>9 DEF LogInv
<1>5. QED
  BY <1>2, <1>3, <1>4

\* A task of an exchange.
LEMMA LogTasks ==
  ASSUME IInv, LogInv, NEW r \in Requests,
         add_message(r, "user") \/ add_message(r, "assistant") \/ set_cached_response(r)
  PROVE  LogInv'
<1>1. /\ req[r].pc = "tasks" /\ Head(req[r].tasks) \in {"user", "assistant", "cache"}
      /\ req[r] \in RequestRecord /\ Consistent(r, req[r])
      /\ UNCHANGED <<reports, given, up, outages, kills>>
      /\ Becomes(r, Next1(r)) \/ Fails(r)
  BY Types DEF add_message, set_cached_response, Todo, At, Fails, stores, world
<1>2. req[r].tasks # <<>> /\ ~Pending(r)
  BY <1>1, PendingIsTask DEF Consistent, TasksConsistent
<1>3. CASE Becomes(r, Next1(r))
  <2>1. Next1(r).tasks = Tail(req[r].tasks)
    BY <1>1, NextTask
  <2>2. Tail(req[r].tasks) \in {<<"assistant", "cache">>, <<"assistant">>, <<"cache">>, <<>>}
    BY <1>1, <1>2, Tails DEF RequestRecord
  <2>3. Next1(r).tasks # <<"report">>
    BY <2>1, <2>2, Lists DEF CachedExchange, ServedExchange
  <2>4. QED
    BY <1>1, <1>2, <1>3, <2>3, Quiet
<1>4. CASE Fails(r)
  <2> DEFINE d == [req[r] EXCEPT !.cut = TRUE]
  <2>1. d \in RequestRecord /\ Becomes(r, Over(d))
    BY <1>1, <1>4 DEF RequestRecord, Fails
  <2> HIDE DEF d
  <2>2. Over(d).tasks # <<"report">>
    BY <2>1, TasksAfter, Lists, AssistantAssumption
  <2>3. QED
    BY <1>1, <1>2, <2>1, <2>2, Quiet
<1>5. QED
  BY <1>1, <1>3, <1>4

\* The row of a report is written, or its task fails.
LEMMA LogSaves ==
  ASSUME IInv, LogInv, NEW r \in Requests, save_report(r)
  PROVE  LogInv'
<1> DEFINE new == Entry(r)
<1>1. /\ req[r] \in RequestRecord /\ Consistent(r, req[r]) /\ req[r].pc = "tasks"
      /\ Head(req[r].tasks) = "report" /\ UNCHANGED <<given, up, outages, kills>>
  BY Types DEF save_report, Todo, At, Fails, stores, world
<1>2. Pending(r) /\ Tail(req[r].tasks) = <<>>
  BY <1>1, Tails DEF RequestRecord, Consistent, TasksConsistent, Pending
<1>3. new \in given /\ new.by = r /\ new.form = req[r].report.form
  BY <1>2 DEF LogInv, Entry
<1>4. /\ \A g \in given : g.by = r => g = new
      /\ ~req[r].cut /\ new \notin reports
  BY <1>1, <1>2, <1>3 DEF LogInv, Settled, At, Entry
<1>5. \A g \in given : g.by \in Requests
  BY DEF IInv, TypeInv
<1> HIDE DEF new
<1>6. PICK c : /\ Becomes(r, c) /\ c.pc = "over" /\ c.tasks = <<>>
               /\ \/ reports' = reports \cup {new} /\ ~c.cut
                  \/ /\ reports' = reports /\ c.cut
                     /\ outages = 0 => new.form = "coercible"
  <2>1. ASSUME reports' = reports \cup {new}, Becomes(r, Next1(r))
        PROVE  Next1(r).pc = "over" /\ Next1(r).tasks = <<>> /\ ~Next1(r).cut
    BY <1>1, <1>2, <1>4, NextTask
  <2> DEFINE d == [req[r] EXCEPT !.cut = TRUE]
  <2>2. d \in RequestRecord /\ d.cut
    BY <1>1 DEF RequestRecord
  <2>3. Fails(r) => Becomes(r, Over(d)) /\ reports' = reports
    BY DEF Fails, stores
  <2> HIDE DEF d
  <2>4. Over(d).pc = "over" /\ Over(d).tasks = <<>> /\ Over(d).cut
    BY <2>2, OverType, AssistantAssumption
  <2>5. CASE "postgres" \in up /\ Inserts(req[r].report)
    BY <2>1, <2>5 DEF save_report, new, Entry
  <2>6. CASE ~("postgres" \in up /\ Inserts(req[r].report))
    <3>1. outages = 0 => new.form = "coercible"
      BY <1>3, <2>6 DEF LogInv, Services, Inserts
    <3>2. Fails(r)
      BY <2>6 DEF save_report
    <3>3. QED
      BY <2>3, <2>4, <3>1, <3>2
  <2>7. QED
    BY <2>5, <2>6
<1>7. req'[r] = c /\ \A q \in Requests : q # r => req'[q] = req[q]
  BY <1>6, OneMoves
<1>8. ASSUME NEW q \in Requests, Pending(q)'
      PROVE  Entry(q)' \in given'
  <2>1. q # r
    BY <1>6, <1>7, <1>8, Lists DEF Pending
  <2>2. QED
    BY <1>1, <1>7, <1>8, <2>1 DEF LogInv, Pending, Entry
<1>9. ASSUME NEW g \in given'
      PROVE  \/ Pending(g.by)' /\ g = Entry(g.by)' /\ ~req'[g.by].cut /\ g \notin reports'
             \/ Settled(g)'
  <2>1. g \in given /\ g.by \in Requests
    BY <1>1, <1>5
  <2>2. CASE g = new
    BY <1>1, <1>3, <1>4, <1>6, <1>7, <2>2 DEF Settled, At
  <2>3. CASE g # new
    <3>1. req'[g.by] = req[g.by] /\ (g \in reports' <=> g \in reports)
      BY <1>4, <1>6, <1>7, <2>1, <2>3
    <3>2. QED
      BY <1>1, <2>1, <3>1 DEF LogInv, Pending, Entry, Settled, At
  <2>4. QED
    BY <2>2, <2>3
<1>10. reports' \subseteq given' /\ (outages' = 0 => up' = Services)
  BY <1>1, <1>3, <1>6 DEF LogInv
<1>11. QED
  BY <1>8, <1>9, <1>10 DEF LogInv

\* The clock, the services, and workers that die.
LEMMA LogEnvironment ==
  ASSUME IInv, LogInv, Tick \/ Outage \/ Recover \/ Kill
  PROVE  LogInv'
<1>1. UNCHANGED <<reports, given>> /\ outages \in Nat /\ kills \in Nat
  BY AssistantAssumption DEF Tick, Outage, Recover, Kill, stores, IInv, TypeInv, AssistantAssumption
<1>2. outages' = 0 => outages = 0 /\ up' = Services
  BY <1>1 DEF LogInv, Tick, Outage, Recover, Kill
<1>3. CASE UNCHANGED <<req, kills>>
  BY <1>1, <1>2, <1>3 DEF LogInv, Pending, Entry, Settled, At
<1>4. CASE Kill
  <2>1. PICK R \in SUBSET Active :
          req' = [r \in Requests |-> IF r \in R THEN Over([req[r] EXCEPT !.cut = TRUE]) ELSE req[r]]
    BY <1>4 DEF Kill
  <2>2. kills' # 0 /\ UNCHANGED outages
    BY <1>1, <1>4 DEF Kill
  <2>3. ASSUME NEW r \in R
        PROVE  r \in Requests /\ req'[r].pc = "over" /\ req'[r].cut /\ req'[r].tasks = <<>> /\ req[r].pc # "over"
    <3> DEFINE d == [req[r] EXCEPT !.cut = TRUE]
    <3>1. r \in Requests /\ req[r].pc # "over"
      BY DEF Active
    <3>2. d \in RequestRecord /\ d.cut
      BY <3>1, Types DEF RequestRecord
    <3>3. req'[r] = Over(d)
      BY <2>1, <3>1
    <3> HIDE DEF d
    <3>4. QED
      BY <3>1, <3>2, <3>3, OverType, AssistantAssumption
  <2>4. \A r \in Requests : r \notin R => req'[r] = req[r]
    BY <2>1
  <2>5. ASSUME NEW r \in Requests, Pending(r)'
        PROVE  Entry(r)' \in given'
    <3>1. r \notin R
      BY <2>3, <2>5, Lists DEF Pending
    <3>2. QED
      BY <1>1, <2>4, <2>5, <3>1 DEF LogInv, Pending, Entry
  <2>6. ASSUME NEW g \in given'
        PROVE  \/ Pending(g.by)' /\ g = Entry(g.by)' /\ ~req'[g.by].cut /\ g \notin reports'
               \/ Settled(g)'
    <3>1. g \in given /\ g.by \in Requests
      BY <1>1 DEF IInv, TypeInv
    <3>2. CASE g.by \in R
      <4>1. g \notin reports
        BY <2>3, <3>1, <3>2 DEF LogInv, Settled, At
      <4>2. QED
        BY <1>1, <2>2, <2>3, <3>2, <4>1 DEF Settled, At
    <3>3. CASE g.by \notin R
      BY <1>1, <2>2, <2>4, <3>1, <3>3 DEF LogInv, Pending, Entry, Settled, At
    <3>4. QED
      BY <3>2, <3>3
  <2>7. QED
    BY <1>1, <1>2, <2>5, <2>6 DEF LogInv
<1>5. QED
  BY <1>3, <1>4 DEF Tick, Outage, Recover, stores

LEMMA LogStep == IInv /\ LogInv /\ [Next]_vars => LogInv'
<1> SUFFICES ASSUME IInv, LogInv, [Next]_vars PROVE LogInv'
  OBVIOUS
<1>1. ASSUME NEW r \in Requests, Ask(r)
      PROVE  LogInv'
  <2>1. ASSUME NEW kind, NEW s, NEW q, Open(r, kind, s, q)
        PROVE  LogInv'
    <3>1. /\ req[r] \in RequestRecord /\ req[r].pc = "idle"
          /\ UNCHANGED <<reports, given, up, outages, kills>>
      BY <2>1, Types DEF Open, Arrives, At, stores, world
    <3>2. [req[r] EXCEPT !.pc = "embed", !.kind = kind, !.sid = s, !.q = q,
                         !.base = Len(history)].tasks = req[r].tasks
      BY <3>1 DEF RequestRecord
    <3>3. QED
      BY <2>1, <3>1, <3>2, QuietStream DEF Open
  <2>2. CASE chat_stream(r) \/ legal_research(r)
    BY <2>1, <2>2 DEF chat_stream, legal_research
  <2>3. CASE verify_court_document(r) \/ predict_duration(r)
    BY <2>3, LogReports DEF verify_court_document, predict_duration
  <2>4. CASE Stop(r)
    BY <2>4, LogCloses
  <2>5. QED
    BY <1>1, <2>2, <2>3, <2>4 DEF Ask
<1>2. ASSUME NEW r \in Requests, Serve(r)
      PROVE  LogInv'
  BY <1>2, LogBacksOff, LogLooks, LogNodes, LogCloses, LogTasks, LogSaves DEF Serve
<1>3. CASE Tick \/ Outage \/ Recover \/ Kill
  BY <1>3, LogEnvironment
<1>4. CASE UNCHANGED vars
  BY <1>4 DEF vars, LogInv, Pending, Entry, Settled, At
<1>5. QED
  BY <1>1, <1>2, <1>3, <1>4 DEF Next

\* The audit log of reports against what clients were told: every report that
\* was given is logged unless its background task was cut short (save_prediction,
\* save_verification), and without failures only by a value its column refuses.
THEOREM Logged == Spec => []ReportsLogged
<1>1. Init => LogInv
  <2> SUFFICES ASSUME Init PROVE LogInv
    OBVIOUS
  <2>1. \A r \in Requests : ~Pending(r)
    BY Lists DEF Init, Fresh, Pending
  <2>2. QED
    BY <2>1 DEF Init, LogInv
<1>2. IInv /\ LogInv => ReportsLogged
  <2> SUFFICES ASSUME IInv, LogInv PROVE ReportsLogged
    OBVIOUS
  <2>1. ASSUME NEW g \in given, At(g.by, "over")
        PROVE  Settled(g)
    <3>1. ~Pending(g.by)
      BY <2>1, PendingIsTask DEF At, IInv, TypeInv
    <3>2. QED
      BY <3>1 DEF LogInv
  <2>2. QED
    BY <2>1 DEF LogInv, ReportsLogged, Settled
<1>3. QED
  BY <1>1, <1>2, LogStep, InductiveInvariant, PTL DEF Spec

-----------------------------------------------------------------------------
\* A document is called authentic exactly if two of the three checks spoke for it:
\* the weights of verify_document.
THEOREM TwoChecks == Spec => []AuthenticNeedsTwo
<1>1. IInv => AuthenticNeedsTwo
  BY DEF IInv, Consistent, ReportConsistent, AuthenticNeedsTwo
<1>2. QED
  BY <1>1, InductiveInvariant, PTL

\* No request is served an answer that was cached more than MaxAge ago: the age
\* filter of get_cached_response, and that an answer is cached once.
THEOREM Expires == Spec => AnswerExpires
<1> DEFINE Aged == \A r \in Requests :
                     At(r, "lookup") /\ req'[r].pc = "closing"
                       => \A e \in cache : e.reply = req'[r].reply => now <= e.at + MaxAge
<1>1. IInv /\ [Next]_vars => [Aged]_vars
  <2> SUFFICES ASSUME IInv, Next, NEW r \in Requests, At(r, "lookup"), req'[r].pc = "closing",
                      NEW e \in cache, e.reply = req'[r].reply
               PROVE  now <= e.at + MaxAge
    OBVIOUS
  <2>1. req \in [Requests -> RequestRecord] /\ req[r].pc = "lookup"
    BY DEF IInv, TypeInv, At
  <2>2. PICK f \in cache : f.reply = req'[r].reply /\ Young(f)
    <3>1. ASSUME NEW p \in Requests, NEW c, Becomes(p, c)
          PROVE  req'[r] = IF p = r THEN c ELSE req[r]
      BY <2>1, <3>1 DEF Becomes
    <3>2. CASE Lookup(r)
      <4>1. ASSUME NEW f \in Nearest(req[r].q), Replay(r, f)
            PROVE  f \in cache /\ f.reply = req'[r].reply /\ Young(f)
        <5>1. f \in cache /\ Young(f)
          BY <4>1 DEF Nearest, Hits
        <5>2. req'[r] = [Goes(r, "closing") EXCEPT !.reply = f.reply, !.tasks = HitTasks]
          BY <3>1, <4>1 DEF Replay
        <5>3. Goes(r, "closing") \in RequestRecord
          BY GoesType DEF Steps, Streaming
        <5>4. req'[r].reply = f.reply
          BY <5>2, <5>3 DEF RequestRecord
        <5>5. QED
          BY <5>1, <5>4
      <4>2. ~Becomes(r, Goes(r, "load"))
        <5>1. Goes(r, "load").pc = "load"
          BY GoesType DEF Steps
        <5>2. QED
          BY <3>1, <5>1
      <4>3. QED
        BY <3>2, <4>1, <4>2 DEF Lookup, stream_cache, _stream_cache
    <3>3. CASE ~Lookup(r)
      <4>1. req'[r].pc # "closing"
        BY <2>1, <3>3, OtherSteps
      <4>2. QED
        BY <4>1
    <3>4. QED
      BY <3>2, <3>3
  <2>3. e = f
    BY <2>2 DEF IInv, CacheConsistent, CachedOnce
  <2>4. e.at + MaxAge >= now /\ e.at \in Nat /\ now \in Nat /\ MaxAge \in Nat
    BY <2>2, <2>3, AssistantAssumption DEF Young, IInv, TypeInv, AssistantAssumption
  <2>5. QED
    BY <2>4
<1>2. QED
  BY <1>1, InductiveInvariant, PTL DEF Spec, AnswerExpires
=============================================================================
