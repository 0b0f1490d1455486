------------------------------ MODULE Assistant ------------------------------
(***************************************************************************)
(* Requests to the assistant: chat (routes/chat.py), legal research        *)
(* (routes/legal_research.py), verification (routes/verify.py) and         *)
(* prediction (routes/predict.py), with the agent graphs, the semantic     *)
(* cache, the history of a session and the background tasks that write     *)
(* them after the response.                                                *)
(*                                                                         *)
(* A step of a request is what it does between two awaits.  Services go    *)
(* down and come back; a call of one that is down fails, and calls of      *)
(* Ollama are tried again.  An answer is named by the request that had it  *)
(* generated.                                                              *)
(***************************************************************************)
EXTENDS Reports, Sequences

CONSTANTS
  Requests,
  KindsOf,       \* what a request may be: "chat", "research", "verify", "predict"
  Sessions,
  Questions,
  Similar,       \* questions whose vectors reach the threshold of 0.95
  HistoryLimit,  \* messages of context (6)
  MaxAge,        \* SEMANTIC_CACHE_MAX_AGE_DAYS
  MaxRetries,    \* of exponential_backoff (3)
  MaxActive,     \* bound on requests at a time
  MaxNow,        \* bound of the clock
  MaxOutages,    \* bound on services going down
  MaxKills,      \* bound on workers dying
  None

Kinds == {"chat", "research", "verify", "predict"}

ASSUME AssistantAssumption ==
  /\ KindsOf \in [Requests -> SUBSET Kinds]
  /\ Similar \in [Questions -> SUBSET Questions]
  /\ \A q \in Questions : q \in Similar[q]
  /\ None \notin Requests
  /\ {HistoryLimit, MaxAge, MaxRetries, MaxActive, MaxNow, MaxOutages, MaxKills} \subseteq Nat

VARIABLES
  req,      \* the requests, with the local variables of their handlers
  history,  \* the rows of chat_history, by created_at
  cache,    \* the points of the collection semantic_cache
  reports,  \* the rows of verification_activity and prediction_history
  given,    \* the reports that were returned to a client, kept to compare
  up,       \* the services that answer
  now,      \* the clock
  outages,  \* how often a service went down
  kills     \* how often a worker died

vars == <<req, history, cache, reports, given, up, now, outages, kills>>
stores == <<history, cache, reports, given>>
world  == <<up, now, outages, kills>>

Streaming == {"plan", "embed again", "search", "tool", "respond", "answered", "closing"}
Steps     == {"idle", "embed", "lookup", "load", "tasks", "over"} \cup Streaming
Tasks     == {"user", "assistant", "cache", "report"}

Fresh ==
  [pc        |-> "idle",
   kind      |-> None,
   sid       |-> None,
   q         |-> None,    \* the question
   vec       |-> FALSE,   \* query_vector was returned by the lookup in the cache
   tries     |-> 0,       \* retries of the call under way
   base      |-> 0,       \* length of the history when the request came
   past      |-> {},      \* positions of the rows in its context
   retrieved |-> FALSE,   \* the retriever ran
   reply     |-> None,    \* the answer, by the request that generated it
   tasks     |-> <<>>,    \* background_tasks
   cut       |-> FALSE,   \* stopped, killed, or a task failed
   report    |-> None]

AssistantTypeOK ==
  /\ \A r \in Requests :
       /\ DOMAIN req[r] = DOMAIN Fresh
       /\ req[r].pc \in Steps
       /\ req[r].kind \in KindsOf[r] \cup {None}
       /\ req[r].tries \in 0 .. MaxRetries
       /\ req[r].past \subseteq DOMAIN history
       /\ req[r].reply \in Requests \cup {None}
       /\ req[r].tasks \in Seq(Tasks)
       /\ req[r].pc \in {"idle", "over"} => req[r].tasks = <<>>
  /\ history \in Seq([by : Requests, role : {"user", "assistant"}])
  /\ cache \subseteq [q : Questions, reply : Requests, at : 0 .. MaxNow]
  /\ reports \cup given \subseteq [by : Requests, form : Forms]
  /\ up \subseteq Services
  /\ now \in 0 .. MaxNow
  /\ outages \in 0 .. MaxOutages
  /\ kills \in 0 .. MaxKills

Init ==
  /\ req = [r \in Requests |-> Fresh]
  /\ history = <<>> /\ cache = {} /\ reports = {} /\ given = {}
  /\ up = Services /\ now = 0 /\ outages = 0 /\ kills = 0

-----------------------------------------------------------------------------
\* Requests and calls.

At(r, pc) == req[r].pc = pc

\* The locals of a handler are gone when its response and its tasks are over.
Over(c) == [c EXCEPT !.pc = "over", !.vec = FALSE, !.tries = 0, !.base = 0,
                     !.past = {}, !.tasks = <<>>, !.report = None]

\* The background tasks run one after the other once the response is sent.
AfterResponse(c) == IF c.tasks = <<>> THEN Over(c) ELSE [c EXCEPT !.pc = "tasks"]

Becomes(r, c) == req' = [req EXCEPT ![r] = c]

CachesWithoutVector(r) == At(r, "tasks") /\ Head(req[r].tasks) = "cache" /\ ~req[r].vec

\* The call of Ollama a request waits for: chat_completion or embed_query.
Calls(r) == req[r].pc \in {"embed", "plan", "embed again", "respond"} \/ CachesWithoutVector(r)

Answers == "ollama" \in up

\* Mutant: one retry too many.
TriesLeftOver(r) == req[r].tries <= MaxRetries

\* if retries >= max_retries: raise
TriesLeft(r) == req[r].tries < MaxRetries

Raises(r) == ~Answers /\ ~TriesLeft(r)

\* Mutant: the retries are not counted.
NotCounted(n) == n

\* retries += 1
NextTry(n) == n + 1

\* exponential_backoff: a call that failed is made again.
Backoff(r) ==
  /\ Calls(r)
  /\ ~Answers
  /\ TriesLeft(r)
  /\ Becomes(r, [req[r] EXCEPT !.tries = NextTry(@)])
  /\ UNCHANGED <<stores, world>>

Goes(r, pc) == [req[r] EXCEPT !.pc = pc, !.tries = 0]

\* An exception in the graph: "error" is sent and nothing was queued.
Error(r) == Becomes(r, AfterResponse(req[r]))

Active == {r \in Requests : req[r].pc \notin {"idle", "over"}}

\* A client sends a request.
Arrives(r, kind) ==
  /\ At(r, "idle")
  /\ kind \in KindsOf[r]
  /\ Cardinality(Active) < MaxActive

-----------------------------------------------------------------------------
\* chat_stream and legal_research up to the stream.

Open(r, kind, s, q) ==
  /\ Arrives(r, kind)
  /\ Becomes(r, [req[r] EXCEPT !.pc = "embed", !.kind = kind, !.sid = s, !.q = q,
                               !.base = Len(history)])
  /\ UNCHANGED <<stores, world>>

chat_stream(r)    == \E s \in Sessions, q \in Questions : Open(r, "chat", s, q)
legal_research(r) == \E s \in Sessions, q \in Questions : Open(r, "research", s, q)

\* get_cached_response embeds the question; a failure is a miss without a vector.
Embed(r) ==
  /\ At(r, "embed")
  /\ \/ Answers   /\ Becomes(r, [Goes(r, "lookup") EXCEPT !.vec = TRUE])
     \/ Raises(r) /\ Becomes(r, Goes(r, "load"))
  /\ UNCHANGED <<stores, world>>

\* Mutant: the age filter is left out of the query.
AnyAge(e) == TRUE

\* created_at >= time.time() - max_age
Young(e) == e.at + MaxAge >= now

Hits(q) == {e \in cache : e.q \in Similar[q] /\ Young(e)}

\* limit=1: the same question scores highest.
Nearest(q) ==
  LET same == {e \in Hits(q) : e.q = q}
  IN  IF same # {} THEN same ELSE Hits(q)

\* Mutant: a hit is written to the cache again.
HitTasksCachedAgain == <<"user", "assistant", "cache">>

\* On a hit the exchange is queued before the stream begins, and not cached again.
HitTasks == <<"user", "assistant">>

Replay(r, e) ==
  Becomes(r, [Goes(r, "closing") EXCEPT !.reply = e.reply, !.tasks = HitTasks])

stream_cache(r)  == req[r].kind = "chat"     /\ \E e \in Nearest(req[r].q) : Replay(r, e)
_stream_cache(r) == req[r].kind = "research" /\ \E e \in Nearest(req[r].q) : Replay(r, e)

\* The query of the cache; its failure is a miss with a vector.
Lookup(r) ==
  /\ At(r, "lookup")
  /\ \/ "qdrant" \in up /\ stream_cache(r)
     \/ "qdrant" \in up /\ _stream_cache(r)
     \/ /\ "qdrant" \in up => Hits(req[r].q) = {}
        /\ Becomes(r, Goes(r, "load"))
  /\ UNCHANGED <<stores, world>>

-----------------------------------------------------------------------------
\* The history and the graphs.

Rows(s) == {i \in DOMAIN history : req[history[i].by].sid = s}

\* Mutant: the rows are ordered by ascending time before the limit.
OldestRows(s) ==
  {i \in Rows(s) : Cardinality({j \in Rows(s) : j < i}) < HistoryLimit}

\* The newest rows of a session.
get_history(s) ==
  {i \in Rows(s) : Cardinality({j \in Rows(s) : j > i}) < HistoryLimit}

\* The first node: agent_app plans, legal_research_app retrieves.
agent_app(r)          == req[r].kind = "chat"     /\ Becomes(r, [Goes(r, "plan") EXCEPT !.past = get_history(req[r].sid)])
legal_research_app(r) == req[r].kind = "research" /\ Becomes(r, [Goes(r, IF req[r].vec THEN "search" ELSE "embed again")
                                                                  EXCEPT !.past = get_history(req[r].sid)])

\* get_history raises when the database is gone: the request is answered with a 500.
Load(r) ==
  /\ At(r, "load")
  /\ IF "postgres" \in up THEN agent_app(r) \/ legal_research_app(r)
                           ELSE Becomes(r, Over(req[r]))
  /\ UNCHANGED <<stores, world>>

\* _route_after_planner; an action nobody knows retrieves.
Route(r, action) ==
  CASE action = "direct_answer" -> "respond"
    [] action = "tool_use"      -> "tool"
    [] OTHER                    -> IF req[r].vec THEN "search" ELSE "embed again"

\* planner_node: when the call fails or its JSON does not parse, it retrieves.
planner_node(r) ==
  /\ At(r, "plan")
  /\ \/ Answers /\ \E action \in {"direct_answer", "tool_use", "retrieve"} : Becomes(r, Goes(r, Route(r, action)))
     \/ Raises(r) /\ Becomes(r, Goes(r, Route(r, "retrieve")))
  /\ UNCHANGED <<stores, world>>

\* retrieve_node embeds the query only when the lookup in the cache could not.
EmbedAgain(r) ==
  /\ At(r, "embed again")
  /\ \/ Answers   /\ Becomes(r, Goes(r, "search"))
     \/ Raises(r) /\ Error(r)
  /\ UNCHANGED <<stores, world>>

\* The search in the vectors raises; the one in the graph is caught.
retrieve_node(r) ==
  /\ At(r, "search")
  /\ IF "qdrant" \in up THEN Becomes(r, [Goes(r, "respond") EXCEPT !.retrieved = TRUE])
                         ELSE Error(r)
  /\ UNCHANGED <<stores, world>>

\* A tool catches the failures of its services and returns a text, but may
\* raise on an input that is not the string it expects.
tool_node(r) ==
  /\ At(r, "tool")
  /\ Becomes(r, Goes(r, "respond")) \/ Error(r)
  /\ UNCHANGED <<stores, world>>

\* generate_node; the answer may be empty.
generate_node(r) ==
  /\ At(r, "respond")
  /\ \/ Answers /\ \E a \in {r, None} : Becomes(r, [Goes(r, "answered") EXCEPT !.reply = a])
     \/ Raises(r) /\ Error(r)
  /\ UNCHANGED <<stores, world>>

\* Mutant: an empty answer is saved as well.
FinalTasksAlways(answer) == <<"user", "assistant", "cache">>

\* Mutant: the answer is queued before the question.
FinalTasksSwapped(answer) == IF answer = None THEN <<>> ELSE <<"assistant", "user", "cache">>

\* Mutant: the cache is written first.
FinalTasksCacheFirst(answer) == IF answer = None THEN <<>> ELSE <<"cache", "user", "assistant">>

\* if final_answer: the exchange is queued, then the answer for the cache.
FinalTasks(answer) == IF answer = None THEN <<>> ELSE <<"user", "assistant", "cache">>

event_generator(r) ==
  /\ At(r, "answered")
  /\ Becomes(r, [Goes(r, "closing") EXCEPT !.tasks = FinalTasks(req[r].reply)])
  /\ UNCHANGED <<stores, world>>

\* "done" is sent; only then the tasks run.
Done(r) ==
  /\ At(r, "closing")
  /\ Becomes(r, AfterResponse(req[r]))
  /\ UNCHANGED <<stores, world>>

\* The client leaves the stream, which cancels the generator; whether tasks
\* that were queued still run depends on how the server learns of it.
Stop(r) ==
  /\ req[r].pc \in Streaming
  /\ LET left == [req[r] EXCEPT !.cut = TRUE, !.tries = 0]
     IN  Becomes(r, Over(left)) \/ Becomes(r, AfterResponse(left))
  /\ UNCHANGED <<stores, world>>

-----------------------------------------------------------------------------
\* Reports.

\* Mutant: only a favourable verdict is recorded.
AuthenticTasks(report) == IF report.authentic THEN <<"report">> ELSE <<>>

\* background_tasks.add_task, whatever the report says.
ReportTasks(report) == <<"report">>

\* The report is returned and its row queued when the response model takes it;
\* the row is then written from what the model has read, not from the model.
Returns(r, kind, report) ==
  /\ report.form # "error" /\ Validated(report)
  /\ Becomes(r, AfterResponse([req[r] EXCEPT !.kind = kind, !.report = report,
                                             !.tasks = ReportTasks(report)]))
  /\ given' = given \cup {[by |-> r, form |-> report.form]}

\* The tool failed (422), or the response model refuses its report (500).
Refuses(r, kind, report) ==
  /\ report.form = "error" \/ ~Validated(report)
  /\ Becomes(r, Over([req[r] EXCEPT !.kind = kind]))
  /\ UNCHANGED given

Reported(r, kind, rs) ==
  /\ Arrives(r, kind)
  /\ \E report \in rs : Returns(r, kind, report) \/ Refuses(r, kind, report)
  /\ UNCHANGED <<history, cache, reports, world>>

verify_court_document(r) == Reported(r, "verify", verify_document(up))
predict_duration(r)      == Reported(r, "predict", predict_case_duration(up))

-----------------------------------------------------------------------------
\* Background tasks.

Todo(r) == IF At(r, "tasks") THEN Head(req[r].tasks) ELSE "none"

Next1(r) == AfterResponse([req[r] EXCEPT !.tasks = Tail(@), !.tries = 0])

\* A task that raises ends the list.
Fails(r) == Becomes(r, Over([req[r] EXCEPT !.cut = TRUE])) /\ UNCHANGED stores

add_message(r, role) ==
  /\ Todo(r) = role
  /\ IF "postgres" \in up
       THEN /\ history' = Append(history, [by |-> r, role |-> role])
            /\ Becomes(r, Next1(r))
            /\ UNCHANGED <<cache, reports, given>>
       ELSE Fails(r)
  /\ UNCHANGED world

\* set_cached_response embeds the question if the lookup could not; whatever
\* fails is logged and forgotten.
set_cached_response(r) ==
  /\ Todo(r) = "cache"
  /\ req[r].vec \/ Answers \/ Raises(r)
  /\ cache' = IF (req[r].vec \/ Answers) /\ "qdrant" \in up
              THEN cache \cup {[q |-> req[r].q, reply |-> req[r].reply, at |-> now]}
              ELSE cache
  /\ Becomes(r, Next1(r))
  /\ UNCHANGED <<history, reports, given, world>>

save_report(r) ==
  /\ Todo(r) = "report"
  /\ IF "postgres" \in up /\ Inserts(req[r].report)
       THEN /\ reports' = reports \cup {[by |-> r, form |-> req[r].report.form]}
            /\ Becomes(r, Next1(r))
            /\ UNCHANGED <<history, cache, given>>
       ELSE Fails(r)
  /\ UNCHANGED world

-----------------------------------------------------------------------------
\* What the history pages show.

\* All rows of a session, in the order of the table.
get_session_messages(s) == Rows(s)

\* The preview of a session is its first message by the user.
Preview(s) == {i \in Rows(s) : /\ history[i].role = "user"
                               /\ \A j \in Rows(s) : history[j].role = "user" => i <= j}

get_user_sessions == [s \in {t \in Sessions : Rows(t) # {}} |-> Preview(s)]

-----------------------------------------------------------------------------
Tick ==
  /\ now < MaxNow
  /\ now' = now + 1
  /\ UNCHANGED <<req, stores, up, outages, kills>>

Outage ==
  /\ outages < MaxOutages
  /\ \E s \in up : up' = up \ {s}
  /\ outages' = outages + 1
  /\ UNCHANGED <<req, stores, now, kills>>

Recover ==
  /\ \E s \in Services \ up : up' = up \cup {s}
  /\ UNCHANGED <<req, stores, now, outages, kills>>

\* A worker dies with the requests it serves and their tasks.
Kill ==
  /\ kills < MaxKills
  /\ \E R \in (SUBSET Active) \ {{}} :
       req' = [r \in Requests |-> IF r \in R THEN Over([req[r] EXCEPT !.cut = TRUE]) ELSE req[r]]
  /\ kills' = kills + 1
  /\ UNCHANGED <<stores, up, now, outages>>

\* What a client does.
Ask(r) ==
  \/ chat_stream(r)
  \/ legal_research(r)
  \/ verify_court_document(r)
  \/ predict_duration(r)
  \/ Stop(r)

\* What a worker does for a request it has taken.
Serve(r) ==
  \/ Backoff(r)
  \/ Embed(r)
  \/ Lookup(r)
  \/ Load(r)
  \/ planner_node(r)
  \/ EmbedAgain(r)
  \/ retrieve_node(r)
  \/ tool_node(r)
  \/ generate_node(r)
  \/ event_generator(r)
  \/ Done(r)
  \/ add_message(r, "user")
  \/ add_message(r, "assistant")
  \/ set_cached_response(r)
  \/ save_report(r)

Next ==
  \/ \E r \in Requests : Ask(r) \/ Serve(r)
  \/ Tick
  \/ Outage
  \/ Recover
  \/ Kill

Spec == Init /\ [][Next]_vars

\* A worker goes on with what it has taken: calls time out and backoff ends.
\* No service has to come back, and no client has to stay.
FairSpec == Spec /\ \A r \in Requests : WF_vars(Serve(r))

-----------------------------------------------------------------------------
\* Properties.

SavedRoles(r) == {history[i].role : i \in {j \in DOMAIN history : history[j].by = r}}

\* The page of a session shows no answer without its question before it, shows
\* nothing twice, and always has a preview: whatever tasks of other requests
\* run in between and wherever a list of tasks ends early.
AnswerFollowsQuestion ==
  \A s \in Sessions :
    LET page == get_session_messages(s)
    IN  /\ \A i \in page : history[i].role = "assistant" =>
             \E j \in page : j < i /\ history[j] = [history[i] EXCEPT !.role = "user"]
        /\ \A i, j \in page : history[i] = history[j] => i = j
        /\ s \in DOMAIN get_user_sessions => get_user_sessions[s] # {}

\* An exchange that nothing cut short is saved whole, and exactly when the
\* client was given an answer; no row ever belongs to an empty answer or to a
\* stream that ended with an error.
OnlyWholeExchanges ==
  \A r \in Requests :
    /\ req[r].reply = None => SavedRoles(r) = {}
    /\ At(r, "over") /\ ~req[r].cut /\ req[r].reply # None => SavedRoles(r) = {"user", "assistant"}

\* What the cache gives to everybody is also in the history of the one who
\* asked: an answer whose exchange could not be saved never reaches the cache.
CachedIsSaved ==
  \A e \in cache : SavedRoles(e.reply) = {"user", "assistant"}

\* However often an answer is served, the cache has it once: no chain of hits
\* makes an old answer young again.
CachedOnce ==
  \A e, f \in cache : e.reply = f.reply => e = f

\* No request is served an answer that was first cached more than MaxAge ago.
AnswerExpires ==
  [][\A r \in Requests :
       At(r, "lookup") /\ req'[r].pc = "closing"
         => \A e \in cache : e.reply = req'[r].reply => now <= e.at + MaxAge]_vars

\* The context of a request lacks a message that was saved before the request
\* came only if HistoryLimit newer ones took its place: a follow-up misses the
\* exchange before it only while the tasks of that exchange have not run.
ContextIsComplete ==
  \A r \in Requests :
    req[r].pc \in Streaming /\ req[r].tasks = <<>> /\ req[r].kind \in {"chat", "research"} =>
      \A i \in Rows(req[r].sid) :
        i <= req[r].base /\ i \notin req[r].past =>
          /\ Cardinality(req[r].past) >= HistoryLimit
          /\ \A j \in req[r].past : j > i

\* The "audit log of document authentications" and the one "of case duration
\* forecasts" (memory/models.py) against what the clients were told: no row is
\* of a report nobody was given, and of the reports that were given a row is
\* missing exactly if its task was cut short - by a worker that died, by a
\* database that was gone, or, with neither, only by a value that the response
\* model turned into its type and the column does not.
ReportsLogged ==
  /\ reports \subseteq given
  /\ \A g \in given :
       At(g.by, "over") =>
         /\ g \in reports <=> ~req[g.by].cut
         /\ outages = 0 /\ kills = 0 /\ req[g.by].cut => g.form = "coercible"

\* "at least 2 of 3 checks passed" (tools/verify_document.py): a document is
\* called authentic only if two checks were answered, and answered in its
\* favour, whichever services fail.
AuthenticNeedsTwo ==
  \A r \in Requests :
    req[r].report # None =>
      (req[r].report.authentic <=> Cardinality(req[r].report.positive) >= 2)

\* Whatever goes down and stays down, every request comes to an end.
EveryRequestEnds == <>[](\A r \in Requests : req[r].pc \in {"idle", "over"})

\* "This guarantees that legal research queries are always grounded in retrieved
\* Kenya Law Reports rather than being short-circuited to a direct_answer"
\* (agents/legal_research_graph.py): the request that had the answer generated
\* went through the retriever.
ResearchIsGrounded ==
  \A r \in Requests :
    req[r].kind = "research" /\ req[r].reply # None => req[req[r].reply].retrieved
=============================================================================
