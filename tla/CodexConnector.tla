--------------------------- MODULE CodexConnector ---------------------------
(***************************************************************************)
(* codex-connector/src/lib.rs and the half of CodexManager                 *)
(* (server/src/server.rs) that talks through it: one proxy process with a  *)
(* line of JSON per message, calls of the runtime with their answers, and  *)
(* the questions that the Codex app-server asks.                           *)
(*                                                                         *)
(* Any thread may call; a reader thread routes what arrives; one thread    *)
(* handles the app-server's requests in order, and one more per question   *)
(* waits for its answer.  What the runtime knows of a thread's activity,   *)
(* and the cards of native approvals, are in CodexSync.                    *)
(***************************************************************************)
EXTENDS Naturals, FiniteSets, FiniteSetsExt

CONSTANTS
  Thread,     \* Codex threads
  Panel,      \* browser clients of the panel
  Question,   \* requests that the app-server sends
  None,
  MaxCalls,   \* bound on the calls, that is on next_id
  SlowIngest  \* an ingestion may take longer than a question's deadline

ASSUME ConnectorAssumption ==
  /\ None \notin Thread \cup Question
  /\ {"start", "handler", "expiry"} \cap Panel = {}
  /\ MaxCalls \in Nat
  /\ SlowIngest \in BOOLEAN

VARIABLES
  \* The transport
  proxy,      \* the proxy process: "up" or "dead"
  reader,     \* the reader thread runs
  asked,      \* calls written to the proxy, not answered by the app-server
  answers,    \* answers to calls on their way to the reader
  resumed,    \* threads the app-server has resumed for this connection
  \* CodexConnector
  nextId,
  pending,    \* ids with a sender in the pending map
  caller,     \* [Caller -> the call it is in, and what its channel holds]
  \* CodexManager
  phase,      \* of start(): "initialize", "list", "resume", "up" or "failed"
  connected,  \* CodexManagerState.status = "connected"
  left,       \* managed threads that start() still has to resume
  handlers,   \* which of the two threads of spawn_codex_handlers run
  managed, resumeFailed,
  setting,    \* managed_codex_threads in the settings table
  writer,     \* [Writer -> the list it is about to write there, or None]
  \* Questions
  question,   \* [Question -> step of its handling]
  about,      \* [Question -> the thread that asks]
  waiter,     \* [Question -> its waiter in the registry]
  row,        \* [Question -> its attention item]
  skipped,    \* history: questions whose expiry found the item snoozed
  reply,      \* history: [Question -> replies written to the app-server]
  desk        \* [Clerk -> the question whose item it still has to settle, or None]

transport == <<proxy, reader, asked, answers, resumed>>
calls == <<nextId, pending, caller>>
manager == <<phase, connected, left, handlers, managed, resumeFailed, setting,
             writer>>
items == <<row, skipped>>
questions == <<question, about, waiter, items, reply, desk>>
vars == <<transport, calls, manager, questions>>

Caller == {"start"} \cup Panel

Handler == {"requests", "notifications"}

\* Threads that write the setting: each panel client's attach, the handler.
Writer == {"handler"} \cup Panel

\* Threads that settle items: answer_question of a client, the expiry thread.
Clerk == {"expiry"} \cup Panel

\* What a call asks for: a thread to resume, or one of the other two.
Subject == Thread \cup {"initialize", "list"}

Resting == [step |-> "idle", id |-> 0, subject |-> "list", got |-> None]

Answer == [id : Nat, subject : Subject, ok : BOOLEAN]
Closed == [id |-> 0, subject |-> "list", ok |-> FALSE]

QuestionStep == {"none", "sent", "queued", "registered", "ingested", "saving", "waiting",
                 "passing", "expiring", "replying", "done"}

ItemState == {"none", "open", "snoozed", "acked", "dismissed", "expired"}

ConnectorTypeOK ==
  /\ proxy \in {"up", "dead"} /\ reader \in BOOLEAN
  /\ asked \cup answers \subseteq Answer
  /\ resumed \subseteq Thread
  /\ nextId \in 1 .. MaxCalls + 1 /\ pending \subseteq 1 .. MaxCalls
  /\ caller \in [Caller ->
         [step : {"idle", "write", "wait", "returned"}, id : 0 .. MaxCalls,
          subject : Subject, got : Answer \cup {None}]]
  /\ phase \in {"initialize", "list", "resume", "up", "failed"}
  /\ connected \in BOOLEAN /\ handlers \subseteq Handler
  /\ left \cup managed \cup resumeFailed \cup setting \subseteq Thread
  /\ \A w \in Writer : writer[w] # None => writer[w] \subseteq Thread
  /\ question \in [Question -> QuestionStep]
  /\ about \in [Question -> Thread \cup {None}]
  /\ waiter \in [Question -> {"none", "pending", "answered", "passed"}]
  /\ row \in [Question -> ItemState]
  /\ skipped \subseteq Question
  /\ reply \in [Question -> {"none", "answer", "error", "twice"}]
  /\ desk \in [Clerk -> Question \cup {None}]
  \* every question between its registration and its reply has had a waiter
  /\ \A q \in Question : question[q] \in {"registered", "ingested", "saving", "waiting"}
       => waiter[q] # "none" /\ about[q] # None

Init ==
  /\ proxy = "up" /\ reader = TRUE
  /\ asked = {} /\ answers = {} /\ resumed = {}
  /\ nextId = 1 /\ pending = {}
  /\ caller = [c \in Caller |-> Resting]
  /\ phase = "initialize" /\ connected = FALSE
  /\ left = {} /\ handlers = {} /\ managed = {} /\ resumeFailed = {}
  /\ setting \in SUBSET Thread
  /\ writer = [w \in Writer |-> None]
  /\ question = [q \in Question |-> "none"]
  /\ about = [q \in Question |-> None]
  /\ waiter = [q \in Question |-> "none"]
  /\ row = [q \in Question |-> "none"] /\ skipped = {}
  /\ reply = [q \in Question |-> "none"]
  /\ desk = [k \in Clerk |-> None]

-----------------------------------------------------------------------------
(* The other side: the proxy process and the app-server *)

\* The app-server answers what it was asked, in any order, late, or never.
ServerAnswers(a) ==
  /\ proxy = "up" /\ a \in asked
  /\ asked' = asked \ {a}
  /\ \E ok \in BOOLEAN :
       /\ answers' = IF reader THEN answers \cup {[a EXCEPT !.ok = ok]} ELSE {}
       /\ resumed' = resumed \cup (IF ok THEN {a.subject} \cap Thread ELSE {})
  /\ UNCHANGED <<proxy, reader, calls, manager, questions>>

\* It asks about the threads of this connection.
ServerAsks(q, t) ==
  /\ proxy = "up" /\ question[q] = "none" /\ t \in resumed
  /\ question' = [question EXCEPT ![q] = "sent"]
  /\ about' = [about EXCEPT ![q] = t]
  /\ UNCHANGED <<transport, calls, manager, waiter, items, reply, desk>>

\* What it was asked is never answered.
ProxyDies ==
  /\ proxy = "up" /\ proxy' = "dead"
  /\ asked' = {}
  /\ UNCHANGED <<reader, answers, resumed, calls, manager, questions>>

-----------------------------------------------------------------------------
(* CodexConnector::call, the same for every caller *)

Moves(c, step) == caller' = [caller EXCEPT ![c].step = step]

\* The id is taken and the sender registered before anything is written.
CallBegins(c, subject) ==
  /\ caller[c].step = "idle" /\ nextId <= MaxCalls
  /\ nextId' = nextId + 1
  /\ pending' = pending \cup {nextId}
  /\ caller' = [caller EXCEPT ![c] = [step |-> "write", id |-> nextId,
                                      subject |-> subject, got |-> None]]

\* A write to a dead proxy fails: the entry goes, the call returns.
CallWrites(c) ==
  LET id == caller[c].id IN
  /\ caller[c].step = "write"
  /\ IF proxy = "up"
     THEN /\ asked' = asked \cup {[id |-> id, subject |-> caller[c].subject, ok |-> FALSE]}
          /\ Moves(c, "wait") /\ UNCHANGED pending
     ELSE /\ pending' = pending \ {id}
          /\ caller' = [caller EXCEPT ![c].step = "returned", ![c].got = Closed]
          /\ UNCHANGED asked
  /\ UNCHANGED <<proxy, reader, answers, resumed, nextId, manager, questions>>

CallReceives(c) ==
  /\ caller[c].step = "wait" /\ caller[c].got # None
  /\ Moves(c, "returned")
  /\ UNCHANGED <<transport, nextId, pending, manager, questions>>

\* Defect: the entry of a call that timed out stays.
CallTimesOutKeeping(c) ==
  /\ caller[c].step = "wait" /\ caller[c].got = None
  /\ caller' = [caller EXCEPT ![c].step = "returned", ![c].got = Closed]
  /\ UNCHANGED <<transport, nextId, pending, manager, questions>>

CallTimesOut(c) ==
  /\ caller[c].step = "wait" /\ caller[c].got = None
  /\ pending' = pending \ {caller[c].id}
  /\ caller' = [caller EXCEPT ![c].step = "returned", ![c].got = Closed]
  /\ UNCHANGED <<transport, nextId, manager, questions>>

\* The sender of an id puts a value into the channel of its call, if the
\* call still waits.
Delivered(ids, value) ==
  [c \in Caller |-> IF caller[c].id \in ids /\ caller[c].step \in {"write", "wait"}
                    THEN [caller[c] EXCEPT !.got = value] ELSE caller[c]]

-----------------------------------------------------------------------------
(* The reader thread *)

\* Defect: an answer goes to the oldest call, whatever its id.
CompleteOldest(a) ==
  /\ reader /\ a \in answers
  /\ answers' = answers \ {a}
  /\ pending' = IF pending = {} THEN {} ELSE pending \ {Min(pending)}
  /\ caller' = IF pending = {} THEN caller ELSE Delivered({Min(pending)}, a)
  /\ UNCHANGED <<proxy, reader, asked, resumed, nextId, manager, questions>>

\* complete_response: the answer to a call that has given up is dropped.
CompleteResponse(a) ==
  /\ reader /\ a \in answers
  /\ answers' = answers \ {a}
  /\ pending' = pending \ {a.id}
  /\ caller' = IF a.id \in pending THEN Delivered({a.id}, a) ELSE caller
  /\ UNCHANGED <<proxy, reader, asked, resumed, nextId, manager, questions>>

QuestionGoes(q, step) == question' = [question EXCEPT ![q] = step]

RouteRequest(q) ==
  /\ reader /\ question[q] = "sent"
  /\ QuestionGoes(q, "queued")
  /\ UNCHANGED <<transport, calls, manager, about, waiter, items, reply, desk>>

\* The loop ends with the proxy, or at a line that is not text although the
\* proxy lives on; then fail_all_pending("transport_closed").
ReaderEnds ==
  /\ reader /\ reader' = FALSE
  /\ answers' = {}
  /\ pending' = {}
  /\ caller' = Delivered(pending, Closed)
  /\ UNCHANGED <<proxy, asked, resumed, nextId, manager, questions>>

-----------------------------------------------------------------------------
(* CodexManager::start, before the panel's server runs *)

StartCalls ==
  /\ \/ phase \in {"initialize", "list"} /\ CallBegins("start", phase)
     \/ phase = "resume" /\ \E t \in left : CallBegins("start", t)
  /\ UNCHANGED <<transport, manager, questions>>

Returned(c) == caller[c].step = "returned"
Ok(c) == caller[c].got.ok
Rests(c) == caller' = [caller EXCEPT ![c] = Resting]

\* A failed initialize is the end of the connector.
StartInitialized ==
  /\ phase = "initialize" /\ Returned("start")
  /\ phase' = IF Ok("start") THEN "list" ELSE "failed"
  /\ Rests("start")
  /\ UNCHANGED <<transport, nextId, pending, connected, left, handlers, managed,
                 resumeFailed, setting, writer, questions>>

\* A failed list counts as an empty one.
StartListed ==
  /\ phase = "list" /\ Returned("start")
  /\ phase' = "resume" /\ connected' = TRUE
  /\ left' = setting /\ managed' = setting
  /\ Rests("start")
  /\ UNCHANGED <<transport, nextId, pending, handlers, resumeFailed, setting, writer,
                 questions>>

StartResumed ==
  LET t == caller["start"].subject IN
  /\ phase = "resume" /\ Returned("start")
  /\ left' = left \ {t}
  /\ resumeFailed' = IF Ok("start") THEN resumeFailed \ {t} ELSE resumeFailed \cup {t}
  /\ Rests("start")
  /\ UNCHANGED <<transport, nextId, pending, phase, connected, handlers, managed,
                 setting, writer, questions>>

SpawnHandlers ==
  /\ phase = "resume" /\ left = {}
  /\ phase' = "up" /\ handlers' = Handler
  /\ UNCHANGED <<transport, calls, connected, left, managed, resumeFailed, setting, writer,
                 questions>>

HandlerFree ==
  \A q \in Question : question[q] \notin {"registered", "ingested", "saving"}

\* A handler thread ends when its channel is empty and the reader, which feeds
\* it, has gone.
HandlerEnds(h) ==
  /\ h \in handlers /\ ~reader
  /\ h = "requests" => HandlerFree /\ \A q \in Question : question[q] # "queued"
  /\ handlers' = handlers \ {h}
  /\ connected' = FALSE
  /\ UNCHANGED <<transport, calls, phase, left, managed, resumeFailed, setting, writer,
                 questions>>

\* Drop for Inner kills the proxy when the last clone of the connector goes:
\* the reader thread holds one.
DropInner ==
  /\ phase = "failed" /\ ~reader /\ proxy = "up"
  /\ proxy' = "dead"
  /\ UNCHANGED <<reader, asked, answers, resumed, calls, manager, questions>>

StartStep == StartCalls \/ StartInitialized \/ StartListed \/ StartResumed \/ SpawnHandlers

-----------------------------------------------------------------------------
(* CodexManager::attach, a click of a panel client *)

Attach(p, t) ==
  /\ phase = "up" /\ writer[p] = None
  /\ CallBegins(p, t)
  /\ UNCHANGED <<transport, manager, questions>>

\* The list to save is computed under the lock and written after it.
Manages(w, t) ==
  /\ managed' = managed \cup {t}
  /\ resumeFailed' = resumeFailed \ {t}
  /\ writer' = [writer EXCEPT ![w] = managed']

\* Defect: a resume that worked shows that the connection is there.
AttachConnects(p) ==
  /\ Returned(p)
  /\ IF Ok(p) THEN Manages(p, caller[p].subject) /\ connected' = TRUE
              ELSE UNCHANGED <<managed, resumeFailed, writer, connected>>
  /\ Rests(p)
  /\ UNCHANGED <<transport, nextId, pending, phase, left, handlers, setting, questions>>

AttachApplies(p) ==
  /\ Returned(p)
  /\ IF Ok(p) THEN Manages(p, caller[p].subject)
              ELSE UNCHANGED <<managed, resumeFailed, writer>>
  /\ Rests(p)
  /\ UNCHANGED <<transport, nextId, pending, phase, connected, left, handlers, setting,
                 questions>>

Saves(w) ==
  /\ writer[w] # None
  /\ setting' = writer[w]
  /\ writer' = [writer EXCEPT ![w] = None]
  /\ UNCHANGED <<transport, calls, phase, connected, left, handlers, managed, resumeFailed>>

AttachSaves(p) == Saves(p) /\ UNCHANGED questions

-----------------------------------------------------------------------------
(* handle_codex_server_request, on the thread that handles one at a time *)

\* respond and respond_error: a write that fails is ignored.
Replies(q, what) ==
  /\ reply' = IF proxy = "dead" THEN reply
              ELSE [reply EXCEPT ![q] = IF @ = "none" THEN what ELSE "twice"]
  /\ QuestionGoes(q, "done")

\* Another method, invalid parameters, or a question the registry cannot show.
Refuse(q) ==
  /\ phase = "up" /\ HandlerFree /\ question[q] = "queued"
  /\ Replies(q, "error")
  /\ UNCHANGED <<transport, calls, manager, about, waiter, items, desk>>

Register(q) ==
  /\ phase = "up" /\ HandlerFree /\ question[q] = "queued"
  /\ waiter' = [waiter EXCEPT ![q] = "pending"]
  /\ QuestionGoes(q, "registered")
  /\ UNCHANGED <<transport, calls, manager, about, items, reply, desk>>

Opens(q) == row' = [row EXCEPT ![q] = "open"] /\ QuestionGoes(q, "ingested")

PassedThrough(q) == waiter' = [waiter EXCEPT ![q] = IF @ = "pending" THEN "passed" ELSE @]

IngestStores(q) ==
  /\ question[q] = "registered"
  /\ Opens(q)
  /\ UNCHANGED <<transport, calls, manager, about, waiter, skipped, reply, desk>>

\* Defect: the handler goes on after a failed ingestion.
IngestFailsOnly(q) ==
  /\ question[q] = "registered"
  /\ PassedThrough(q)
  /\ reply' = IF proxy = "dead" THEN reply ELSE [reply EXCEPT ![q] = "error"]
  /\ QuestionGoes(q, "ingested")
  /\ UNCHANGED <<transport, calls, manager, about, items, desk>>

IngestFails(q) ==
  /\ question[q] = "registered"
  /\ PassedThrough(q)
  /\ Replies(q, "error")
  /\ UNCHANGED <<transport, calls, manager, about, items, desk>>

Adopt(q) ==
  /\ question[q] = "ingested"
  /\ Manages("handler", about[q])
  /\ QuestionGoes(q, "saving")
  /\ UNCHANGED <<transport, calls, phase, connected, left, handlers, setting, about, waiter,
                 items, reply, desk>>

AdoptSaves(q) ==
  /\ question[q] = "saving"
  /\ Saves("handler")
  /\ QuestionGoes(q, "waiting")
  /\ UNCHANGED <<about, waiter, items, reply, desk>>

HandlerStep(q) ==
  \/ Refuse(q) \/ Register(q) \/ IngestStores(q) \/ IngestFails(q)
  \/ Adopt(q) \/ AdoptSaves(q)

-----------------------------------------------------------------------------
(* The thread of a question, the panel's answer and the expiry thread *)

\* Defect: a question handed back gets no reply.
ReceivesAnswer(q) ==
  /\ question[q] = "waiting" /\ waiter[q] \in {"answered", "passed"}
  /\ IF waiter[q] = "answered" THEN Replies(q, "answer")
                               ELSE QuestionGoes(q, "done") /\ UNCHANGED reply
  /\ UNCHANGED <<transport, calls, manager, about, waiter, items, desk>>

QuestionReceives(q) ==
  /\ question[q] = "waiting" /\ waiter[q] \in {"answered", "passed"}
  /\ Replies(q, IF waiter[q] = "answered" THEN "answer" ELSE "error")
  /\ UNCHANGED <<transport, calls, manager, about, waiter, items, desk>>

QuestionTimesOut(q) ==
  /\ question[q] = "waiting" /\ waiter[q] = "pending"
  /\ QuestionGoes(q, "passing")
  /\ UNCHANGED <<transport, calls, manager, about, waiter, items, reply, desk>>

QuestionPasses(q) ==
  /\ question[q] = "passing"
  /\ PassedThrough(q)
  /\ QuestionGoes(q, "expiring")
  /\ UNCHANGED <<transport, calls, manager, about, items, reply, desk>>

\* store.expire_approval passes over an item that is snoozed.
Expires(q) ==
  /\ row' = [row EXCEPT ![q] = IF @ = "open" THEN "expired" ELSE @]
  /\ skipped' = IF row[q] = "snoozed" THEN skipped \cup {q} ELSE skipped

\* Defect: the item of a question that timed out stays open.
QuestionExpiresNothing(q) ==
  /\ question[q] = "expiring"
  /\ QuestionGoes(q, "replying")
  /\ UNCHANGED <<transport, calls, manager, about, waiter, items, reply, desk>>

QuestionExpires(q) ==
  /\ question[q] = "expiring"
  /\ Expires(q)
  /\ QuestionGoes(q, "replying")
  /\ UNCHANGED <<transport, calls, manager, about, waiter, reply, desk>>

QuestionReplies(q) ==
  /\ question[q] = "replying"
  /\ Replies(q, "error")
  /\ UNCHANGED <<transport, calls, manager, about, waiter, items, desk>>

QuestionThread(q) ==
  \/ QuestionReceives(q) \/ QuestionTimesOut(q) \/ QuestionPasses(q)
  \/ QuestionExpires(q) \/ QuestionReplies(q)

\* answer_question on an open item: an answer, or "native"; on a waiter that
\* has gone it expires the item.
AnswerQuestion(p, q) ==
  /\ desk[p] = None /\ row[q] = "open"
  /\ IF waiter[q] = "pending"
     THEN /\ \E how \in {"answered", "passed"} : waiter' = [waiter EXCEPT ![q] = how]
          /\ desk' = [desk EXCEPT ![p] = q]
          /\ UNCHANGED items
     ELSE Expires(q) /\ UNCHANGED <<waiter, desk>>
  /\ UNCHANGED <<transport, calls, manager, question, about, reply>>

Unsettled == {"open", "snoozed"}

\* act_on_attention: an item that is settled is an error.
RecordAnswer(p) ==
  LET q == desk[p] IN
  /\ q # None
  /\ row' = [row EXCEPT ![q] = IF @ \in Unsettled THEN "acked" ELSE @]
  /\ desk' = [desk EXCEPT ![p] = None]
  /\ UNCHANGED <<transport, calls, manager, question, about, waiter, skipped, reply>>

\* The panel's other commands on the item of a question, at any time: they ask
\* nothing of its waiter, and tell it nothing.
ActOnItem(q) ==
  /\ row[q] \in Unsettled
  /\ \E to \in {"acked", "snoozed", "dismissed"} : row' = [row EXCEPT ![q] = to]
  /\ UNCHANGED <<transport, calls, manager, question, about, waiter, skipped, reply, desk>>

\* reopen_due_snoozed, before or after the question is over.
ReopenSnoozed(q) ==
  /\ row[q] = "snoozed"
  /\ row' = [row EXCEPT ![q] = "open"]
  /\ UNCHANGED <<transport, calls, manager, question, about, waiter, skipped, reply, desk>>

\* The expiry thread: the registry first, then the store.
SweepWaiter(q) ==
  /\ desk["expiry"] = None /\ waiter[q] = "pending"
  /\ SlowIngest \/ question[q] # "registered"
  /\ waiter' = [waiter EXCEPT ![q] = "passed"]
  /\ desk' = [desk EXCEPT !["expiry"] = q]
  /\ UNCHANGED <<transport, calls, manager, question, about, items, reply>>

SweepItem ==
  LET q == desk["expiry"] IN
  /\ q # None
  /\ Expires(q)
  /\ desk' = [desk EXCEPT !["expiry"] = None]
  /\ UNCHANGED <<transport, calls, manager, question, about, waiter, reply>>

-----------------------------------------------------------------------------
CallStep(c) == CallWrites(c) \/ CallReceives(c) \/ CallTimesOut(c)

ConnectorNext ==
  \/ \E a \in asked : ServerAnswers(a)
  \/ \E q \in Question, t \in Thread : ServerAsks(q, t)
  \/ ProxyDies
  \/ \E c \in Caller : CallStep(c)
  \/ \E a \in answers : CompleteResponse(a)
  \/ \E q \in Question :
       \/ RouteRequest(q) \/ HandlerStep(q) \/ QuestionThread(q)
       \/ SweepWaiter(q) \/ ActOnItem(q) \/ ReopenSnoozed(q)
  \/ ReaderEnds
  \/ StartStep \/ DropInner \/ \E h \in Handler : HandlerEnds(h)
  \/ \E p \in Panel, t \in Thread : Attach(p, t)
  \/ \E p \in Panel : AttachApplies(p) \/ AttachSaves(p) \/ RecordAnswer(p)
  \/ \E p \in Panel, q \in Question : AnswerQuestion(p, q)
  \/ SweepItem

\* Threads of the runtime that have something to do go on, and deadlines
\* pass.  The app-server, the proxy and the user owe nothing.
ConnectorSpec ==
  /\ Init /\ [][ConnectorNext]_vars
  /\ \A c \in Caller : WF_vars(CallStep(c))
  /\ WF_vars(reader /\ \E a \in answers : CompleteResponse(a))
  /\ WF_vars(proxy = "dead" /\ ReaderEnds)
  /\ WF_vars(StartStep) /\ WF_vars(DropInner) /\ WF_vars(SweepItem)
  /\ WF_vars(\E h \in Handler : HandlerEnds(h))
  /\ \A q \in Question : WF_vars(HandlerStep(q)) /\ WF_vars(QuestionThread(q))
  /\ \A p \in Panel :
       WF_vars(AttachApplies(p) \/ AttachSaves(p)) /\ WF_vars(RecordAnswer(p))

-----------------------------------------------------------------------------
(* Properties *)

\* A call never takes the answer to another one for its own, however late the
\* answers come and whichever calls gave up before.
OwnAnswer ==
  \A c \in Caller :
    caller[c].got \notin {None, Closed} =>
      caller[c].got.id = caller[c].id /\ caller[c].got.subject = caller[c].subject

\* The pending map holds exactly the calls that still may be answered: it
\* does not grow with the calls that failed or timed out.
PendingIsWaiting ==
  \A id \in pending : \E c \in Caller :
    caller[c].id = id /\ caller[c].step \in {"write", "wait"} /\ caller[c].got = None

\* A call returns whatever the app-server does, and even when it was
\* registered after the reader failed all the others (lib.rs:227).
EveryCallReturns ==
  \A c \in Caller : caller[c].step = "write" ~> caller[c].step = "returned"

\* Once the reader is gone the panel says "unavailable", and keeps saying it,
\* whatever was under way (docs/USER_GUIDE_zh-CN.md:381).
LostIsShown == phase = "up" /\ ~reader ~> [](~connected)

\* "controllable only after a real app-server resume"
\* (docs/V1_ACCEPTANCE.md:208).
ControllableWasResumed ==
  phase = "up" /\ connected => managed \ resumeFailed \subseteq resumed

\* The app-server gets one reply per question, an answer only if the user gave
\* one to the panel.
OneReply ==
  \A q \in Question :
    reply[q] # "twice" /\ (reply[q] = "answer" => waiter[q] = "answered")

\* Every question that reaches the runtime is replied to, by the user or by
\* its deadline, unless the proxy has gone.
EveryQuestionReplied ==
  \A q \in Question : question[q] = "queued" ~> reply[q] # "none" \/ proxy = "dead"

\* "Expired questions cannot be submitted" (docs/V1_ACCEPTANCE.md:193): the item
\* of a question that is over is settled without anybody's click and stays so,
\* whatever clients answer, snooze or dismiss meanwhile.  Not if the expiry finds
\* it snoozed: it passes over the item, which opens again when the snooze is due.
OverIsClosed ==
  \A q \in Question :
    question[q] = "done" ~> [](row[q] \notin Unsettled \/ q \in skipped)

\* The same of every question: the code does not keep it.
EveryOverIsClosed ==
  \A q \in Question : question[q] = "done" ~> [](row[q] # "open")

\* "managed Thread IDs persist and are rejoined" (docs/V1_ACCEPTANCE.md:201):
\* the setting names every managed thread once nobody is about to write it.
ManagedPersists ==
  phase = "up" /\ (\A w \in Writer : writer[w] = None) => managed \subseteq setting

\* Drop for Inner kills the proxy: a connector that was given up leaves none.
NoOrphanProxy == phase = "failed" ~> proxy = "dead"

\* What the panel recorded as answered is what the app-server was told.
AnsweredIsReplied ==
  \A q \in Question : row[q] = "acked" /\ waiter[q] = "answered" ~> reply[q] = "answer"
=============================================================================
