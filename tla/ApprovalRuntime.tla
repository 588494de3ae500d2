--------------------------- MODULE ApprovalRuntime --------------------------
(***************************************************************************)
(* The threads of the Widget-mode runtime around one session's approvals   *)
(* and questions: app/src/main.rs serve() and the command, answer, undo    *)
(* and commit-timer code of server/src/server.rs, over the registry of     *)
(* WaiterRegistry and the transactions of ApprovalStore.                   *)
(*                                                                         *)
(* One step is one registry lock or one store transaction; between two     *)
(* steps of a thread every other thread may run.  What a thread read       *)
(* before (a waiter's activity, a clock, a list of expired requests) is    *)
(* kept in that thread's state and used as it was.                         *)
(*                                                                         *)
(* The provider, the user and the machine are the environment: hooks       *)
(* arrive, provider events arrive, the user acts, a hook process dies,     *)
(* the runtime dies and starts again, in any order.                        *)
(***************************************************************************)
EXTENDS WaiterRegistry, ApprovalStore

CONSTANTS
  Event,       \* provider events other than blocking requests
  EventKindOf, \* [Event -> EventKind]
  EventToolOf, \* [Event -> Tool]
  EventCallOf, \* [Event -> the request whose tool call it reports, or None]
  MaxCrashes   \* bound on runtime crashes

VARIABLES
  up,       \* the runtime process is running
  crashes,
  hook,     \* [Request -> step of its connection's thread]
  replacing,\* [Request -> the duplicate its registration replaced, or None]
  reply,    \* [Request -> what its hook process has got from the runtime]
  event,    \* [Event -> step of its connection's thread]
  release,  \* [Event -> resolved_request_ids still to be passed through]
  api,      \* [Command -> step and arguments of the HTTP handler]
  timer,    \* [Command -> step of the task schedule_decision spawned]
  sweep     \* requests the expiry thread still has to expire in the store

hookVars == <<hook, replacing, reply>>
eventVars == <<event, release>>
threadVars == <<hook, replacing, reply, event, release, api, timer, sweep>>
vars == <<now, regVars, storeVars, up, crashes, threadVars>>

ASSUME RuntimeAssumption ==
  /\ Event \cap Request = {}
  /\ EventKindOf \in [Event -> EventKind]
  /\ EventToolOf \in [Event -> Tool]
  /\ EventCallOf \in [Event -> Request \cup {None}]
  /\ MaxCrashes \in Nat
  /\ None \notin Decision
  /\ Interactive = {r \in Request : KindOf[r] = "question"}

\* from_hook_at mints a request id per hook invocation, and a hook connects
\* once, so a request is registered under one ticket, its own.
ASSUME FreshRequests == Ticket = Request /\ RequestOf = [t \in Ticket |-> t]

HookStep == {"idle", "replace", "ingest", "failing", "waiting", "timed_out", "expire", "done"}
\* "pending": nothing yet.  "closed": the socket ended without a response, the
\* hook prints nothing.  "gone": the hook process died before it got one.
HookReply == Response \cup {"pending", "closed", "gone"}
ApiStep == {"idle", "stale", "claim", "pass_through", "answer", "native", "ack", "done"}
TimerStep == {"none", "sleeping", "commit", "decide", "undelivered", "done"}

ApiIdle == [step |-> "idle", request |-> None, action |-> None, at |-> 0]
TimerNone ==
  [step |-> "none", request |-> None, action |-> None, wake |-> 0, active |-> FALSE]

\* A handler or task that has returned keeps none of its locals.
ApiDone == [ApiIdle EXCEPT !.step = "done"]
TimerDone == [TimerNone EXCEPT !.step = "done"]

RuntimeTypeOK ==
  /\ RegTypeOK
  /\ StoreTypeOK
  /\ up \in BOOLEAN
  /\ crashes \in 0..MaxCrashes
  /\ hook \in [Request -> HookStep]
  /\ replacing \in [Request -> Request \cup {None}]
  /\ reply \in [Request -> HookReply]
  /\ event \in [Event -> {"idle", "release", "done"}]
  /\ release \in [Event -> SUBSET Request]
  /\ api \in [Command -> [step : ApiStep, request : Request \cup {None},
                          action : ApprovalAction \cup {None}, at : Nat]]
  /\ timer \in [Command -> [step : TimerStep, request : Request \cup {None},
                           action : ApprovalAction \cup {None}, wake : Nat,
                           active : BOOLEAN]]
  /\ sweep \subseteq Request

RuntimeInit ==
  /\ RegInit
  /\ StoreInit
  /\ up = TRUE
  /\ crashes = 0
  /\ hook = [r \in Request |-> "idle"]
  /\ replacing = [r \in Request |-> None]
  /\ reply = [r \in Request |-> "pending"]
  /\ event = [e \in Event |-> "idle"]
  /\ release = [e \in Event |-> {}]
  /\ api = [c \in Command |-> ApiIdle]
  /\ timer = [c \in Command |-> TimerNone]
  /\ sweep = {}

\* Defect: the response is sent and the entry stays in the registry.
TryResolveKeepingEntry(r, response) ==
  /\ channel' = ChannelAfter({r}, response)
  /\ UNCHANGED <<byRequest, byCorrelation, tickets>>

\* waiters.pass_through / decide / answer whose Err(NotActive) is ignored.
TryResolve(r, response) ==
  IF IsActive(r) THEN Resolve(r, response) ELSE UNCHANGED regVars

-----------------------------------------------------------------------------
(* The thread of a blocking hook's connection (main.rs serve). *)

\* register_at, at the moment the request has been read.
HookRegister(r) ==
  /\ up /\ hook[r] = "idle" /\ now >= ReceivedAt[r]
  /\ Register(r)
  /\ IF Replaced(r) = {}
     THEN hook' = [hook EXCEPT ![r] = "ingest"] /\ UNCHANGED replacing
     ELSE /\ hook' = [hook EXCEPT ![r] = "replace"]
          /\ \E q \in Replaced(r) : replacing' = [replacing EXCEPT ![r] = q]
  /\ UNCHANGED <<now, storeVars, up, crashes, reply, eventVars, api, timer, sweep>>

\* store.expire_approval(replaced, "duplicate_replaced").
HookExpireReplaced(r) ==
  /\ up /\ hook[r] = "replace"
  /\ ExpireApproval(replacing[r])
  /\ hook' = [hook EXCEPT ![r] = "ingest"]
  /\ replacing' = [replacing EXCEPT ![r] = None]
  /\ UNCHANGED <<now, regVars, up, crashes, reply, eventVars, api, timer, sweep>>

\* store.ingest.  A request resolves no other one, so no waiter is released.
HookIngest(r) ==
  /\ up /\ hook[r] = "ingest"
  /\ \E turn \in Turn : IngestRequest(r, turn)
  /\ hook' = [hook EXCEPT ![r] = "waiting"]
  /\ UNCHANGED <<now, regVars, up, crashes, replacing, reply, eventVars, api, timer, sweep>>

\* store.ingest returned an error: the waiter is passed through, runtime_error.
HookIngestFails(r) ==
  /\ up /\ hook[r] = "ingest"
  /\ hook' = [hook EXCEPT ![r] = "failing"]
  /\ UNCHANGED <<now, regVars, storeVars, up, crashes, replacing, reply, eventVars, api, timer,
                 sweep>>

HookPassThroughFailed(r) ==
  /\ up /\ hook[r] = "failing"
  /\ TryResolve(r, "pass_through")
  /\ hook' = [hook EXCEPT ![r] = "waiting"]
  /\ UNCHANGED <<now, storeVars, up, crashes, replacing, reply, eventVars, api, timer, sweep>>

\* Defect: the thread goes on waiting when it is handed a pass-through.
HookReceiveDecisionOnly(r) ==
  /\ up /\ hook[r] = "waiting" /\ channel[r] # <<>> /\ Head(channel[r]) # "pass_through"
  /\ hook' = [hook EXCEPT ![r] = "done"]
  /\ reply' = [reply EXCEPT ![r] = IF @ = "pending" THEN Head(channel[r]) ELSE @]
  /\ UNCHANGED <<now, regVars, storeVars, up, crashes, replacing, eventVars, api, timer, sweep>>

\* ticket.recv_timeout got a response, which is written to the socket; the
\* write to a hook that died is lost.
HookReceive(r) ==
  /\ up /\ hook[r] = "waiting" /\ channel[r] # <<>>
  /\ hook' = [hook EXCEPT ![r] = "done"]
  /\ reply' = [reply EXCEPT ![r] = IF @ = "pending" THEN Head(channel[r]) ELSE @]
  /\ UNCHANGED <<now, regVars, storeVars, up, crashes, replacing, eventVars, api, timer, sweep>>

\* ticket.recv_timeout returned Err at the deadline.
HookTimeout(r) ==
  /\ up /\ hook[r] = "waiting" /\ channel[r] = <<>> /\ now >= DeadlineAt[r]
  /\ hook' = [hook EXCEPT ![r] = "timed_out"]
  /\ UNCHANGED <<now, regVars, storeVars, up, crashes, replacing, reply, eventVars, api, timer,
                 sweep>>

HookRelease(r) ==
  /\ up /\ hook[r] = "timed_out"
  /\ TryResolve(r, "pass_through")
  /\ hook' = [hook EXCEPT ![r] = "expire"]
  /\ UNCHANGED <<now, storeVars, up, crashes, replacing, reply, eventVars, api, timer, sweep>>

\* Defect: the deadline expires the item and not its commands.
HookExpireItemOnly(r) ==
  /\ up /\ hook[r] = "expire"
  /\ attention' = ExpiredAttention({r})
  /\ hook' = [hook EXCEPT ![r] = "done"]
  /\ reply' = [reply EXCEPT ![r] = IF @ = "pending" THEN "closed" ELSE @]
  /\ UNCHANGED <<now, regVars, commands, up, crashes, replacing, eventVars, api, timer, sweep>>

\* store.expire_approval(request, "deadline"); the thread ends and with it the
\* socket.
HookExpire(r) ==
  /\ up /\ hook[r] = "expire"
  /\ ExpireApproval(r)
  /\ hook' = [hook EXCEPT ![r] = "done"]
  /\ reply' = [reply EXCEPT ![r] = IF @ = "pending" THEN "closed" ELSE @]
  /\ UNCHANGED <<now, regVars, up, crashes, replacing, eventVars, api, timer, sweep>>

\* The hook process is killed by its provider or gives up at its own deadline.
\* The runtime has no reader on the socket and does not notice.
HookDies(r) ==
  /\ reply[r] = "pending" /\ hook[r] # "idle"
  /\ reply' = [reply EXCEPT ![r] = "gone"]
  /\ UNCHANGED <<now, regVars, storeVars, up, crashes, hook, replacing, eventVars, api, timer,
                 sweep>>

HookThread(r) ==
  \/ HookExpireReplaced(r) \/ HookIngest(r) \/ HookPassThroughFailed(r)
  \/ HookReceive(r) \/ HookTimeout(r) \/ HookRelease(r) \/ HookExpire(r)

-----------------------------------------------------------------------------
(* The thread of another event's connection: ingest, then a pass-through    *)
(* for every request the event resolved, newest first.                      *)

\* Defect: the resolved requests are not passed on to the registry.
EventIngestOnly(e) ==
  /\ up /\ event[e] = "idle"
  /\ \E turn \in Turn, R \in SUBSET Request :
       IngestEvent(EventKindOf[e], EventToolOf[e], turn, R)
  /\ event' = [event EXCEPT ![e] = "done"]
  /\ UNCHANGED <<now, regVars, up, crashes, hookVars, release, api, timer, sweep>>

EventIngest(e) ==
  /\ up /\ event[e] = "idle"
  /\ \E turn \in Turn, R \in SUBSET Request :
       /\ IngestEvent(EventKindOf[e], EventToolOf[e], turn, R)
       /\ release' = [release EXCEPT ![e] = R]
       /\ event' = [event EXCEPT ![e] = IF R = {} THEN "done" ELSE "release"]
  /\ UNCHANGED <<now, regVars, up, crashes, hookVars, api, timer, sweep>>

EventRelease(e) ==
  /\ up /\ event[e] = "release"
  /\ \E r \in Newest(release[e]) :
       /\ TryResolve(r, "pass_through")
       /\ release' = [release EXCEPT ![e] = @ \ {r}]
       /\ event' = [event EXCEPT ![e] = IF release[e] = {r} THEN "done" ELSE @]
  /\ UNCHANGED <<now, storeVars, up, crashes, hookVars, api, timer, sweep>>

-----------------------------------------------------------------------------
(* HTTP handlers of server.rs, one per command id.  A repeated command id is *)
(* answered from the snapshot and changes nothing.                           *)

\* command(), approve | deny | pass_through: the snapshot shows the item, the
\* clock is read and the waiter's activity is checked.  pass_through is an
\* approval's action; approve or deny of a question is taken for a stale one.
ApiCommand(c, r, action) ==
  /\ up /\ api[c].step = "idle" /\ commands[c].state = "none"
  /\ attention[r].state # "none"
  /\ KindOf[r] = "approval" \/ action # "pass_through"
  /\ api' = [api EXCEPT ![c] =
       [step |-> IF KindOf[r] = "approval" /\ IsActive(r) THEN "claim" ELSE "stale",
        request |-> r, action |-> action, at |-> now]]
  /\ UNCHANGED <<now, regVars, storeVars, up, crashes, hookVars, eventVars, timer, sweep>>

\* store.expire_approval(request, "stale_waiter"), and 409 to the client.
ApiExpireStale(c) ==
  /\ up /\ api[c].step = "stale"
  /\ ExpireApproval(api[c].request)
  /\ api' = [api EXCEPT ![c] = ApiDone]
  /\ UNCHANGED <<now, regVars, up, crashes, hookVars, eventVars, timer, sweep>>

\* store.claim_approval; a decision that was created schedules its commit, a
\* pass-through goes on to the waiter.
ApiClaim(c) ==
  LET r == api[c].request
      action == api[c].action
      created == Claims(c, r, api[c].at)
      decides == DecisionOf(action) # None
  IN /\ up /\ api[c].step = "claim"
     /\ Claim(c, r, action, api[c].at)
     /\ api' = [api EXCEPT ![c] =
          IF created /\ ~decides THEN [@ EXCEPT !.step = "pass_through"] ELSE ApiDone]
     /\ timer' = IF created /\ decides
          THEN [timer EXCEPT ![c] =
                  [step |-> "sleeping", request |-> r, action |-> action,
                   wake |-> now + CommitDelay, active |-> FALSE]]
          ELSE timer
     /\ UNCHANGED <<now, regVars, up, crashes, hookVars, eventVars, sweep>>

ApiPassThrough(c) ==
  /\ up /\ api[c].step = "pass_through"
  /\ TryResolve(api[c].request, "pass_through")
  /\ api' = [api EXCEPT ![c] = ApiDone]
  /\ UNCHANGED <<now, storeVars, up, crashes, hookVars, eventVars, timer, sweep>>

\* command(), ack | snooze | dismiss: one transaction.
ApiAct(c, r, action) ==
  /\ up /\ api[c].step = "idle" /\ attention[r].state # "none"
  /\ ActOnAttention(c, r, action)
  /\ api' = [api EXCEPT ![c] = ApiDone]
  /\ UNCHANGED <<now, regVars, up, crashes, hookVars, eventVars, timer, sweep>>

\* answer_question(): the snapshot shows the question open, then the waiter is
\* answered or handed back to the provider's own interface, then the item is
\* acknowledged; c is the id the handler mints for that.
ApiAnswer(c, r, step) ==
  /\ up /\ api[c].step = "idle" /\ commands[c].state = "none"
  /\ KindOf[r] = "question" /\ attention[r].state = "open"
  /\ api' = [api EXCEPT ![c].step = step, ![c].request = r]
  /\ UNCHANGED <<now, regVars, storeVars, up, crashes, hookVars, eventVars, timer, sweep>>

ApiDeliverAnswer(c) ==
  LET r == api[c].request
      response == IF api[c].step = "answer" THEN "answer" ELSE "pass_through"
  IN /\ up /\ api[c].step \in {"answer", "native"}
     /\ TryResolve(r, response)
     /\ api' = [api EXCEPT ![c].step = IF IsActive(r) THEN "ack" ELSE "stale"]
     /\ UNCHANGED <<now, storeVars, up, crashes, hookVars, eventVars, timer, sweep>>

ApiAck(c) ==
  /\ up /\ api[c].step = "ack"
  /\ IF Actionable(api[c].request)
     THEN ActOnAttention(c, api[c].request, "ack")
     ELSE UNCHANGED storeVars
  /\ api' = [api EXCEPT ![c] = ApiDone]
  /\ UNCHANGED <<now, regVars, up, crashes, hookVars, eventVars, timer, sweep>>

\* undo(): one transaction.
ApiUndo(c) ==
  /\ up
  /\ Undo(c)
  /\ UNCHANGED <<now, regVars, up, crashes, threadVars>>

\* snapshot(): reopens what was snoozed and is due.
ApiSnapshot ==
  /\ up
  /\ ReopenDueSnoozed
  /\ UNCHANGED <<now, regVars, up, crashes, threadVars>>

ApiThread(c) ==
  \/ ApiExpireStale(c) \/ ApiClaim(c) \/ ApiPassThrough(c)
  \/ ApiDeliverAnswer(c) \/ ApiAck(c)

-----------------------------------------------------------------------------
(* schedule_decision(): the task that commits a claimed decision, with its   *)
(* own copy of what was decided on which request.                            *)

TimerWake(c) ==
  /\ up /\ timer[c].step = "sleeping" /\ now >= timer[c].wake
  /\ timer' = [timer EXCEPT ![c].step = "commit",
                            ![c].active = IsActive(timer[c].request)]
  /\ UNCHANGED <<now, regVars, storeVars, up, crashes, hookVars, eventVars, api, sweep>>

Decides(task) == [task EXCEPT !.step = "decide", !.wake = 0, !.active = FALSE]

\* Defect: the result of the commit is not looked at.
TimerCommitUnchecked(c) ==
  /\ up /\ timer[c].step = "commit"
  /\ Commit(c, CommitDue(c), timer[c].active)
  /\ timer' = [timer EXCEPT ![c] = Decides(@)]
  /\ UNCHANGED <<now, regVars, up, crashes, hookVars, eventVars, api, sweep>>

TimerCommit(c) ==
  /\ up /\ timer[c].step = "commit"
  /\ Commit(c, CommitDue(c), timer[c].active)
  /\ timer' = [timer EXCEPT ![c] =
       IF CommitOk(c, CommitDue(c), timer[c].active)
       THEN Decides(@) ELSE TimerDone]
  /\ UNCHANGED <<now, regVars, up, crashes, hookVars, eventVars, api, sweep>>

TimerDecide(c) ==
  LET r == timer[c].request
  IN /\ up /\ timer[c].step = "decide"
     /\ TryResolve(r, DecisionOf(timer[c].action))
     /\ timer' = [timer EXCEPT ![c] =
          IF IsActive(r) THEN TimerDone ELSE [@ EXCEPT !.step = "undelivered"]]
     /\ UNCHANGED <<now, storeVars, up, crashes, hookVars, eventVars, api, sweep>>

\* store.expire_approval(request, "waiter_delivery_failed").
TimerExpire(c) ==
  /\ up /\ timer[c].step = "undelivered"
  /\ ExpireApproval(timer[c].request)
  /\ timer' = [timer EXCEPT ![c] = TimerDone]
  /\ UNCHANGED <<now, regVars, up, crashes, hookVars, eventVars, api, sweep>>

TimerThread(c) == TimerWake(c) \/ TimerCommit(c) \/ TimerDecide(c) \/ TimerExpire(c)

-----------------------------------------------------------------------------
(* The expiry thread: a sweep of the registry, then one transaction for     *)
(* every request it expired.  A sweep that finds nothing changes nothing.   *)

SweepRegistry ==
  /\ up /\ sweep = {}
  /\ Expire
  /\ sweep' = Expired
  /\ UNCHANGED <<now, storeVars, up, crashes, hookVars, eventVars, api, timer>>

SweepStore ==
  /\ up
  /\ \E r \in sweep :
       /\ ExpireApproval(r)
       /\ sweep' = sweep \ {r}
  /\ UNCHANGED <<now, regVars, up, crashes, hookVars, eventVars, api, timer>>

-----------------------------------------------------------------------------
(* The runtime process dies with everything it holds in memory; the sockets  *)
(* of its hooks end.  serve() then reconciles before it accepts anything.    *)

Crash ==
  /\ up /\ crashes < MaxCrashes
  /\ up' = FALSE
  /\ crashes' = crashes + 1
  /\ Restart
  /\ hook' = [r \in Request |-> IF hook[r] = "idle" THEN "idle" ELSE "done"]
  /\ reply' = [r \in Request |->
       IF hook[r] # "idle" /\ reply[r] = "pending" THEN "closed" ELSE reply[r]]
  /\ event' = [e \in Event |-> IF event[e] = "idle" THEN "idle" ELSE "done"]
  /\ release' = [e \in Event |-> {}]
  /\ api' = [c \in Command |-> IF api[c].step = "idle" THEN ApiIdle ELSE ApiDone]
  /\ timer' = [c \in Command |-> TimerNone]
  /\ sweep' = {}
  /\ replacing' = [r \in Request |-> None]
  /\ UNCHANGED <<now, storeVars>>

\* Defect: serve() does not reconcile.
StartupUnreconciled ==
  /\ ~up
  /\ up' = TRUE
  /\ UNCHANGED <<now, regVars, storeVars, crashes, threadVars>>

\* serve(): reconcile_orphaned_approvals(Vec::new()).
Startup ==
  /\ ~up
  /\ up' = TRUE
  /\ ReconcileOrphans({})
  /\ UNCHANGED <<now, regVars, crashes, threadVars>>

-----------------------------------------------------------------------------
Environment ==
  \/ \E r \in Request : HookRegister(r) \/ HookIngestFails(r) \/ HookDies(r)
  \/ \E e \in Event : EventIngest(e)
  \/ \E c \in Command, r \in Request :
       \/ \E a \in ApprovalAction : ApiCommand(c, r, a)
       \/ \E a \in AttentionAction : ApiAct(c, r, a)
       \/ \E step \in {"answer", "native"} : ApiAnswer(c, r, step)
  \/ \E c \in Command : ApiUndo(c)
  \/ ApiSnapshot
  \/ Crash

Clock == Tick /\ UNCHANGED <<regVars, storeVars, up, crashes, threadVars>>

RuntimeNext ==
  \/ Environment
  \/ Clock
  \/ \E r \in Request : HookThread(r)
  \/ \E e \in Event : EventRelease(e)
  \/ \E c \in Command : ApiThread(c) \/ TimerThread(c)
  \/ SweepRegistry \/ SweepStore
  \/ Startup

RuntimeSpec == RuntimeInit /\ [][RuntimeNext]_vars

\* A thread that can take its next step takes it: threads and tasks are
\* scheduled, no lock is held across a wait, the writer thread answers, and
\* the expiry thread comes back every two seconds.  Nothing is assumed of
\* users, providers and crashes; that a dead runtime is started again is
\* assumed only where a property says so.
Fairness ==
  /\ WF_vars(Clock)
  /\ \A r \in Request : WF_vars(HookThread(r))
  /\ \A e \in Event : WF_vars(EventRelease(e))
  /\ \A c \in Command : WF_vars(ApiThread(c)) /\ WF_vars(TimerThread(c))
  /\ WF_vars(SweepRegistry)
  /\ WF_vars(SweepStore)

RuntimeFairSpec == RuntimeSpec /\ Fairness

-----------------------------------------------------------------------------
(* Properties *)

\* A hook is told allow or deny only if a command with that very action was
\* committed for its request: an undone, replaced, failed or foreign decision
\* never leaves the runtime ("Undo before three seconds writes no provider
\* decision", "without leaking its decision").
DeliveredDecisionWasCommitted ==
  \A r \in Request, d \in Decision :
    reply[r] = d \/ d \in {channel[r][i] : i \in 1..Len(channel[r])} =>
      \E c \in Command : /\ commands[c].request = r /\ commands[c].sent
                         /\ DecisionOf(commands[c].action) = d

\* A hook that still blocks on an approval has an item somebody can decide, or
\* a thread that is about to release it: storage and registry are two places,
\* updated in two steps, and whatever settles the item must also remember the
\* waiter (M13: "release the matching in-memory waiter as well as updating
\* SQLite").
BlockedHookIsActionable ==
  \A r \in Request :
    KindOf[r] = "approval" /\ hook[r] = "waiting" /\ IsActive(r) =>
      \/ attention[r].state \in LiveState
      \/ \E e \in Event : r \in release[e]
      \/ \E c \in Command : api[c].step = "pass_through" /\ api[c].request = r

\* An item is committing only while the task that will commit it is alive, so
\* that it cannot stay in its undo window for ever.
CommittingHasTimer ==
  up => \A r \in Request : attention[r].state = "committing" =>
          \E c \in Command : /\ commands[c].request = r
                             /\ commands[c].state = "pending_commit"
                             /\ timer[c].step \in {"sleeping", "commit"}

\* An approval that waits for a decision belongs to the running process: what
\* an earlier process left behind is never shown as actionable again.
LiveApprovalIsOfThisRuntime ==
  up => \A r \in Request :
          KindOf[r] = "approval" /\ attention[r].state \in LiveState => r \in tickets

\* Every hook that reached the runtime gets a response or the end of its socket.
EveryHookReturns ==
  \A r \in Request : (hook[r] # "idle") ~> (reply[r] # "pending")

\* A decision leaves its undo window, one way or the other, unless the runtime
\* dies first; the next one does not inherit it.
UndoWindowCloses ==
  \A r \in Request :
    (attention[r].state = "committing") ~> (attention[r].state # "committing" \/ ~up)

\* An answered question is settled, or the handler that answered it is about to
\* acknowledge it, whatever else the user does with the item in between.
AnsweredQuestionCloses ==
  \A r \in Request : "answer" \in {channel[r][i] : i \in 1..Len(channel[r])} =>
    \/ attention[r].state \in SettledState
    \/ \E c \in Command : api[c].step = "ack" /\ api[c].request = r

\* The threads use the registry and the store only as the two components allow:
\* every step of the runtime is one operation of the registry, or leaves it
\* alone, and one transaction of the store, or leaves it alone.
ImplementsRegistry == RegSpec
ImplementsStore == StoreSpec

-----------------------------------------------------------------------------
(* What the repository's documents promise and the code does not keep.      *)

\* "Provider resolution clears ... any competing unsent waiter
\* transactionally" (docs/V1_ACCEPTANCE.md:228): once the provider was seen to
\* have handled an approval whose decision was not sent, the hook is not told
\* allow or deny any more.
NoDecisionAfterProviderHandled ==
  [][\A r \in Request :
       attention[r].state = "resolved"
       /\ attention[r].resolution \in {"provider_approved", "provider_denied", "provider_closed"}
       => channel'[r] \notin {Append(channel[r], d) : d \in Decision}]_vars

\* "old attention is marked expired at the provider's deadline and never shown
\* as an actionable card again" (docs/WIDGET_V1_PLAN.md:134-135).
NoCardStaysOpen ==
  \A r \in Request : (attention[r].state = "open") ~> (attention[r].state # "open")

\* The lifecycle of docs/WIDGET_V1_PLAN.md:418-425: an approval expires at its
\* deadline, at the end of the socket or at a restart, and one whose decision
\* was delivered waits in decision_sent for provider evidence.
DeliveredDecisionAwaitsEvidence ==
  [][\A r \in Request :
       up /\ attention[r].state = "decision_sent" /\ reply[r] \in Decision
       => attention'[r].state # "expired"]_vars

\* "release the matching in-memory waiter" (docs/M13_PROVIDER_STATE_COORDINATION.md:59-60), "distinct
\* commands in one turn remain independent" (docs/M1_VERIFICATION.md:25): the
\* progress of one tool call does not settle the approval of another.
ToolProgressReleasesItsOwnCall ==
  \A e \in Event : EventCallOf[e] # None => release[e] \subseteq {EventCallOf[e]}

\* "Runtime restart ... expires every old approval and question waiter"
\* (docs/V1_ACCEPTANCE.md:210): a question that can be answered belongs to the
\* running process.
OpenQuestionIsOfThisRuntime ==
  up => \A r \in Request :
          KindOf[r] = "question" /\ attention[r].state = "open" => r \in tickets
=============================================================================
