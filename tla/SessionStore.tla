---------------------------- MODULE SessionStore ----------------------------
(***************************************************************************)
(* runtime/src/storage.rs: what the ingest of every event, the sync with   *)
(* the Codex app-server and the reconciliations do to one session's row,   *)
(* its turns and its native approvals, in the same transactions that       *)
(* change the approvals of ApprovalStore.                                  *)
(*                                                                         *)
(* A native approval is a card for a prompt only the provider can answer.  *)
(* Two sources insert one: the start of a request_permissions call seen    *)
(* by a hook, and the app-server's word that the thread waits.             *)
(*                                                                         *)
(* Left out: error, completion and notification items, titles, activity,   *)
(* plan and subagent counts, tokens, the events table.                     *)
(***************************************************************************)
EXTENDS ApprovalStore

CONSTANTS
  NativeCall,     \* request_permissions calls: the tool_use_id, or the id of the
                  \* request that starts one without
  Synthetic,      \* the card sync_native_approval inserts
  PermissionTool, \* the tool request_permissions
  MaxTurns,       \* bound of the turns of the session
  IdleAfter       \* idle_after_ms

VARIABLES
  session,  \* the sessions row
  turns,    \* state of each turn, by ordinal
  native    \* the native_approval row of each call, and the synthetic one

sessionVars == <<session, turns, native>>

ASSUME SessionAssumption ==
  /\ MaxTurns \in Nat
  /\ Turn = 1..MaxTurns
  /\ Synthetic \notin NativeCall
  /\ None \notin NativeCall
  /\ PermissionTool \in Tool
  /\ IdleAfter \in Nat
  /\ None \notin {"widget", "terminal", "provider"}

FinishedState == {"response_finished", "failed"}
BusyState == {"thinking", "tool_running", "awaiting_approval", "compacting"}
SessionState == {"absent", "idle"} \cup BusyState \cup FinishedState
Owner == {None, "widget", "terminal", "provider"}

\* last is last_event_at.
SessionRow == [state : SessionState, owner : Owner, last : Nat]

NativeItem == NativeCall \cup {Synthetic}
NativeRow ==
  [state : {"none", "open", "snoozed", "resolved", "dismissed"},
   turn : Turn \cup {None}, expiresAt : Nat \cup {None}]

NoNative == [state |-> "none", turn |-> None, expiresAt |-> None]

SessionTypeOK ==
  /\ StoreTypeOK
  /\ session \in SessionRow
  /\ turns \in [Turn -> {"none", "running", "ended"}]
  /\ native \in [NativeItem -> NativeRow]

SessionInit ==
  /\ StoreInit
  /\ session = [state |-> "absent", owner |-> None, last |-> 0]
  /\ turns = [t \in Turn |-> "none"]
  /\ native = [n \in NativeItem |-> NoNative]

-----------------------------------------------------------------------------
(* Turns *)

Known == {t \in Turn : turns[t] # "none"}
Running == {t \in Turn : turns[t] = "running"}
IsLast(T, t) == t \in T /\ \A u \in T : u <= t

\* select_or_create_turn: the turn an event belongs to, a new one when it comes
\* after all that are known.  The provider's own turn id plays no part.
Selects(kind, turn) ==
  LET reuses == Running # {} \/ session.state \in FinishedState
      old == IF Running # {} THEN Running ELSE Known
  IN IF kind \in {"session_started", "session_ended"} THEN turn = None
     ELSE IF kind = "prompt_submitted" \/ ~reuses
     THEN turn \in Turn /\ \A u \in Turn : u \in Known <=> u < turn
     ELSE IF old = {} THEN turn = None ELSE IsLast(old, turn)

EndsTurn == {"stopped", "failed"}

\* Defect: a prompt leaves the turn that runs as it is.
TurnsAfterKeepingOld(kind, turn) ==
  [t \in Turn |->
     CASE t = turn /\ kind \in EndsTurn -> "ended"
       [] t = turn /\ kind \notin EndsTurn /\ turns[t] = "none" -> "running"
       [] OTHER -> turns[t]]

\* A prompt ends what runs; a new turn runs; Stop and StopFailure end theirs.
TurnsAfter(kind, turn) ==
  [t \in Turn |->
     CASE t = turn /\ kind \in EndsTurn -> "ended"
       [] t = turn /\ kind \notin EndsTurn /\ turns[t] = "none" -> "running"
       [] t # turn /\ kind = "prompt_submitted" /\ turns[t] = "running" -> "ended"
       [] OTHER -> turns[t]]

-----------------------------------------------------------------------------
(* Native approvals *)

OpenNative == {n \in NativeItem : native[n].state \in {"open", "snoozed"}}

ResolvedNative(N) ==
  [n \in NativeItem |-> IF n \in N
     THEN [native[n] EXCEPT !.state = "resolved", !.expiresAt = None]
     ELSE native[n]]

\* The end of a request_permissions call: of the call it names, or of any.
ExactEnd(ev) == ev.kind \in {"tool_finished", "tool_failed"} /\ ev.tool = PermissionTool

\* Defect: a call that failed is not taken for ended.
ResolvesOnSuccess(ev) ==
  (ev.kind = "tool_finished" /\ ev.tool = PermissionTool) \/ ev.kind \in ClosesSession

\* reconcile_observed_native_permission returns true.
ResolvesNative(ev) == ExactEnd(ev) \/ ev.kind \in ClosesSession

\* The items it resolves, when the event belongs to `turn`.
NativeResolvedBy(ev, turn) ==
  {n \in OpenNative :
     ExactEnd(ev) => /\ ev.call # None => n = ev.call
                     /\ turn # None => native[n].turn = turn}

\* insert_native_permission_attention, deduplicated by the call, and
\* reconcile_observed_native_permission.
NativeAfter(ev, turn) ==
  IF ev.kind = "native_requested"
  THEN IF native[ev.call].state # "none" THEN native
       ELSE [native EXCEPT ![ev.call] = [NoNative EXCEPT !.state = "open", !.turn = turn]]
  ELSE IF ResolvesNative(ev) THEN ResolvedNative(NativeResolvedBy(ev, turn))
  ELSE native

-----------------------------------------------------------------------------
(* The session row *)

\* A PermissionRequest the provider's own reviewer decides ("auto_reviewed")
\* gets no item; "incidental" stands for Notification, subagent, task and
\* unknown events.
SessionKind ==
  EventKind \cup {"session_started", "approval_requested", "question_requested",
                  "native_requested", "auto_reviewed", "compacting", "incidental"}

\* background: the Stop event lists background work.
SessionEvent ==
  [kind : SessionKind, tool : Tool, call : NativeCall \cup {None},
   background : BOOLEAN, at : Nat]

\* project_event: the state and owner an event leads to by itself.
Projected(ev) ==
  LET to(state, owner) == [state |-> state, owner |-> owner]
  IN CASE ev.kind \in {"session_started", "session_ended"} -> to("idle", None)
       [] ev.kind \in {"prompt_submitted", "tool_finished", "tool_failed", "permission_denied"} ->
            to("thinking", None)
       [] ev.kind = "tool_started" -> to("tool_running", None)
       [] ev.kind \in {"approval_requested", "question_requested"} ->
            to("awaiting_approval", "widget")
       [] ev.kind = "compacting" -> to("compacting", None)
       [] ev.kind = "stopped" ->
            to(IF ev.background THEN "tool_running" ELSE "response_finished", None)
       [] ev.kind = "failed" -> to("failed", None)
       [] OTHER -> to(IF session.state = "absent" THEN "idle" ELSE session.state, None)

\* Defect: a tool that starts takes the place of a native wait.
PreservesNativeButTools(ev) ==
  /\ session.state = "awaiting_approval" /\ session.owner = "terminal"
  /\ ~ResolvesNative(ev) /\ ev.kind # "tool_started"

\* A native wait is kept through events that do not end it.
PreservesNative(ev) ==
  session.state = "awaiting_approval" /\ session.owner = "terminal" /\ ~ResolvesNative(ev)

\* Defect: an event that brings no owner keeps the one there was.
NextViewKeepingOwner(ev) ==
  IF ev.kind = "native_requested" THEN [state |-> "awaiting_approval", owner |-> "terminal"]
  ELSE IF PreservesNative(ev) THEN [state |-> session.state, owner |-> session.owner]
  ELSE IF ev.kind = "auto_reviewed" THEN [state |-> "thinking", owner |-> "provider"]
  ELSE [Projected(ev) EXCEPT !.owner = IF @ = None THEN session.owner ELSE @]

NextView(ev) ==
  IF ev.kind = "native_requested" THEN [state |-> "awaiting_approval", owner |-> "terminal"]
  ELSE IF PreservesNative(ev) THEN [state |-> session.state, owner |-> session.owner]
  ELSE IF ev.kind = "auto_reviewed" THEN [state |-> "thinking", owner |-> "provider"]
  ELSE Projected(ev)

\* Defects: an event is applied after the end of the response, or only when it
\* is younger than the last.
MayUpdateFinished(ev) == session.state = "absent" \/ ev.at >= session.last

MayUpdateYounger(ev) ==
  /\ session.state = "absent" \/ ev.at > session.last
  /\ session.state \in FinishedState =>
       ev.kind \in {"prompt_submitted", "session_started", "session_ended"}

\* may_update: an event older than the last one, or one that comes after the
\* end of the response, changes nothing of the row.
MayUpdate(ev) ==
  /\ session.state = "absent" \/ ev.at >= session.last
  /\ session.state \in FinishedState =>
       ev.kind \in {"prompt_submitted", "session_started", "session_ended"}

SessionAfter(ev) ==
  IF MayUpdate(ev)
  THEN [state |-> NextView(ev).state, owner |-> NextView(ev).owner, last |-> ev.at]
  ELSE session

\* ingest_transaction, the part every event takes.
Ingested(ev, turn) ==
  /\ Selects(ev.kind, turn)
  /\ turns' = TurnsAfter(ev.kind, turn)
  /\ native' = NativeAfter(ev, turn)
  /\ session' = SessionAfter(ev)

SessionIngest(ev) ==
  \E turn \in Turn \cup {None} :
    /\ Ingested(ev, turn)
    /\ IF ev.kind \in EventKind
       THEN \E R \in Handled(ev.kind, ev.tool, turn) : IngestEvent(ev.kind, ev.tool, turn, R)
       ELSE UNCHANGED storeVars

RequestEvent(r) ==
  [kind |-> IF KindOf[r] = "approval" THEN "approval_requested" ELSE "question_requested",
   tool |-> PermissionTool, call |-> None, background |-> FALSE, at |-> ReceivedAt[r]]

\* A request that is ingested twice carries the same event id and is dropped.
SessionIngestRequest(r) ==
  /\ attention[r].state = "none" /\ ReceivedAt[r] <= now
  /\ \E turn \in Turn \cup {None} : Ingested(RequestEvent(r), turn) /\ IngestRequest(r, turn)

-----------------------------------------------------------------------------
(* sync_native_approval_transaction *)

Later(t) == IF t < now THEN now ELSE t

\* A hook approval or the provider's reviewer already owns the wait.
HookOwned == LiveApprovals # {} \/ session.owner = "provider"

SyncWaiting ==
  IF session.state = "absent" \/ HookOwned
  THEN UNCHANGED <<storeVars, sessionVars>>
  ELSE /\ native' = IF OpenNative # {} THEN native
                    ELSE [native EXCEPT ![Synthetic] = [NoNative EXCEPT !.state = "open"]]
       /\ session' = [state |-> "awaiting_approval", owner |-> "terminal",
                      last |-> Later(session.last)]
       /\ UNCHANGED <<storeVars, turns>>

SyncCleared(active) ==
  IF session.state = "absent"
  THEN UNCHANGED <<storeVars, sessionVars>>
  ELSE /\ ClearApprovals
       /\ native' = ResolvedNative(OpenNative)
       /\ session' = IF LiveApprovals # {} \/ session.owner # None
            THEN [state |-> IF active THEN "thinking" ELSE "response_finished",
                  owner |-> None, last |-> Later(session.last)]
            ELSE session
       /\ UNCHANGED turns

-----------------------------------------------------------------------------
(* The other transactions *)

\* Defect: the session's approvals expire with it, their commands stay.
ReconcileSessionExpiring ==
  /\ session.state \notin {"absent", "idle"}
  /\ now - session.last >= IdleAfter
  /\ attention' = ExpiredAttention(LiveApprovals)
  /\ session' = [session EXCEPT !.state = "idle", !.owner = None]
  /\ UNCHANGED <<commands, turns, native>>

\* reconcile_sessions_transaction for a session whose process is not active.
ReconcileSession ==
  /\ session.state \notin {"absent", "idle"}
  /\ now - session.last >= IdleAfter
  /\ LiveApprovals = {}
  /\ session' = [session EXCEPT !.state = "idle", !.owner = None]
  /\ UNCHANGED <<storeVars, turns, native>>

\* act_attention_transaction on a native approval.
ActOnNative(c, n, action) ==
  /\ n \in OpenNative
  /\ native' = [native EXCEPT
       ![n].state = CASE action = "ack" -> "resolved"
                      [] action = "snooze" -> "snoozed"
                      [] OTHER -> "dismissed",
       ![n].expiresAt = IF action = "snooze" THEN now + SnoozeDelay ELSE None]
  /\ ActOnOther(c, action)
  /\ UNCHANGED <<session, turns>>

\* reopen_due_snoozed, for the items with a request and the native ones.
SessionReopenDue ==
  /\ ReopenDueSnoozed
  /\ native' = [n \in NativeItem |->
       IF native[n].state = "snoozed" /\ native[n].expiresAt <= now
       THEN [native[n] EXCEPT !.state = "open", !.expiresAt = None]
       ELSE native[n]]
  /\ UNCHANGED <<session, turns>>

-----------------------------------------------------------------------------
(* The session under every event in any order: an event is up to as old as   *)
(* the clock, since each arrives on a connection of its own and what found   *)
(* no runtime is replayed by a later one.                                    *)

\* Of a call the start tells, and the end may; the tool is read of tool events
\* only.
WellFormed(ev) ==
  /\ ev.kind = "native_requested" => ev.call # None
  /\ ev.call # None => ev.kind = "native_requested" \/ ExactEnd(ev)
  /\ ev.kind \notin ToolProgress => ev.tool = PermissionTool
  /\ ev.kind = "tool_started" => ev.tool # PermissionTool
  /\ ev.background => ev.kind = "stopped"
  /\ ev.kind \notin {"approval_requested", "question_requested"}

SessionStep ==
  \/ \E kind \in SessionKind, tool \in Tool, call \in NativeCall \cup {None},
        background \in BOOLEAN, at \in 0..now :
       LET ev == [kind |-> kind, tool |-> tool, call |-> call,
                  background |-> background, at |-> at]
       IN WellFormed(ev) /\ SessionIngest(ev)
  \/ \E r \in Request : SessionIngestRequest(r)
  \/ SyncWaiting
  \/ \E active \in BOOLEAN : SyncCleared(active)
  \/ ReconcileSession
  \/ \E c \in Command, n \in NativeItem, a \in AttentionAction : ActOnNative(c, n, a)
  \/ SessionReopenDue
  \/ DecisionStep /\ UNCHANGED sessionVars

SessionNext ==
  \/ SessionStep /\ UNCHANGED now
  \/ Tick /\ UNCHANGED <<storeVars, sessionVars>>

sessionSpecVars == <<now, storeVars, sessionVars>>

SessionSpec == SessionInit /\ [][SessionNext]_sessionSpecVars

-----------------------------------------------------------------------------
(* Properties *)

\* A session has at most one turn that runs, and it is the last one: every
\* event that starts a turn ends or finds ended the ones before it, however
\* late it is (storage.rs:2877).
OneRunningTurn == \A t \in Running : IsLast(Known, t)

\* The owner of a wait never outlives it: "widget" and "terminal" own only a
\* session that awaits an approval, "provider" none that does.  Six
\* transactions write the pair.
OwnerMatchesState ==
  /\ session.owner \in {"widget", "terminal"} => session.state = "awaiting_approval"
  /\ session.owner = "provider" => session.state = "thinking"

\* "A late event must not pull response_finished or failed back to a running
\* state" (WIDGET_V1_PLAN.md:395): only an event that starts a turn, or the
\* app-server's word, does.
LateEventsKeepFinished ==
  [][session.state \in FinishedState /\ session'.state \in BusyState =>
       \/ \E t \in Turn : turns[t] = "none" /\ turns'[t] = "running"
       \/ SyncWaiting
       \/ SyncCleared(TRUE)]_sessionSpecVars

\* last_event_at never runs back, so that what is older than the last event
\* stays older.
LastEventNeverRunsBack == [][session'.last >= session.last]_sessionSpecVars

\* What the session's transactions do to the approvals is what ApprovalStore
\* says they may.
ImplementsStore == StoreSpec

\* "A Hook approval already covering the same Session suppresses the synthetic
\* native card, so the UI never shows duplicate approval items"
\* (M13_PROVIDER_STATE_COORDINATION.md:52).
NoDuplicateCard == ~(native[Synthetic].state = "open" /\ LiveApprovals # {})

\* "awaiting_approval -> awaiting_approval (pass_through,
\* approval_owner=terminal)" (WIDGET_V1_PLAN.md:383).
PassThroughHandsOver ==
  [][\A r \in Request :
       attention[r].state # "passed_through" /\ attention'[r].state = "passed_through" =>
         session'.owner = "terminal"]_sessionSpecVars
=============================================================================
