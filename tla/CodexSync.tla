------------------------------ MODULE CodexSync -----------------------------
(***************************************************************************)
(* server/src/server.rs, CodexManager: what the runtime knows of one       *)
(* thread of the Codex app-server, and how it keeps the native card of the *)
(* thread's session in step with it.                                       *)
(*                                                                         *)
(* Four kinds of threads call sync_codex_native_attention: the start, the  *)
(* reader of notifications, every snapshot (a retry) and a request to      *)
(* attach.  Each takes the manager's lock, runs a store transaction, takes *)
(* the registry's lock for each hook the transaction resolved and then the *)
(* manager's lock again; a step is one of these.                           *)
(*                                                                         *)
(* The app-server is outside the repository: it answers calls with the     *)
(* thread as it is and notifies of every change in order.  Of its requests *)
(* for user input only what their handler writes to the thread is here;    *)
(* their waiters and items are in CodexConnector.  Left out: the loss of   *)
(* the app-server, and the user's commands.                                *)
(***************************************************************************)
EXTENDS WaiterRegistry, SessionStore

CONSTANTS
  Client,      \* requests of the page served at the same time
  SessionNews, \* kinds of events other hooks bring
  MaxChanges,  \* bound on the changes of the thread
  MaxAsks,     \* bound on its requests for user input
  MaxAttaches, \* bound on the requests to attach
  MaxFailures  \* bound on the store calls that return an error

VARIABLES
  thread,        \* the app-server's thread: active, and waiting on approval
  notes,         \* notifications the manager has not read
  changes,
  asks,          \* requests for user input that the app-server has sent
  unread,        \* those of them that no thread has handled
  phase,         \* CodexManager::start: "list", "resume", then "up"
  known,         \* threads: the thread as the manager knows it, or None
  nativeWaiting, \* native_waiting, None when the thread is not in it
  nativeSynced,  \* the thread is in native_synced
  sync,          \* [Syncer -> its call of sync_codex_native_attention]
  attaches,
  failures,
  hook           \* [Request -> step of the hook approval's thread]

askVars == <<asks, unread>>
serverVars == <<thread, notes, changes, askVars>>
managerVars == <<known, nativeWaiting, nativeSynced>>
syncVars == <<phase, sync, attaches, failures>>
codexVars == <<now, regVars, storeVars, sessionVars, serverVars, managerVars, syncVars, hook>>

Syncer == {"start", "handler"} \cup Client

\* thread_waiting_on_approval counts the flag of an active thread only.
View == {v \in [active : BOOLEAN, waiting : BOOLEAN] : v.waiting => v.active}

ASSUME CodexAssumption ==
  /\ {"start", "handler"} \cap Client = {}
  /\ SessionNews \subseteq {"session_started", "incidental", "auto_reviewed"}
  /\ MaxChanges \in Nat /\ MaxAsks \in Nat /\ MaxAttaches \in Nat /\ MaxFailures \in Nat
  /\ Ticket = Request /\ RequestOf = [t \in Ticket |-> t]
  /\ None \notin View

\* A syncer and its call: what it was called with, whether the store knows the
\* session, and the hooks still to be released.
Call(step, view) ==
  [step |-> step, view |-> view, found |-> FALSE, resolved |-> {}]

Quiet == [active |-> FALSE, waiting |-> FALSE]

Idle == Call("idle", Quiet)

CodexTypeOK ==
  /\ RegTypeOK
  /\ SessionTypeOK
  /\ thread \in View
  /\ notes \in Seq([method : {"status", "turn_started", "turn_completed"}, view : View])
  /\ changes \in 0..MaxChanges
  /\ asks \in 0..MaxAsks /\ unread \in 0..asks
  /\ phase \in {"list", "resume", "up"}
  /\ known \in View \cup {None}
  /\ nativeWaiting \in BOOLEAN \cup {None}
  /\ nativeSynced \in BOOLEAN
  /\ sync \in [Syncer -> [step : {"idle", "apply", "store", "mark"}, view : View,
                          found : BOOLEAN, resolved : SUBSET Request]]
  /\ attaches \in 0..MaxAttaches
  /\ failures \in 0..MaxFailures
  /\ hook \in [Request -> {"idle", "ingest", "waiting", "expire", "done"}]

CodexInit ==
  /\ RegInit
  /\ SessionInit
  /\ thread \in View
  /\ notes = <<>> /\ changes = 0 /\ asks = 0 /\ unread = 0
  /\ phase = "list"
  /\ known = None /\ nativeWaiting = None /\ nativeSynced = FALSE
  /\ sync = [p \in Syncer |-> Idle]
  /\ attaches = 0 /\ failures = 0
  /\ hook = [r \in Request |-> "idle"]

-----------------------------------------------------------------------------
(* The app-server *)

Becomes(view, method) ==
  /\ changes < MaxChanges
  /\ changes' = changes + 1
  /\ thread' = view
  /\ notes' = Append(notes, [method |-> method, view |-> view])
  /\ UNCHANGED <<now, regVars, storeVars, sessionVars, askVars, managerVars, syncVars, hook>>

TurnStarts ==
  /\ ~thread.active
  /\ Becomes([active |-> TRUE, waiting |-> FALSE], "turn_started")

TurnCompletes ==
  /\ thread.active
  /\ Becomes(Quiet, "turn_completed")

StatusChanges == \E view \in View \ {thread} : Becomes(view, "status")

ServerAsks ==
  /\ thread.active /\ asks < MaxAsks
  /\ asks' = asks + 1 /\ unread' = unread + 1
  /\ UNCHANGED <<now, regVars, storeVars, sessionVars, thread, notes, changes, managerVars,
                 syncVars, hook>>

-----------------------------------------------------------------------------
(* The hooks of the same session *)

\* Events that resolve no approval: the session appears, something incidental
\* happens, or Codex's own reviewer decides.
HookEvent(kind) ==
  /\ SessionIngest([kind |-> kind, tool |-> PermissionTool, call |-> None,
                    background |-> FALSE, at |-> now])
  /\ UNCHANGED <<now, regVars, serverVars, managerVars, syncVars, hook>>

\* serve's thread for an approval registers its waiter, then stores its item.
HookRegisters(r) ==
  /\ hook[r] = "idle" /\ ReceivedAt[r] <= now
  /\ Register(r)
  /\ hook' = [hook EXCEPT ![r] = "ingest"]
  /\ UNCHANGED <<now, storeVars, sessionVars, serverVars, managerVars, syncVars>>

HookIngests(r) ==
  /\ hook[r] = "ingest"
  /\ SessionIngestRequest(r)
  /\ hook' = [hook EXCEPT ![r] = "waiting"]
  /\ UNCHANGED <<now, regVars, serverVars, managerVars, syncVars>>

HookReceives(r) ==
  /\ hook[r] = "waiting" /\ channel[r] # <<>>
  /\ hook' = [hook EXCEPT ![r] = "done"]
  /\ UNCHANGED <<now, regVars, storeVars, sessionVars, serverVars, managerVars, syncVars>>

\* The deadline is over: the waiter passes through, if nothing removed it
\* meanwhile, and the item expires.
HookTimesOut(r) ==
  /\ hook[r] = "waiting" /\ now >= DeadlineAt[r]
  /\ IF IsActive(r) THEN PassThrough(r) ELSE UNCHANGED regVars
  /\ hook' = [hook EXCEPT ![r] = "expire"]
  /\ UNCHANGED <<now, storeVars, sessionVars, serverVars, managerVars, syncVars>>

HookExpires(r) ==
  /\ hook[r] = "expire"
  /\ ExpireApproval(r)
  /\ hook' = [hook EXCEPT ![r] = "done"]
  /\ UNCHANGED <<now, regVars, sessionVars, serverVars, managerVars, syncVars>>

-----------------------------------------------------------------------------
(* The calls of sync_codex_native_attention *)

\* The manager learns the thread from the answer to a call.
Learns(view) == known' = view /\ nativeWaiting' = view.waiting

\* CodexManager::start lists the threads and resumes the managed ones; either
\* may fail, or not concern this thread.
NextPhase == IF phase = "list" THEN "resume" ELSE "up"

StartSyncs ==
  /\ phase # "up" /\ sync["start"].step = "idle"
  /\ phase' = NextPhase
  /\ Learns(thread)
  /\ sync' = [sync EXCEPT !["start"] = Call("store", thread)]
  /\ UNCHANGED <<now, regVars, storeVars, sessionVars, serverVars, nativeSynced,
                 attaches, failures, hook>>

StartSkips ==
  /\ phase # "up" /\ sync["start"].step = "idle"
  /\ phase' = NextPhase
  /\ UNCHANGED <<now, regVars, storeVars, sessionVars, serverVars, managerVars, sync,
                 attaches, failures, hook>>

\* The manager and its handlers exist once start has returned.
Up == phase = "up" /\ sync["start"].step = "idle"

\* Defect: the start and the end of a turn are not applied.
KnownAfterStatusOnly(note) == IF note.method = "status" THEN note.view ELSE known

\* update_codex_notification: a status is applied to any thread, the start and
\* the end of a turn to one that is known.
KnownAfter(note) ==
  IF note.method = "status" THEN note.view
  ELSE IF known = None THEN None
  ELSE [active |-> note.method = "turn_started", waiting |-> FALSE]

\* It calls only when the wait began or ended, or is not synced yet.
TakeNote ==
  LET view == KnownAfter(Head(notes))
      waiting == view # None /\ view.waiting
      changed == nativeWaiting # waiting
  IN /\ Up /\ notes # <<>> /\ sync["handler"].step = "idle"
     /\ notes' = Tail(notes)
     /\ known' = view
     /\ nativeWaiting' = waiting
     /\ sync' = IF ~changed /\ (~waiting \/ nativeSynced) THEN sync
                ELSE [sync EXCEPT !["handler"] =
                        Call("store", IF view = None THEN Quiet ELSE view)]
     /\ UNCHANGED <<now, regVars, storeVars, sessionVars, thread, changes, askVars,
                    nativeSynced, phase, attaches, failures, hook>>

\* handle_codex_server_request, on a thread beside the reader of notifications:
\* unless it fails before, a thread that asks is active, if it is known.
TakeRequest ==
  /\ Up /\ unread > 0 /\ unread' = unread - 1
  /\ known' \in {known, IF known = None THEN None ELSE [known EXCEPT !.active = TRUE]}
  /\ UNCHANGED <<now, regVars, storeVars, sessionVars, thread, notes, changes, asks,
                 nativeWaiting, nativeSynced, syncVars, hook>>

\* retry_unsynced_native_approvals, run by every snapshot, passes true, true.
RetryCollects(p) ==
  /\ Up /\ sync[p].step = "idle"
  /\ nativeWaiting = TRUE /\ ~nativeSynced
  /\ sync' = [sync EXCEPT ![p] = Call("store", [active |-> TRUE, waiting |-> TRUE])]
  /\ UNCHANGED <<now, regVars, storeVars, sessionVars, serverVars, managerVars, phase,
                 attaches, failures, hook>>

\* CodexManager::attach resumes the thread (an error ends it there), notes what
\* it was told and writes the list of managed threads, which may fail.
AttachResumes(p) ==
  /\ Up /\ sync[p].step = "idle"
  /\ attaches < MaxAttaches /\ attaches' = attaches + 1
  /\ sync' = [sync EXCEPT ![p] = Call("apply", thread)]
  /\ UNCHANGED <<now, regVars, storeVars, sessionVars, serverVars, managerVars, phase,
                 failures, hook>>

AttachApplies(p) ==
  /\ sync[p].step = "apply"
  /\ Learns(sync[p].view)
  /\ \/ /\ sync' = [sync EXCEPT ![p].step = "store"]
        /\ UNCHANGED failures
     \/ /\ failures < MaxFailures /\ failures' = failures + 1
        /\ sync' = [sync EXCEPT ![p] = Idle]
  /\ UNCHANGED <<now, regVars, storeVars, sessionVars, serverVars, nativeSynced, phase,
                 attaches, hook>>

-----------------------------------------------------------------------------
(* sync_codex_native_attention *)

SyncStores(p) ==
  /\ sync[p].step = "store"
  /\ IF sync[p].view.waiting THEN SyncWaiting ELSE SyncCleared(sync[p].view.active)
  /\ sync' = [sync EXCEPT
       ![p].step = "mark",
       ![p].found = session.state # "absent",
       ![p].resolved = IF sync[p].view.waiting \/ session.state = "absent" THEN {}
                       ELSE LiveApprovals]
  /\ UNCHANGED <<now, regVars, serverVars, managerVars, phase,
                 attaches, failures, hook>>

SyncFails(p) ==
  /\ sync[p].step = "store"
  /\ failures < MaxFailures /\ failures' = failures + 1
  /\ sync' = [sync EXCEPT ![p] = Idle]
  /\ UNCHANGED <<now, regVars, storeVars, sessionVars, serverVars, managerVars, phase,
                 attaches, hook>>

\* Defect: the resolved hooks are left to their deadlines.
ForgetsHook(p, r) ==
  /\ sync[p].step = "mark" /\ r \in sync[p].resolved
  /\ sync' = [sync EXCEPT ![p].resolved = @ \ {r}]
  /\ UNCHANGED <<now, regVars, storeVars, sessionVars, serverVars, managerVars, phase,
                 attaches, failures, hook>>

ReleasesHook(p, r) ==
  /\ sync[p].step = "mark" /\ r \in sync[p].resolved
  /\ IF IsActive(r) THEN PassThrough(r) ELSE UNCHANGED regVars
  /\ sync' = [sync EXCEPT ![p].resolved = @ \ {r}]
  /\ UNCHANGED <<now, storeVars, sessionVars, serverVars, managerVars, phase,
                 attaches, failures, hook>>

\* Defect: a wait counts as synced when the store does not know the session.
SyncedAlways(call) == call.view.waiting

\* native_synced after a call: a wait is synced when the store knows the session.
SyncedAfter(call) ==
  IF call.view.waiting THEN nativeSynced \/ call.found ELSE FALSE

SyncMarks(p) ==
  /\ sync[p].step = "mark" /\ sync[p].resolved = {}
  /\ nativeSynced' = SyncedAfter(sync[p])
  /\ sync' = [sync EXCEPT ![p] = Idle]
  /\ UNCHANGED <<now, regVars, storeVars, sessionVars, serverVars, known, nativeWaiting,
                 phase, attaches, failures, hook>>

SyncStep(p) ==
  \/ SyncStores(p)
  \/ SyncFails(p)
  \/ \E r \in Request : ReleasesHook(p, r)
  \/ SyncMarks(p)

-----------------------------------------------------------------------------
CodexTick ==
  /\ Tick
  /\ UNCHANGED <<regVars, storeVars, sessionVars, serverVars, managerVars, syncVars, hook>>

HookStep(r) ==
  HookRegisters(r) \/ HookIngests(r) \/ HookReceives(r) \/ HookTimesOut(r) \/ HookExpires(r)

CodexNext ==
  \/ TurnStarts \/ TurnCompletes \/ StatusChanges \/ ServerAsks
  \/ \E kind \in SessionNews : HookEvent(kind)
  \/ \E r \in Request : HookStep(r)
  \/ StartSyncs \/ StartSkips
  \/ TakeNote \/ TakeRequest
  \/ \E p \in Client : RetryCollects(p) \/ AttachResumes(p) \/ AttachApplies(p)
  \/ \E p \in Syncer : SyncStep(p)
  \/ CodexTick

\* Each of the threads runs, and snapshots are built again and again.
CodexSpec ==
  /\ CodexInit /\ [][CodexNext]_codexVars
  /\ WF_codexVars(StartSyncs \/ StartSkips)
  /\ WF_codexVars(TakeNote)
  /\ \A p \in Client : WF_codexVars(RetryCollects(p)) /\ WF_codexVars(AttachApplies(p))
  /\ \A p \in Syncer : WF_codexVars(SyncStep(p))

-----------------------------------------------------------------------------
(* Properties *)

\* "releases the live Hook with pass-through" (M13_PROVIDER_STATE_COORDINATION
\* .md:56): a hook whose item was resolved still waits only while some call has
\* yet to release it, whatever other calls, retries and deadlines do.
ResolvedHookReleased ==
  \A r \in Request :
    attention[r].state = "resolved" /\ IsActive(r) =>
      \E p \in Syncer : r \in sync[p].resolved

\* Once everything the app-server said is read, the manager knows the thread as
\* it is, though its start and its notifications tell of the same changes.  A
\* request to attach may bring back an older view (server.rs:412), so the
\* property is about runs without one; and a request for user input that is
\* handled after the end of its turn leaves an idle thread active.
ViewCatchesUp ==
  Up /\ notes = <<>> /\ attaches = 0 =>
    /\ known # None =>
         known = thread \/ (asks > 0 /\ known = [thread EXCEPT !.active = TRUE])
    /\ nativeWaiting # None => nativeWaiting = thread.waiting

\* The same with requests for user input: the code does not keep it.
ViewIsThread == Up /\ notes = <<>> /\ attaches = 0 /\ known # None => known = thread

\* A wait the manager was told of is shown unless it ends: a session the store
\* does not know yet, or a store call that failed, is tried again.  The
\* property is about sessions with no approval of their own, see below; and a
\* retry of an earlier wait may count for one whose own call failed.
KnownWait == thread.waiting /\ known # None /\ session.state # "absent"
Shown == OpenNative # {} \/ LiveApprovals # {} \/ session.owner = "provider"

WaitIsShown ==
  KnownWait ~> \/ Shown \/ ~thread.waiting \/ attaches > 0
               \/ failures > 0 /\ nativeSynced
               \/ \E r \in Request : hook[r] # "idle"

\* "Native waitingOnApproval creates one native_approval attention item" and
\* "A Hook approval already covering the same Session suppresses" it
\* (M13_PROVIDER_STATE_COORDINATION.md:50): when what covered the session is
\* over and the thread still waits, the wait is shown.
UncoveredWaitIsShown == KnownWait ~> Shown \/ ~thread.waiting

\* "When managed native waiting clears, Flow Agent resolves both synthetic and
\* competing Hook approvals" (M13_PROVIDER_STATE_COORDINATION.md:54): no card
\* is open for a wait the manager knows to be over, once no call is under way.
ClearedWaitHasNoCard ==
  Up /\ notes = <<>> /\ nativeWaiting = FALSE
     /\ (\A p \in Syncer : sync[p].step = "idle") =>
    native[Synthetic].state # "open"
=============================================================================
