-------------------------- MODULE CodexSyncProofs ---------------------------
(***************************************************************************)
(* Proofs about CodexSync, for any number of hooks and pages.  What the    *)
(* manager does to the registry and to the session is what WaiterRegistry  *)
(* and SessionStore allow, so what is proved of them holds of it; its own  *)
(* invariants are about the calls under way and the notes not yet read.    *)
(***************************************************************************)
EXTENDS CodexSync, SessionStoreProofs

Method == {"status", "turn_started", "turn_completed"}
CallRecord ==
  [step : {"idle", "apply", "store", "mark"}, view : View, found : BOOLEAN,
   resolved : SUBSET Request]

ManagerTypeOK ==
  /\ now \in Nat
  /\ thread \in View
  /\ notes \in Seq([method : Method, view : View])
  /\ changes \in 0..MaxChanges
  /\ asks \in 0..MaxAsks /\ unread \in 0..asks
  /\ phase \in {"list", "resume", "up"}
  /\ known \in View \cup {None}
  /\ nativeWaiting \in BOOLEAN \cup {None}
  /\ nativeSynced \in BOOLEAN
  /\ sync \in [Syncer -> CallRecord]
  /\ attaches \in 0..MaxAttaches
  /\ failures \in 0..MaxFailures
  /\ hook \in [Request -> {"idle", "ingest", "waiting", "expire", "done"}]

\* Hooks are to be released only by a call past its transaction.
CallsRelease == \A p \in Syncer : sync[p].step # "mark" => sync[p].resolved = {}

\* The store has no item of a hook that has not connected.
UnseenHooks == \A r \in Request : hook[r] = "idle" => attention[r].state = "none"

\* A turn's start and end say what the app-server's thread is then.
NotesTell ==
  \A i \in 1..Len(notes) :
    notes[i].method # "status" =>
      notes[i].view = [active |-> notes[i].method = "turn_started", waiting |-> FALSE]

\* The last note says what the thread is.
LastNoteIsThread == notes # <<>> => notes[Len(notes)].view = thread

NothingAttaches == attaches = 0 => \A p \in Syncer : sync[p].step # "apply"

\* The same as ViewCatchesUp, at the start too.
CaughtUp ==
  notes = <<>> /\ attaches = 0 =>
    /\ known # None =>
         known = thread \/ (asks > 0 /\ known = [thread EXCEPT !.active = TRUE])
    /\ nativeWaiting # None => nativeWaiting = thread.waiting

CodexInv ==
  /\ ManagerTypeOK
  /\ CallsRelease
  /\ UnseenHooks
  /\ NotesTell
  /\ LastNoteIsThread
  /\ NothingAttaches
  /\ CaughtUp
  /\ ResolvedHookReleased

-----------------------------------------------------------------------------
(* Calls *)

LEMMA CallTyped ==
  ASSUME NEW step \in {"idle", "apply", "store", "mark"}, NEW view \in View
  PROVE  /\ Call(step, view) \in CallRecord
         /\ Call(step, view).step = step /\ Call(step, view).resolved = {}
         /\ Call(step, view).view = view
BY DEF Call, CallRecord

LEMMA QuietTyped ==
  /\ Quiet \in View /\ [active |-> TRUE, waiting |-> FALSE] \in View
  /\ [active |-> TRUE, waiting |-> TRUE] \in View
  /\ Idle \in CallRecord /\ Idle.step = "idle" /\ Idle.resolved = {}
BY CallTyped DEF Quiet, View, Idle

\* A syncer begins a call, or its call ends: nothing is to be released by it.
Replaces(p, call) ==
  /\ sync[p].resolved = {}
  /\ call \in CallRecord /\ call.resolved = {}
  /\ sync' = [sync EXCEPT ![p] = call]

LEMMA ReplacedCall ==
  ASSUME ManagerTypeOK, CallsRelease, NEW p \in Syncer, NEW call, Replaces(p, call)
  PROVE  /\ sync' \in [Syncer -> CallRecord]
         /\ CallsRelease'
         /\ \A q \in Syncer : sync'[q].resolved = sync[q].resolved
         /\ sync'[p] = call /\ \A q \in Syncer \ {p} : sync'[q] = sync[q]
BY DEF ManagerTypeOK, CallsRelease, Replaces

-----------------------------------------------------------------------------
(* The registry and the session under the manager *)

LEMMA CodexRegistryStep ==
  ASSUME CodexNext
  PROVE  [RegNext]_<<now, regVars>>
<1>1. ASSUME NEW r \in Request, HookStep(r)  PROVE [RegNext]_<<now, regVars>>
  BY <1>1, CodexAssumption DEF HookStep, HookRegisters, HookIngests, HookReceives, HookTimesOut,
     HookExpires, RegNext, RegStep
<1>2. ASSUME NEW p \in Syncer, SyncStep(p)  PROVE [RegNext]_<<now, regVars>>
  <2>1. ASSUME NEW r \in Request, ReleasesHook(p, r)  PROVE [RegNext]_<<now, regVars>>
    BY <2>1 DEF ReleasesHook, RegNext, RegStep
  <2>. QED  BY <1>2, <2>1 DEF SyncStep, SyncStores, SyncFails, SyncMarks
<1>3. CASE CodexTick
  BY <1>3 DEF CodexTick, RegNext
<1>4. CASE UNCHANGED <<now, regVars>>
  BY <1>4
<1>. QED  BY <1>1, <1>2, <1>3, <1>4 DEF CodexNext, TurnStarts, TurnCompletes, StatusChanges,
     Becomes, ServerAsks, HookEvent, StartSyncs, StartSkips, TakeNote, TakeRequest,
     RetryCollects, AttachResumes, AttachApplies

LEMMA CodexSessionStep ==
  ASSUME ManagerTypeOK, CodexNext
  PROVE  [SessionNext]_sessionSpecVars
<1>. USE DEF sessionSpecVars
<1>1. ASSUME NEW kind \in SessionNews, HookEvent(kind)  PROVE [SessionNext]_sessionSpecVars
  <2>. DEFINE ev == [kind |-> kind, tool |-> PermissionTool, call |-> None,
                     background |-> FALSE, at |-> now]
  <2>1. kind \in {"session_started", "incidental", "auto_reviewed"}
    BY CodexAssumption
  <2>2. kind \in SessionKind /\ PermissionTool \in Tool /\ now \in 0..now
    BY <2>1, SessionAssumption DEF SessionKind, ManagerTypeOK
  <2>3. WellFormed(ev)
    BY <2>1 DEF WellFormed, ToolProgress
  <2>. QED  BY <1>1, <2>2, <2>3 DEF HookEvent, SessionNext, SessionStep
<1>2. ASSUME NEW r \in Request, HookStep(r)  PROVE [SessionNext]_sessionSpecVars
  BY <1>2 DEF HookStep, HookRegisters, HookIngests, HookReceives, HookTimesOut, HookExpires,
     SessionNext, SessionStep, DecisionStep
<1>3. ASSUME NEW p \in Syncer, SyncStep(p)  PROVE [SessionNext]_sessionSpecVars
  <2>1. sync[p].view.active \in BOOLEAN
    BY DEF ManagerTypeOK, CallRecord, View
  <2>. QED  BY <1>3, <2>1 DEF SyncStep, SyncStores, SyncFails, ReleasesHook, SyncMarks,
            SessionNext, SessionStep
<1>4. CASE CodexTick
  BY <1>4 DEF CodexTick, SessionNext
<1>5. CASE UNCHANGED sessionSpecVars
  BY <1>5
<1>. QED  BY <1>1, <1>2, <1>3, <1>4, <1>5 DEF CodexNext, TurnStarts, TurnCompletes,
     StatusChanges, Becomes, ServerAsks, StartSyncs, StartSkips, TakeNote, TakeRequest,
     RetryCollects, AttachResumes, AttachApplies

-----------------------------------------------------------------------------
(* The steps of the app-server and of the hooks *)

LEMMA CodexInitInv == CodexInit => CodexInv
<1>. SUFFICES ASSUME CodexInit PROVE CodexInv
  OBVIOUS
<1>1. ManagerTypeOK
  <2>1. sync \in [Syncer -> CallRecord] /\ now \in Nat /\ thread \in View
    BY QuietTyped DEF CodexInit, RegInit
  <2>2. /\ changes \in 0..MaxChanges /\ asks \in 0..MaxAsks /\ unread \in 0..asks
        /\ attaches \in 0..MaxAttaches /\ failures \in 0..MaxFailures
    BY CodexAssumption DEF CodexInit
  <2>3. /\ notes \in Seq([method : Method, view : View])
        /\ hook \in [Request -> {"idle", "ingest", "waiting", "expire", "done"}]
        /\ phase \in {"list", "resume", "up"} /\ known \in View \cup {None}
    BY DEF CodexInit
  <2>4. nativeWaiting \in BOOLEAN \cup {None} /\ nativeSynced \in BOOLEAN
    BY Zenon DEF CodexInit
  <2>. QED  BY <2>1, <2>2, <2>3, <2>4 DEF ManagerTypeOK
<1>2. \A r \in Request : attention[r].state = "none" /\ byRequest[r] = None
  BY DEF CodexInit, RegInit, SessionInit, StoreInit, NoAttention
<1>. QED  BY <1>1, <1>2, QuietTyped
          DEF CodexInit, CodexInv, CallsRelease, UnseenHooks, NotesTell, LastNoteIsThread,
              NothingAttaches, CaughtUp, ResolvedHookReleased, IsActive

\* What a step on the hooks keeps of the rest.
LEMMA ServerUntouched ==
  ASSUME CodexInv, UNCHANGED <<serverVars, managerVars, phase, attaches, failures>>,
         now' \in Nat, sync' \in [Syncer -> CallRecord],
         hook' \in [Request -> {"idle", "ingest", "waiting", "expire", "done"}],
         \A p \in Syncer : sync'[p].step = "apply" => sync[p].step = "apply"
  PROVE  /\ ManagerTypeOK'
         /\ NotesTell' /\ LastNoteIsThread' /\ NothingAttaches' /\ CaughtUp'
<1>1. ManagerTypeOK'
  BY DEF CodexInv, ManagerTypeOK, serverVars, askVars, managerVars
<1>2. NotesTell' /\ LastNoteIsThread' /\ NothingAttaches' /\ CaughtUp'
  BY DEF CodexInv, serverVars, askVars, managerVars, NotesTell, LastNoteIsThread, NothingAttaches,
         CaughtUp
<1>. QED  BY <1>1, <1>2

LEMMA ServerStepKeepsInv ==
  ASSUME CodexInv, TurnStarts \/ TurnCompletes \/ StatusChanges
  PROVE  CodexInv'
<1>1. PICK view \in View, method \in Method :
        /\ Becomes(view, method)
        /\ method # "status" =>
             view = [active |-> method = "turn_started", waiting |-> FALSE]
  BY QuietTyped DEF TurnStarts, TurnCompletes, StatusChanges, Method, Quiet
<1>. DEFINE note == [method |-> method, view |-> view]
<1>2. /\ notes' = Append(notes, note) /\ thread' = view /\ changes' \in 0..MaxChanges
      /\ UNCHANGED <<now, regVars, storeVars, sessionVars, askVars, managerVars, syncVars, hook>>
  BY <1>1, CodexAssumption DEF Becomes, CodexInv, ManagerTypeOK
<1>3. /\ Len(notes') = Len(notes) + 1 /\ notes'[Len(notes')] = note /\ notes' # <<>>
      /\ \A i \in 1..Len(notes) : notes'[i] = notes[i]
      /\ notes' \in Seq([method : Method, view : View]) /\ Len(notes) \in Nat
  BY <1>2 DEF CodexInv, ManagerTypeOK
<1>4. ManagerTypeOK'
  BY <1>2, <1>3 DEF CodexInv, ManagerTypeOK, askVars, managerVars, syncVars
<1>5. NotesTell'
  <2>. SUFFICES ASSUME NEW i \in 1..Len(notes'), notes'[i].method # "status"
                PROVE  notes'[i].view =
                         [active |-> notes'[i].method = "turn_started", waiting |-> FALSE]
    BY DEF NotesTell
  <2>1. CASE i = Len(notes')
    <3>1. notes'[i] = note
      BY <1>3, <2>1
    <3>2. notes'[i].method = method /\ notes'[i].view = view
      BY <3>1
    <3>. QED  BY <1>1, <3>2, Zenon
  <2>2. CASE i \in 1..Len(notes)
    BY <1>3, <2>2 DEF CodexInv, NotesTell
  <2>. QED  BY <1>3, <2>1, <2>2
<1>6. LastNoteIsThread' /\ CaughtUp'
  BY <1>2, <1>3 DEF LastNoteIsThread, CaughtUp
<1>7. CallsRelease' /\ UnseenHooks' /\ NothingAttaches' /\ ResolvedHookReleased'
  BY <1>2 DEF CodexInv, CallsRelease, UnseenHooks, NothingAttaches, ResolvedHookReleased,
              syncVars, storeVars, regVars, IsActive
<1>. QED  BY <1>4, <1>5, <1>6, <1>7 DEF CodexInv

\* A request for user input, sent or handled, changes at most whether the
\* manager knows the thread as active.
LEMMA RequestKeepsInv ==
  ASSUME CodexInv, ServerAsks \/ TakeRequest
  PROVE  CodexInv'
<1>1. /\ UNCHANGED <<now, regVars, storeVars, thread, notes, changes, nativeWaiting, nativeSynced,
                     syncVars, hook>>
      /\ asks' \in 0..MaxAsks /\ unread' \in 0..asks' /\ asks' >= asks
      /\ known' # known => asks > 0
  <2>1. CASE ServerAsks
    BY <2>1, CodexAssumption DEF ServerAsks, CodexInv, ManagerTypeOK, managerVars
  <2>2. CASE TakeRequest
    BY <2>2 DEF TakeRequest, CodexInv, ManagerTypeOK
  <2>. QED  BY <2>1, <2>2
<1>2. \/ known' = known
      \/ known # None /\ known' = [known EXCEPT !.active = TRUE]
  BY DEF ServerAsks, TakeRequest, managerVars
<1>3. /\ known' \in View \cup {None}
      /\ known' # None <=> known # None
  <2>1. known # None => known \in View /\ [known EXCEPT !.active = TRUE] \in View
    BY DEF CodexInv, ManagerTypeOK, View
  <2>. QED  BY <1>2, <2>1, CodexAssumption DEF CodexInv, ManagerTypeOK
<1>4. ManagerTypeOK'
  BY <1>1, <1>3 DEF CodexInv, ManagerTypeOK, syncVars
<1>5. CaughtUp'
  <2>. SUFFICES ASSUME notes' = <<>>, attaches' = 0
                PROVE  /\ known' # None =>
                            known' = thread' \/ (asks' > 0
                                                  /\ known' = [thread' EXCEPT !.active = TRUE])
                       /\ nativeWaiting' # None => nativeWaiting' = thread'.waiting
    BY DEF CaughtUp
  <2>1. /\ known # None => known = thread \/ known = [thread EXCEPT !.active = TRUE]
        /\ known # None /\ known # thread => asks > 0
        /\ nativeWaiting # None => nativeWaiting = thread.waiting
    BY <1>1 DEF CodexInv, CaughtUp, syncVars
  <2>2. asks > 0 => asks' > 0
    BY <1>1 DEF CodexInv, ManagerTypeOK
  <2>3. thread \in View
    BY DEF CodexInv, ManagerTypeOK
  <2>4. CASE known' = known
    BY <1>1, <2>1, <2>2, <2>4
  <2>5. CASE known # None /\ known' = [known EXCEPT !.active = TRUE]
    <3>1. known' = [thread EXCEPT !.active = TRUE]
      BY <2>1, <2>3, <2>5 DEF View
    <3>2. known' = thread \/ asks > 0
      BY <1>1, <2>1, <2>5
    <3>3. thread' = thread /\ nativeWaiting' = nativeWaiting
      BY <1>1
    <3>4. known' = [thread' EXCEPT !.active = TRUE]
      BY <3>1, <3>3
    <3>5. known' = thread' \/ asks' > 0
      BY <2>2, <3>2, <3>3
    <3>. QED  BY <2>1, <3>3, <3>4, <3>5
  <2>. QED  BY <1>2, <2>4, <2>5
<1>6. NotesTell' /\ LastNoteIsThread' /\ NothingAttaches'
  BY <1>1 DEF CodexInv, NotesTell, LastNoteIsThread, NothingAttaches, syncVars
<1>7. CallsRelease' /\ UnseenHooks' /\ ResolvedHookReleased'
  BY <1>1 DEF CodexInv, CallsRelease, UnseenHooks, ResolvedHookReleased, syncVars, storeVars,
              regVars, IsActive
<1>. QED  BY <1>4, <1>5, <1>6, <1>7 DEF CodexInv

\* Passing a hook through, or leaving it when it is gone already, leaves it
\* unregistered and the others as they are.
LEMMA Passed ==
  ASSUME RegTypeOK, NEW r \in Request,
         IF IsActive(r) THEN PassThrough(r) ELSE UNCHANGED regVars
  PROVE  ~IsActive(r)' /\ \A q \in Request : IsActive(q)' => IsActive(q)
BY DEF PassThrough, Resolve, ByRequestWithout, IsActive, regVars

LEMMA HookStepKeepsInv ==
  ASSUME CodexInv, RegTypeOK, StoreTypeOK, NEW r \in Request, HookStep(r)
  PROVE  CodexInv'
<1>1. /\ UNCHANGED <<now, serverVars, managerVars, syncVars>>
      /\ hook' \in [Request -> {"idle", "ingest", "waiting", "expire", "done"}]
      /\ \A q \in Request : hook'[q] = "idle" => hook[q] = "idle" /\ q # r
  BY DEF HookStep, HookRegisters, HookIngests, HookReceives, HookTimesOut, HookExpires,
         CodexInv, ManagerTypeOK
<1>2. ManagerTypeOK' /\ NotesTell' /\ LastNoteIsThread' /\ NothingAttaches' /\ CaughtUp'
  BY <1>1, ServerUntouched DEF CodexInv, ManagerTypeOK, syncVars
<1>3. CallsRelease'
  BY <1>1 DEF CodexInv, CallsRelease, syncVars
<1>4. \A q \in Request \ {r} :
        (attention'[q] = attention[q]) /\ (IsActive(q)' => IsActive(q))
  <2>1. ASSUME HookRegisters(r), NEW q \in Request \ {r}
        PROVE  attention'[q] = attention[q] /\ (IsActive(q)' => IsActive(q))
    BY <2>1, CodexAssumption
       DEF HookRegisters, Register, storeVars, IsActive, ByRequestWithout, RegTypeOK
  <2>2. ASSUME HookIngests(r), NEW q \in Request \ {r}
        PROVE  attention'[q] = attention[q] /\ (IsActive(q)' => IsActive(q))
    BY <2>2 DEF HookIngests, SessionIngestRequest, IngestRequest, regVars, IsActive, StoreTypeOK
  <2>3. ASSUME HookReceives(r), NEW q \in Request \ {r}
        PROVE  attention'[q] = attention[q] /\ (IsActive(q)' => IsActive(q))
    BY <2>3 DEF HookReceives, storeVars, regVars, IsActive
  <2>4. ASSUME HookTimesOut(r), NEW q \in Request \ {r}
        PROVE  attention'[q] = attention[q] /\ (IsActive(q)' => IsActive(q))
    BY <2>4, Passed DEF HookTimesOut, storeVars
  <2>5. ASSUME HookExpires(r), NEW q \in Request \ {r}
        PROVE  attention'[q] = attention[q] /\ (IsActive(q)' => IsActive(q))
    BY <2>5 DEF HookExpires, ExpireApproval, ExpiredAttention, storeVars, regVars, IsActive
  <2>. QED  BY <2>1, <2>2, <2>3, <2>4, <2>5 DEF HookStep
<1>5. attention'[r].state = "resolved" =>
        attention[r].state = "resolved" /\ (IsActive(r)' => IsActive(r))
  <2>1. CASE HookRegisters(r)
    BY <2>1 DEF HookRegisters, storeVars, CodexInv, UnseenHooks
  <2>2. CASE HookIngests(r)
    BY <2>2 DEF HookIngests, SessionIngestRequest, IngestRequest, StoreTypeOK
  <2>3. CASE HookReceives(r)
    BY <2>3 DEF HookReceives, storeVars, regVars, IsActive
  <2>4. CASE HookTimesOut(r)
    BY <2>4, Passed DEF HookTimesOut, storeVars
  <2>5. CASE HookExpires(r)
    <3>1. attention[r].state \in LiveState =>
            attention'[r] = [attention[r] EXCEPT !.state = "expired", !.resolution = "stale"]
      BY <2>5 DEF HookExpires, ExpireApproval, ExpiredAttention
    <3>2. attention[r].state \in LiveState => attention'[r].state = "expired"
      BY <3>1 DEF StoreTypeOK, AttentionRow
    <3>. QED  BY <2>5, <3>2 DEF HookExpires, ExpireApproval, storeVars, regVars, IsActive
  <2>. QED  BY <2>1, <2>2, <2>3, <2>4, <2>5 DEF HookStep
<1>6. UnseenHooks' /\ ResolvedHookReleased'
  BY <1>1, <1>4, <1>5 DEF CodexInv, UnseenHooks, ResolvedHookReleased, syncVars
<1>. QED  BY <1>2, <1>3, <1>6 DEF CodexInv

LEMMA EventKeepsInv ==
  ASSUME CodexInv, NEW kind \in SessionNews, HookEvent(kind)
  PROVE  CodexInv'
<1>1. UNCHANGED <<now, regVars, storeVars, serverVars, managerVars, syncVars, hook>>
  <2>1. kind \notin EventKind
    BY CodexAssumption DEF EventKind, ToolProgress, ClosesSession
  <2>. QED  BY <2>1 DEF HookEvent, SessionIngest
<1>2. ManagerTypeOK' /\ NotesTell' /\ LastNoteIsThread' /\ NothingAttaches' /\ CaughtUp'
  BY <1>1, ServerUntouched DEF CodexInv, ManagerTypeOK, syncVars
<1>3. CallsRelease' /\ UnseenHooks' /\ ResolvedHookReleased'
  BY <1>1 DEF CodexInv, CallsRelease, UnseenHooks, ResolvedHookReleased, syncVars, storeVars,
              regVars, IsActive
<1>. QED  BY <1>2, <1>3 DEF CodexInv

-----------------------------------------------------------------------------
(* The steps of the syncers *)

\* A syncer that begins or ends a call touches neither a waiter nor an item.
LEMMA CallKeepsHooks ==
  ASSUME CodexInv, UNCHANGED <<regVars, storeVars, hook>>, NEW p \in Syncer, NEW call,
         sync' = sync \/ Replaces(p, call)
  PROVE  /\ sync' \in [Syncer -> CallRecord]
         /\ CallsRelease' /\ UnseenHooks' /\ ResolvedHookReleased'
<1>1. /\ sync' \in [Syncer -> CallRecord] /\ CallsRelease'
      /\ \A q \in Syncer : sync'[q].resolved = sync[q].resolved
  <2>1. CASE sync' = sync
    BY <2>1 DEF CodexInv, ManagerTypeOK, CallsRelease
  <2>2. CASE Replaces(p, call)
    BY <2>2, ReplacedCall DEF CodexInv
  <2>. QED  BY <2>1, <2>2
<1>2. UnseenHooks' /\ ResolvedHookReleased'
  BY <1>1 DEF CodexInv, UnseenHooks, ResolvedHookReleased, storeVars, regVars, IsActive
<1>. QED  BY <1>1, <1>2

\* An answer of the app-server tells the thread as it is.
LEMMA StartKeepsInv ==
  ASSUME CodexInv, StartSyncs \/ StartSkips
  PROVE  CodexInv'
<1>1. /\ UNCHANGED <<now, regVars, storeVars, serverVars, nativeSynced, attaches, failures, hook>>
      /\ phase' \in {"list", "resume", "up"}
      /\ \/ known' = thread /\ nativeWaiting' = thread.waiting
         \/ known' = known /\ nativeWaiting' = nativeWaiting
  BY DEF StartSyncs, StartSkips, NextPhase, Learns, managerVars
<1>2. PICK call \in CallRecord :
        /\ call.step = "store"
        /\ sync' = sync \/ Replaces("start", call)
  <2>1. /\ Call("store", thread) \in CallRecord
        /\ Call("store", thread).step = "store" /\ Call("store", thread).resolved = {}
    BY CallTyped DEF CodexInv, ManagerTypeOK
  <2>2. CASE StartSkips
    BY <2>1, <2>2 DEF StartSkips
  <2>3. CASE StartSyncs
    <3>1. sync["start"].resolved = {} /\ sync' = [sync EXCEPT !["start"] = Call("store", thread)]
      BY <2>3 DEF StartSyncs, CodexInv, CallsRelease, Syncer
    <3>. QED  BY <2>1, <3>1 DEF Replaces
  <2>. QED  BY <2>2, <2>3
<1>3. "start" \in Syncer
  BY DEF Syncer
<1>4. sync' \in [Syncer -> CallRecord] /\ CallsRelease' /\ UnseenHooks' /\ ResolvedHookReleased'
  BY <1>1, <1>2, <1>3, CallKeepsHooks
<1>5. \A q \in Syncer : sync'[q].step = "apply" => sync[q].step = "apply"
  BY <1>2, <1>3, ReplacedCall DEF CodexInv
<1>6. ManagerTypeOK'
  <2>1. known' \in View \cup {None} /\ nativeWaiting' \in BOOLEAN \cup {None}
    BY <1>1 DEF CodexInv, ManagerTypeOK, View
  <2>. QED  BY <1>1, <1>4, <2>1 DEF CodexInv, ManagerTypeOK, serverVars, askVars
<1>7. NotesTell' /\ LastNoteIsThread' /\ NothingAttaches'
  BY <1>1, <1>5 DEF CodexInv, NotesTell, LastNoteIsThread, NothingAttaches, serverVars
<1>8. CaughtUp'
  BY <1>1 DEF CodexInv, CaughtUp, serverVars, askVars
<1>. QED  BY <1>4, <1>6, <1>7, <1>8 DEF CodexInv

\* Reading the last note leaves the manager with what it says.
LEMMA TakeNoteKeepsInv ==
  ASSUME CodexInv, TakeNote
  PROVE  CodexInv'
<1>. DEFINE note == Head(notes)
            view == KnownAfter(note)
            waiting == view # None /\ view.waiting
<1>1. /\ notes # <<>> /\ notes' = Tail(notes) /\ known' = view /\ nativeWaiting' = waiting
      /\ UNCHANGED <<now, regVars, storeVars, thread, changes, askVars, nativeSynced, phase,
                     attaches, failures, hook>>
  BY DEF TakeNote
<1>2. /\ Len(notes) \in Nat /\ Len(notes) >= 1 /\ note = notes[1]
      /\ notes' \in Seq([method : Method, view : View]) /\ Len(notes') = Len(notes) - 1
      /\ \A i \in 1..Len(notes') : notes'[i] = notes[i + 1]
  <2>1. notes \in Seq([method : Method, view : View]) /\ notes # <<>> /\ notes' = Tail(notes)
    BY <1>1 DEF CodexInv, ManagerTypeOK
  <2>2. note = notes[1]
    BY <2>1
  <2>. HIDE DEF note
  <2>. QED  BY <2>1, <2>2
<1>3. note \in [method : Method, view : View]
  <2>1. notes \in Seq([method : Method, view : View]) /\ 1 \in 1..Len(notes)
    BY <1>2 DEF CodexInv, ManagerTypeOK
  <2>2. notes[1] \in [method : Method, view : View]
    BY <2>1, ElementTyped
  <2>. HIDE DEF note
  <2>. QED  BY <1>2, <2>2
<1>4. view \in View \cup {None}
  <2>1. [active |-> note.method = "turn_started", waiting |-> FALSE] \in View
    BY DEF View
  <2>2. note.view \in View
    BY <1>3
  <2>. QED  BY <2>1, <2>2, Zenon DEF KnownAfter
<1>5. PICK call \in CallRecord :
        /\ call.step = "store"
        /\ sync' = sync \/ Replaces("handler", call)
  <2>. DEFINE told == IF view = None THEN Quiet ELSE view
  <2>1. told \in View
    BY <1>4, QuietTyped
  <2>2. /\ Call("store", told) \in CallRecord
        /\ Call("store", told).step = "store" /\ Call("store", told).resolved = {}
    BY <2>1, CallTyped
  <2>3. \/ sync' = sync
        \/ sync' = [sync EXCEPT !["handler"] = Call("store", told)]
    BY Zenon DEF TakeNote
  <2>4. sync["handler"].resolved = {}
    BY DEF TakeNote, CodexInv, CallsRelease, Syncer
  <2>. HIDE DEF told
  <2>. QED  BY <2>2, <2>3, <2>4 DEF Replaces
<1>6. "handler" \in Syncer
  BY DEF Syncer
<1>7. sync' \in [Syncer -> CallRecord] /\ CallsRelease' /\ UnseenHooks' /\ ResolvedHookReleased'
  BY <1>1, <1>5, <1>6, CallKeepsHooks
<1>8. \A q \in Syncer : sync'[q].step = "apply" => sync[q].step = "apply"
  BY <1>5, <1>6, ReplacedCall DEF CodexInv
<1>. HIDE DEF view, note
<1>9. ManagerTypeOK'
  <2>1. waiting \in BOOLEAN
    BY <1>4 DEF View
  <2>2. known' \in View \cup {None} /\ nativeWaiting' \in BOOLEAN \cup {None}
    BY <1>1, <1>4, <2>1
  <2>. QED  BY <1>1, <1>2, <1>7, <2>2 DEF CodexInv, ManagerTypeOK, askVars
<1>10. NotesTell'
  <2>1. \A i \in 1..Len(notes') : i + 1 \in 1..Len(notes)
    BY <1>2
  <2>. QED  BY <1>2, <2>1 DEF CodexInv, NotesTell
<1>11. LastNoteIsThread' /\ NothingAttaches'
  <2>1. notes' # <<>> => notes'[Len(notes')] = notes[Len(notes)]
    BY <1>2
  <2>. QED  BY <1>1, <1>8, <2>1 DEF CodexInv, LastNoteIsThread, NothingAttaches
<1>12. CaughtUp'
  <2>. SUFFICES ASSUME notes' = <<>>, attaches' = 0
                PROVE  /\ known' # None => known' = thread'
                       /\ nativeWaiting' # None => nativeWaiting' = thread'.waiting
    BY DEF CaughtUp
  <2>1. note.view = thread
    <3>1. Len(notes) = 1 /\ notes[Len(notes)].view = thread
      BY <1>1, <1>2 DEF CodexInv, LastNoteIsThread
    <3>. QED  BY <1>2, <3>1
  <2>2. note.method # "status" =>
          thread = [active |-> note.method = "turn_started", waiting |-> FALSE]
    <3>1. note.method # "status" =>
            note.view = [active |-> note.method = "turn_started", waiting |-> FALSE]
      BY <1>2 DEF CodexInv, NotesTell
    <3>. QED  BY <2>1, <3>1, Zenon
  <2>3. thread # None /\ thread \in View
    BY CodexAssumption DEF CodexInv, ManagerTypeOK
  <2>4. CASE note.method = "status"
    <3>1. view = thread
      BY <2>1, <2>4 DEF view, KnownAfter
    <3>2. waiting = thread.waiting
      BY <2>3, <3>1 DEF View
    <3>. QED  BY <1>1, <3>1, <3>2
  <2>5. CASE note.method # "status" /\ known = None
    <3>1. view = None
      BY <2>5 DEF view, KnownAfter
    <3>2. thread.waiting = FALSE
      BY <2>2, <2>5
    <3>. QED  BY <1>1, <3>1, <3>2
  <2>6. CASE note.method # "status" /\ known # None
    <3>1. view = thread
      BY <2>2, <2>6, Zenon DEF view, KnownAfter
    <3>2. waiting = thread.waiting
      BY <2>3, <3>1 DEF View
    <3>. QED  BY <1>1, <3>1, <3>2
  <2>. QED  BY <2>4, <2>5, <2>6
<1>. QED  BY <1>7, <1>9, <1>10, <1>11, <1>12 DEF CodexInv

\* A page's snapshot or request to attach, up to its transaction.
LEMMA ClientKeepsInv ==
  ASSUME CodexInv, NEW p \in Client, RetryCollects(p) \/ AttachResumes(p) \/ AttachApplies(p)
  PROVE  CodexInv'
<1>1. /\ p \in Syncer /\ sync[p] \in CallRecord /\ sync[p].resolved = {}
      /\ UNCHANGED <<now, regVars, storeVars, serverVars, nativeSynced, phase, hook>>
  BY DEF Syncer, CodexInv, ManagerTypeOK, CallsRelease, RetryCollects, AttachResumes,
         AttachApplies, managerVars
<1>2. PICK call \in CallRecord :
        /\ Replaces(p, call)
        /\ call.step = "apply" => attaches' # 0
  <2>1. CASE RetryCollects(p)
    BY <1>1, <2>1, QuietTyped, CallTyped DEF RetryCollects, Replaces
  <2>2. CASE AttachResumes(p)
    <3>1. Call("apply", thread) \in CallRecord /\ Call("apply", thread).resolved = {}
      BY CallTyped DEF CodexInv, ManagerTypeOK
    <3>2. sync' = [sync EXCEPT ![p] = Call("apply", thread)] /\ attaches' # 0
      BY <2>2 DEF AttachResumes, CodexInv, ManagerTypeOK
    <3>. QED  BY <1>1, <3>1, <3>2 DEF Replaces
  <2>3. CASE AttachApplies(p)
    <3>. DEFINE stores == [sync[p] EXCEPT !.step = "store"]
    <3>1. stores \in CallRecord /\ stores.step = "store" /\ stores.resolved = {}
      BY <1>1 DEF CallRecord
    <3>2. \/ sync' = [sync EXCEPT ![p] = stores]
          \/ sync' = [sync EXCEPT ![p] = Idle]
      BY <2>3 DEF AttachApplies
    <3>. HIDE DEF stores
    <3>. QED  BY <1>1, <3>1, <3>2, QuietTyped DEF Replaces
  <2>. QED  BY <2>1, <2>2, <2>3
<1>3. sync' \in [Syncer -> CallRecord] /\ CallsRelease' /\ UnseenHooks' /\ ResolvedHookReleased'
  BY <1>1, <1>2, CallKeepsHooks
<1>4. /\ attaches' \in 0..MaxAttaches /\ failures' \in 0..MaxFailures
      /\ attaches' = 0 => attaches = 0
  BY CodexAssumption
     DEF CodexInv, ManagerTypeOK, RetryCollects, AttachResumes, AttachApplies
<1>5. \/ known' = known /\ nativeWaiting' = nativeWaiting
      \/ AttachApplies(p)
  BY DEF RetryCollects, AttachResumes, managerVars
<1>6. ManagerTypeOK'
  <2>1. known' \in View \cup {None} /\ nativeWaiting' \in BOOLEAN \cup {None}
    BY <1>1, <1>5 DEF CodexInv, ManagerTypeOK, AttachApplies, Learns, CallRecord, View
  <2>. QED  BY <1>1, <1>3, <1>4, <2>1 DEF CodexInv, ManagerTypeOK, serverVars, askVars
<1>7. NotesTell' /\ LastNoteIsThread'
  BY <1>1 DEF CodexInv, NotesTell, LastNoteIsThread, serverVars
<1>8. NothingAttaches'
  BY <1>1, <1>2, <1>4, ReplacedCall DEF CodexInv, NothingAttaches
<1>9. CaughtUp'
  <2>1. AttachApplies(p) => attaches # 0
    BY <1>1 DEF AttachApplies, CodexInv, NothingAttaches
  <2>. QED  BY <1>1, <1>4, <1>5, <2>1 DEF CodexInv, CaughtUp, serverVars, askVars
<1>. QED  BY <1>3, <1>6, <1>7, <1>8, <1>9 DEF CodexInv

\* The items a cleared wait resolves are the ones its call has to release.
LEMMA SyncStoresKeepsInv ==
  ASSUME CodexInv, NEW p \in Syncer, SyncStores(p)
  PROVE  CodexInv'
<1>. DEFINE released == IF sync[p].view.waiting \/ session.state = "absent" THEN {}
                        ELSE LiveApprovals
            found == session.state # "absent"
            call == [sync[p] EXCEPT !.step = "mark", !.found = found, !.resolved = released]
<1>1. /\ sync[p] \in CallRecord /\ sync[p].resolved = {}
      /\ released \subseteq Request
      /\ UNCHANGED <<now, regVars, serverVars, managerVars, phase, attaches, failures, hook>>
  BY DEF CodexInv, ManagerTypeOK, CallsRelease, SyncStores, LiveApprovals
<1>2. sync' = [sync EXCEPT ![p] = call]
  BY DEF SyncStores
<1>3. call \in CallRecord /\ call.step = "mark" /\ call.resolved = released
  <2>1. found \in BOOLEAN /\ released \in SUBSET Request
    BY <1>1
  <2>. HIDE DEF found, released
  <2>. QED  BY <1>1, <2>1 DEF CallRecord
<1>. HIDE DEF call
<1>4. /\ sync' \in [Syncer -> CallRecord]
      /\ sync'[p] = call
      /\ \A q \in Syncer \ {p} : sync'[q] = sync[q]
  BY <1>2, <1>3 DEF CodexInv, ManagerTypeOK
<1>5. /\ ManagerTypeOK'
      /\ NotesTell' /\ LastNoteIsThread' /\ NothingAttaches' /\ CaughtUp'
  <2>1. \A q \in Syncer : sync'[q].step = "apply" => sync[q].step = "apply"
    BY <1>3, <1>4
  <2>. QED  BY <1>1, <1>4, <2>1, ServerUntouched DEF CodexInv, ManagerTypeOK
<1>6. CallsRelease'
  BY <1>3, <1>4 DEF CodexInv, CallsRelease
<1>7. /\ \A r \in Request \ released : attention'[r] = attention[r]
      /\ \A r \in released : attention[r].state # "none"
  <2>1. CASE sync[p].view.waiting
    BY <2>1 DEF SyncStores, SyncWaiting, storeVars
  <2>2. CASE ~sync[p].view.waiting /\ session.state = "absent"
    BY <2>2 DEF SyncStores, SyncCleared, storeVars
  <2>3. CASE ~sync[p].view.waiting /\ session.state # "absent"
    <3>1. attention' = ResolvedAttention(LiveApprovals, "provider_handled")
      BY <2>3 DEF SyncStores, SyncCleared, ClearApprovals
    <3>2. \A r \in Request \ LiveApprovals : attention'[r] = attention[r]
      BY <3>1 DEF ResolvedAttention
    <3>3. \A r \in LiveApprovals : attention[r].state # "none"
      BY DEF LiveApprovals, LiveState
    <3>. QED  BY <2>3, <3>2, <3>3
  <2>. QED  BY <2>1, <2>2, <2>3
<1>. HIDE DEF released
<1>8. UnseenHooks'
  BY <1>1, <1>7 DEF CodexInv, UnseenHooks
<1>9. ResolvedHookReleased'
  BY <1>1, <1>3, <1>4, <1>7 DEF CodexInv, ResolvedHookReleased, regVars, IsActive
<1>. QED  BY <1>5, <1>6, <1>8, <1>9 DEF CodexInv

\* A hook that a call has released is no longer registered.
LEMMA ReleasesHookKeepsInv ==
  ASSUME CodexInv, RegTypeOK, NEW p \in Syncer, NEW r \in Request, ReleasesHook(p, r)
  PROVE  CodexInv'
<1>. DEFINE call == [sync[p] EXCEPT !.resolved = @ \ {r}]
<1>1. /\ sync[p] \in CallRecord /\ sync[p].step = "mark"
      /\ UNCHANGED <<now, storeVars, serverVars, managerVars, phase, attaches, failures, hook>>
  BY DEF CodexInv, ManagerTypeOK, ReleasesHook
<1>2. sync' = [sync EXCEPT ![p] = call]
  BY DEF ReleasesHook
<1>3. call \in CallRecord /\ call.step = "mark" /\ call.resolved = sync[p].resolved \ {r}
  BY <1>1 DEF CallRecord
<1>. HIDE DEF call
<1>4. /\ sync' \in [Syncer -> CallRecord]
      /\ sync'[p] = call
      /\ \A q \in Syncer \ {p} : sync'[q] = sync[q]
  BY <1>2, <1>3 DEF CodexInv, ManagerTypeOK
<1>5. /\ ManagerTypeOK'
      /\ NotesTell' /\ LastNoteIsThread' /\ NothingAttaches' /\ CaughtUp'
  <2>1. \A q \in Syncer : sync'[q].step = "apply" => sync[q].step = "apply"
    BY <1>3, <1>4
  <2>. QED  BY <1>1, <1>4, <2>1, ServerUntouched DEF CodexInv, ManagerTypeOK
<1>6. CallsRelease'
  BY <1>3, <1>4 DEF CodexInv, CallsRelease
<1>7. UnseenHooks'
  BY <1>1 DEF CodexInv, UnseenHooks, storeVars
<1>8. ResolvedHookReleased'
  <2>1. ~IsActive(r)' /\ \A q \in Request : IsActive(q)' => IsActive(q)
    BY Passed DEF ReleasesHook
  <2>. SUFFICES ASSUME NEW q \in Request, attention'[q].state = "resolved", IsActive(q)'
                PROVE  \E o \in Syncer : q \in sync'[o].resolved
    BY DEF ResolvedHookReleased
  <2>2. q # r /\ attention[q].state = "resolved" /\ IsActive(q)
    BY <1>1, <2>1 DEF storeVars
  <2>3. PICK o \in Syncer : q \in sync[o].resolved
    BY <2>2 DEF CodexInv, ResolvedHookReleased
  <2>. QED  BY <1>3, <1>4, <2>2, <2>3
<1>. QED  BY <1>5, <1>6, <1>7, <1>8 DEF CodexInv

\* A call that failed, or has released all it resolved, ends.
LEMMA SyncEndsKeepsInv ==
  ASSUME CodexInv, NEW p \in Syncer, SyncFails(p) \/ SyncMarks(p)
  PROVE  CodexInv'
<1>1. /\ UNCHANGED <<now, regVars, storeVars, serverVars, known, nativeWaiting, phase, attaches,
                     hook>>
      /\ sync[p].resolved = {} /\ sync' = [sync EXCEPT ![p] = Idle]
  BY DEF SyncFails, SyncMarks, CodexInv, CallsRelease, managerVars
<1>2. Replaces(p, Idle)
  BY <1>1, QuietTyped DEF Replaces
<1>3. sync' \in [Syncer -> CallRecord] /\ CallsRelease' /\ UnseenHooks' /\ ResolvedHookReleased'
  BY <1>1, <1>2, CallKeepsHooks
<1>4. \A q \in Syncer : sync'[q].step = "apply" => sync[q].step = "apply"
  BY <1>2, QuietTyped, ReplacedCall DEF CodexInv
<1>5. failures' \in 0..MaxFailures
  BY CodexAssumption DEF CodexInv, ManagerTypeOK, SyncFails, SyncMarks
<1>6. nativeSynced' \in BOOLEAN
  <2>1. nativeSynced \in BOOLEAN /\ sync[p].found \in BOOLEAN
    BY DEF CodexInv, ManagerTypeOK, CallRecord
  <2>2. SyncedAfter(sync[p]) \in BOOLEAN
    BY <2>1 DEF SyncedAfter
  <2>. QED  BY <2>1, <2>2 DEF SyncFails, SyncMarks, managerVars
<1>7. ManagerTypeOK'
  BY <1>1, <1>3, <1>5, <1>6 DEF CodexInv, ManagerTypeOK, serverVars, askVars
<1>8. NotesTell' /\ LastNoteIsThread' /\ NothingAttaches' /\ CaughtUp'
  BY <1>1, <1>4 DEF CodexInv, NotesTell, LastNoteIsThread, NothingAttaches, CaughtUp, serverVars,
                    askVars
<1>. QED  BY <1>3, <1>7, <1>8 DEF CodexInv

LEMMA TimeKeepsInv ==
  ASSUME CodexInv, now' \in Nat,
         UNCHANGED <<regVars, storeVars, serverVars, managerVars, syncVars, hook>>
  PROVE  CodexInv'
<1>1. /\ ManagerTypeOK'
      /\ NotesTell' /\ LastNoteIsThread' /\ NothingAttaches' /\ CaughtUp'
  BY ServerUntouched DEF CodexInv, ManagerTypeOK, syncVars
<1>2. CallsRelease' /\ UnseenHooks' /\ ResolvedHookReleased'
  BY DEF CodexInv, CallsRelease, UnseenHooks, ResolvedHookReleased, syncVars, storeVars,
         regVars, IsActive
<1>. QED  BY <1>1, <1>2 DEF CodexInv

-----------------------------------------------------------------------------
(* The theorems *)

LEMMA CodexNextKeepsInv ==
  ASSUME CodexInv, RegTypeOK, StoreTypeOK, [CodexNext]_codexVars
  PROVE  CodexInv'
<1>1. CASE TurnStarts \/ TurnCompletes \/ StatusChanges
  BY <1>1, ServerStepKeepsInv
<1>2. CASE \E kind \in SessionNews : HookEvent(kind)
  BY <1>2, EventKeepsInv
<1>3. CASE \E r \in Request : HookStep(r)
  BY <1>3, HookStepKeepsInv
<1>4. CASE StartSyncs \/ StartSkips
  BY <1>4, StartKeepsInv
<1>5. CASE TakeNote
  BY <1>5, TakeNoteKeepsInv
<1>6. CASE \E p \in Client : RetryCollects(p) \/ AttachResumes(p) \/ AttachApplies(p)
  BY <1>6, ClientKeepsInv
<1>7. CASE \E p \in Syncer : SyncStep(p)
  BY <1>7, SyncStoresKeepsInv, ReleasesHookKeepsInv, SyncEndsKeepsInv DEF SyncStep
<1>8. CASE CodexTick
  <2>1. now' \in Nat
    BY <1>8 DEF CodexTick, Tick, CodexInv, ManagerTypeOK
  <2>. QED  BY <1>8, <2>1, TimeKeepsInv DEF CodexTick
<1>9. CASE ServerAsks \/ TakeRequest
  BY <1>9, RequestKeepsInv
<1>10. CASE UNCHANGED codexVars
  <2>1. now' \in Nat
    BY <1>10 DEF codexVars, CodexInv, ManagerTypeOK
  <2>. QED  BY <1>10, <2>1, TimeKeepsInv DEF codexVars
<1>. QED  BY <1>1, <1>2, <1>3, <1>4, <1>5, <1>6, <1>7, <1>8, <1>9, <1>10 DEF CodexNext

\* The manager, and the hooks beside it, use the registry only as it may be
\* used.
THEOREM CodexImplementsRegistry == CodexSpec => RegSpec
<1>1. CodexInit => RegInit
  BY DEF CodexInit
<1>2. [CodexNext]_codexVars => [RegNext]_<<now, regVars>>
  BY CodexRegistryStep DEF codexVars
<1>. QED  BY <1>1, <1>2, PTL DEF CodexSpec, RegSpec

\* So each hook gets exactly one outcome, whoever comes first of its answer,
\* its deadline and the calls that resolve its item.
THEOREM CodexHookGetsOneOutcome == CodexSpec => []ExactlyOneOutcome
BY CodexImplementsRegistry, EveryWaiterGetsOneOutcome, PTL

\* With what the invariant needs of the registry and of the store, it is kept.
LEMMA CodexInvHolds == CodexSpec => [](CodexInv /\ StoreInv)
<1>1. CodexInit => CodexInv /\ StoreInv
  BY CodexInitInv, StoreInitInv DEF CodexInit, SessionInit
<1>2. CodexInv /\ StoreInv /\ RegTypeOK /\ [CodexNext]_codexVars => (CodexInv /\ StoreInv)'
  <2>. SUFFICES ASSUME CodexInv, StoreInv, RegTypeOK, [CodexNext]_codexVars
                PROVE  CodexInv' /\ StoreInv'
    OBVIOUS
  <2>1. CodexInv'
    BY CodexNextKeepsInv DEF StoreInv
  <2>2. [SessionNext]_sessionSpecVars
    BY CodexSessionStep DEF CodexInv, codexVars, sessionSpecVars
  <2>3. [StoreNext]_<<now, storeVars>>
    BY <2>2, SessionStepIsStoreStep DEF sessionSpecVars
  <2>. QED  BY <2>1, <2>3, StoreNextKeepsInv
<1>. QED  BY <1>1, <1>2, CodexImplementsRegistry, RegTypeCorrect, PTL DEF CodexSpec

\* What the manager's calls do to the session, its cards and its approvals is
\* what SessionStore says they may.
THEOREM CodexImplementsSession == CodexSpec => SessionSpec
<1>1. CodexInit => SessionInit
  BY DEF CodexInit
<1>2. CodexInv /\ [CodexNext]_codexVars => [SessionNext]_sessionSpecVars
  BY CodexSessionStep DEF CodexInv, codexVars, sessionSpecVars
<1>. QED  BY <1>1, <1>2, CodexInvHolds, PTL DEF CodexSpec, SessionSpec

\* The manager's fields, the calls under way and the notes keep their types.
THEOREM CodexTypeCorrect == CodexSpec => []CodexTypeOK
<1>1. CodexInv /\ RegTypeOK /\ SessionTypeOK => CodexTypeOK
  BY DEF CodexInv, ManagerTypeOK, CodexTypeOK, CallRecord, Method
<1>. QED  BY <1>1, CodexInvHolds, CodexImplementsRegistry, RegTypeCorrect,
             CodexImplementsSession, SessionTypeCorrect, PTL

\* A hook whose item the app-server's word resolved waits only while a call
\* has yet to release it.
THEOREM ResolvedHookIsReleased == CodexSpec => []ResolvedHookReleased
<1>1. CodexInv => ResolvedHookReleased
  BY DEF CodexInv
<1>. QED  BY <1>1, CodexInvHolds, PTL

\* With every note read, the manager knows the thread as it is, however its
\* start and its reader interleave (CodexManager::start and
\* update_codex_notification in server.rs); a request for user input handled
\* after the end of its turn leaves the thread known as active, and a page that
\* attaches the thread again may bring back an older view.
THEOREM ViewAlwaysCatchesUp == CodexSpec => []ViewCatchesUp
<1>1. CodexInv => ViewCatchesUp
  BY DEF CodexInv, CaughtUp, ViewCatchesUp
<1>. QED  BY <1>1, CodexInvHolds, PTL

\* A session that the hooks and the app-server both speak of keeps one owner
\* of its wait and one winner of each decision.
THEOREM CodexKeepsOneOwner == CodexSpec => [](OwnerMatchesState /\ OneWinner)
BY CodexImplementsSession, OwnersMatchStates, SessionKeepsOneWinner, PTL
=============================================================================
