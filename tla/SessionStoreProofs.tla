------------------------- MODULE SessionStoreProofs -------------------------
(***************************************************************************)
(* Proofs about SessionStore, for any number of requests, commands, calls  *)
(* and turns.  Its transactions are transactions of ApprovalStore, so what *)
(* RequestProofs shows holds of it; the pair of state and owner, the       *)
(* turns and the age of the last event keep what the panel relies on.      *)
(***************************************************************************)
EXTENDS SessionStore, RequestProofs

\* Of use to the modules that queue what the session is to ingest.
LEMMA ElementTyped ==
  ASSUME NEW S, NEW s \in Seq(S), NEW i \in 1..Len(s)
  PROVE  s[i] \in S
OBVIOUS

\* Every step of the session is a step of the store, or none of it.
LEMMA SessionStepIsStoreStep == SessionNext => [StoreNext]_<<now, storeVars>>
<1>. SUFFICES ASSUME SessionStep
              PROVE  StoreStep \/ UNCHANGED storeVars
  BY DEF SessionNext, StoreNext
<1>1. ASSUME NEW kind \in SessionKind, NEW tool \in Tool, NEW c \in NativeCall \cup {None},
             NEW background \in BOOLEAN, NEW at \in 0..now,
             SessionIngest([kind |-> kind, tool |-> tool, call |-> c,
                            background |-> background, at |-> at])
      PROVE  StoreStep \/ UNCHANGED storeVars
  BY <1>1 DEF SessionIngest, StoreStep
<1>2. ASSUME NEW r \in Request, SessionIngestRequest(r)
      PROVE  StoreStep
  BY <1>2 DEF SessionIngestRequest, StoreStep
<1>3. SyncWaiting => UNCHANGED storeVars
  BY DEF SyncWaiting
<1>4. ASSUME NEW active \in BOOLEAN, SyncCleared(active)
      PROVE  StoreStep \/ UNCHANGED storeVars
  BY <1>4 DEF SyncCleared, StoreStep
<1>5. ReconcileSession => UNCHANGED storeVars
  BY DEF ReconcileSession
<1>6. ASSUME NEW c \in Command, NEW n \in NativeItem, NEW a \in AttentionAction,
             ActOnNative(c, n, a)
      PROVE  StoreStep
  BY <1>6 DEF ActOnNative, StoreStep
<1>7. SessionReopenDue => StoreStep
  BY DEF SessionReopenDue, StoreStep
<1>8. DecisionStep => StoreStep
  BY DEF StoreStep
<1>. QED  BY <1>1, <1>2, <1>3, <1>4, <1>5, <1>6, <1>7, <1>8 DEF SessionStep

\* What the session's transactions do to the approvals is what ApprovalStore
\* says they may, whatever else they change.
THEOREM SessionImplementsStore == SessionSpec => ImplementsStore
<1>1. SessionInit => StoreInit
  BY DEF SessionInit
<1>2. [SessionNext]_sessionSpecVars => [StoreNext]_<<now, storeVars>>
  BY SessionStepIsStoreStep DEF sessionSpecVars
<1>. QED  BY <1>1, <1>2, PTL DEF SessionSpec, ImplementsStore, StoreSpec

-----------------------------------------------------------------------------
(* The inductive invariant *)

SessionRowsTyped ==
  /\ now \in Nat
  /\ session \in SessionRow
  /\ turns \in [Turn -> {"none", "running", "ended"}]
  /\ native \in [NativeItem -> NativeRow]

\* A session that does not exist has seen no event.
AbsentIsNew == session.state = "absent" => session.last = 0

SessionInv ==
  /\ SessionRowsTyped
  /\ OneRunningTurn
  /\ OwnerMatchesState
  /\ AbsentIsNew

\* The session row after an event: never older, and owned as its state says.
LEMMA EventKeepsRow ==
  ASSUME SessionInv, NEW ev \in SessionEvent, session' = SessionAfter(ev)
  PROVE  /\ session' \in SessionRow
         /\ OwnerMatchesState'
         /\ AbsentIsNew'
         /\ session'.last >= session.last
<1>. USE DEF SessionInv, SessionRowsTyped, OwnerMatchesState, AbsentIsNew, SessionRow
<1>1. CASE ~MayUpdate(ev)
  <2>1. session' = session
    BY <1>1 DEF SessionAfter
  <2>. QED  BY <2>1
<1>2. CASE MayUpdate(ev)
  <2>. DEFINE view == NextView(ev)
  <2>1. /\ view.state \in SessionState \ {"absent"}
        /\ view.owner \in Owner
        /\ view.owner \in {"widget", "terminal"} => view.state = "awaiting_approval"
        /\ view.owner = "provider" => view.state = "thinking"
    <3>1. /\ Projected(ev).state \in SessionState \ {"absent"}
          /\ Projected(ev).owner \in {None, "widget"}
          /\ Projected(ev).owner # None => Projected(ev).state = "awaiting_approval"
      BY DEF Projected, SessionEvent, SessionState, BusyState, FinishedState
    <3>2. CASE ev.kind = "native_requested"
      BY <3>2 DEF NextView, SessionState, BusyState, Owner
    <3>3. CASE ev.kind # "native_requested" /\ PreservesNative(ev)
      BY <3>3 DEF NextView, PreservesNative, SessionState, BusyState, Owner
    <3>4. CASE ev.kind = "auto_reviewed" /\ ~PreservesNative(ev)
      BY <3>4 DEF NextView, SessionState, BusyState, Owner
    <3>5. CASE ev.kind \notin {"native_requested", "auto_reviewed"} /\ ~PreservesNative(ev)
      <4>1. view = Projected(ev)
        BY <3>5 DEF NextView
      <4>. QED  BY <3>1, <4>1, SessionAssumption DEF Owner
    <3>. QED  BY <3>2, <3>3, <3>4, <3>5
  <2>2. session' = [state |-> view.state, owner |-> view.owner, last |-> ev.at]
    BY <1>2 DEF SessionAfter
  <2>3. ev.at \in Nat /\ ev.at >= session.last
    BY <1>2 DEF MayUpdate, SessionEvent
  <2>. HIDE DEF view
  <2>. QED  BY <2>1, <2>2, <2>3
<1>. QED  BY <1>1, <1>2

\* The turns after an event: a new one is the last, and what ran before it ended.
LEMMA EventKeepsTurns ==
  ASSUME turns \in [Turn -> {"none", "running", "ended"}], OneRunningTurn,
         NEW kind, NEW turn \in Turn \cup {None},
         Selects(kind, turn), turns' = TurnsAfter(kind, turn)
  PROVE  /\ turns' \in [Turn -> {"none", "running", "ended"}]
         /\ OneRunningTurn'
<1>1. turns' \in [Turn -> {"none", "running", "ended"}]
  BY DEF TurnsAfter
<1>2. Turn \subseteq Nat
  BY SessionAssumption
<1>3. CASE turn = None
  <2>1. kind # "prompt_submitted"
    BY <1>3, StoreAssumption DEF Selects
  <2>2. \A t \in Turn : turns'[t] = turns[t]
    BY <1>3, <2>1, StoreAssumption DEF TurnsAfter
  <2>. QED  BY <1>1, <2>2 DEF OneRunningTurn, Running, Known, IsLast
<1>4. CASE turn \in Known
  <2>1. kind # "prompt_submitted"
    <3>1. turn \in Nat /\ turn \in Turn /\ turn # None
      BY <1>2, <1>4, StoreAssumption DEF Known
    <3>2. ~(turn \in Known <=> turn < turn)
      BY <1>4, <3>1
    <3>. QED  BY <3>1, <3>2 DEF Selects
  <2>2. \A t \in Turn : turns'[t] # turns[t] => t = turn /\ turns'[t] = "ended"
    BY <1>4, <2>1 DEF TurnsAfter, Known
  <2>3. Running' \subseteq Running /\ Known' = Known
    BY <1>1, <1>4, <2>2 DEF Running, Known
  <2>. QED  BY <1>1, <2>3 DEF OneRunningTurn, IsLast
<1>5. CASE turn \in Turn \ Known
  <2>1. turn \notin Running /\ turn # None
    BY <1>5, StoreAssumption DEF Running, Known
  <2>2. /\ \A u \in Turn : u \in Known <=> u < turn
        /\ kind = "prompt_submitted" \/ Running = {}
    BY <1>5, <2>1 DEF Selects, IsLast
  <2>3. Running' \subseteq {turn}
    BY <1>1, <2>2 DEF TurnsAfter, Running
  <2>4. Known' = Known \cup {turn}
    BY <1>1, <1>5 DEF TurnsAfter, Known
  <2>5. \A u \in Known' : u <= turn
    BY <1>2, <1>5, <2>2, <2>4 DEF Known
  <2>. QED  BY <1>1, <2>3, <2>4, <2>5 DEF OneRunningTurn, IsLast
<1>. QED  BY <1>3, <1>4, <1>5 DEF Known

\* The native approvals after an event.
LEMMA EventKeepsNative ==
  ASSUME native \in [NativeItem -> NativeRow], NEW ev \in SessionEvent,
         ev.kind = "native_requested" => ev.call # None,
         NEW turn \in Turn \cup {None}, native' = NativeAfter(ev, turn)
  PROVE  native' \in [NativeItem -> NativeRow]
<1>1. CASE ev.kind = "native_requested"
  <2>1. ev.call \in NativeItem
    BY <1>1 DEF SessionEvent, NativeItem
  <2>2. [NoNative EXCEPT !.state = "open", !.turn = turn] \in NativeRow
    BY DEF NoNative, NativeRow
  <2>. QED  BY <1>1, <2>1, <2>2 DEF NativeAfter
<1>2. CASE ev.kind # "native_requested" /\ ResolvesNative(ev)
  BY <1>2 DEF NativeAfter, ResolvedNative, NativeRow
<1>3. CASE ev.kind # "native_requested" /\ ~ResolvesNative(ev)
  BY <1>3 DEF NativeAfter
<1>. QED  BY <1>1, <1>2, <1>3

\* An event of either kind keeps the invariant and the age of the session.
LEMMA IngestedKeepsInv ==
  ASSUME SessionInv, NEW ev \in SessionEvent,
         ev.kind = "native_requested" => ev.call # None,
         NEW turn \in Turn \cup {None}, Ingested(ev, turn), UNCHANGED now
  PROVE  SessionInv' /\ session'.last >= session.last
<1>1. /\ session' \in SessionRow /\ OwnerMatchesState' /\ AbsentIsNew'
      /\ session'.last >= session.last
  BY EventKeepsRow DEF Ingested
<1>2. turns' \in [Turn -> {"none", "running", "ended"}] /\ OneRunningTurn'
  BY EventKeepsTurns DEF Ingested, SessionInv, SessionRowsTyped
<1>3. native' \in [NativeItem -> NativeRow]
  BY EventKeepsNative DEF Ingested, SessionInv, SessionRowsTyped
<1>. QED  BY <1>1, <1>2, <1>3 DEF SessionInv, SessionRowsTyped

\* What a request brings is an event of the session.
LEMMA RequestEventTyped ==
  ASSUME NEW r \in Request
  PROVE  /\ RequestEvent(r) \in SessionEvent
         /\ RequestEvent(r).kind \in {"approval_requested", "question_requested"}
BY StoreAssumption, SessionAssumption, TimeAssumption
   DEF RequestEvent, SessionEvent, SessionKind

LEMMA ResolvedNativeTyped ==
  ASSUME native \in [NativeItem -> NativeRow], NEW N
  PROVE  ResolvedNative(N) \in [NativeItem -> NativeRow]
BY DEF ResolvedNative, NativeRow

\* The transactions on the session that are not the ingest of an event.
LEMMA OthersKeepInv ==
  ASSUME SessionInv, UNCHANGED now,
         \/ SyncWaiting
         \/ \E active \in BOOLEAN : SyncCleared(active)
         \/ ReconcileSession
         \/ \E c \in Command, n \in NativeItem, a \in AttentionAction : ActOnNative(c, n, a)
         \/ SessionReopenDue
         \/ UNCHANGED sessionVars
  PROVE  SessionInv' /\ session'.last >= session.last
<1>. USE DEF SessionInv, SessionRowsTyped
<1>. DEFINE Kept == /\ turns' = turns /\ session' \in SessionRow
                    /\ OwnerMatchesState' /\ AbsentIsNew'
                    /\ native' \in [NativeItem -> NativeRow]
                    /\ session'.last >= session.last
<1>1. Kept => SessionInv' /\ session'.last >= session.last
  BY DEF OneRunningTurn, Running, Known
<1>2. ASSUME UNCHANGED sessionVars  PROVE Kept
  BY <1>2 DEF sessionVars, OwnerMatchesState, AbsentIsNew, SessionRow
<1>3. Later(session.last) \in Nat /\ Later(session.last) >= session.last
  BY DEF Later, SessionRow
<1>4. ASSUME SyncWaiting  PROVE Kept
  <2>1. CASE session.state = "absent" \/ HookOwned
    BY <1>2, <1>4, <2>1 DEF SyncWaiting
  <2>2. CASE ~(session.state = "absent" \/ HookOwned)
    <3>1. /\ session' = [state |-> "awaiting_approval", owner |-> "terminal",
                         last |-> Later(session.last)]
          /\ turns' = turns
          /\ native' = IF OpenNative # {} THEN native
               ELSE [native EXCEPT ![Synthetic] = [NoNative EXCEPT !.state = "open"]]
      BY <1>4, <2>2 DEF SyncWaiting
    <3>2. [NoNative EXCEPT !.state = "open"] \in NativeRow
      BY DEF NoNative, NativeRow
    <3>3. native' \in [NativeItem -> NativeRow]
      BY <3>1, <3>2
    <3>4. session' \in SessionRow /\ OwnerMatchesState' /\ AbsentIsNew'
      BY <1>3, <3>1 DEF SessionRow, SessionState, BusyState, Owner, OwnerMatchesState,
         AbsentIsNew
    <3>. QED  BY <1>3, <3>1, <3>3, <3>4
  <2>. QED  BY <2>1, <2>2
<1>5. ASSUME NEW active \in BOOLEAN, SyncCleared(active)  PROVE Kept
  <2>1. CASE session.state = "absent"
    BY <1>2, <1>5, <2>1 DEF SyncCleared
  <2>2. CASE session.state # "absent"
    <3>1. native' \in [NativeItem -> NativeRow] /\ turns' = turns
      BY <1>5, <2>2, ResolvedNativeTyped DEF SyncCleared
    <3>2. \/ session' = session
          \/ session' = [state |-> IF active THEN "thinking" ELSE "response_finished",
                         owner |-> None, last |-> Later(session.last)]
      BY <1>5, <2>2 DEF SyncCleared
    <3>3. session' \in SessionRow /\ OwnerMatchesState' /\ AbsentIsNew'
          /\ session'.last >= session.last
      BY <1>3, <3>2, SessionAssumption DEF SessionRow, SessionState, BusyState, FinishedState,
         Owner, OwnerMatchesState, AbsentIsNew
    <3>. QED  BY <3>1, <3>3
  <2>. QED  BY <2>1, <2>2
<1>6. ASSUME ReconcileSession  PROVE Kept
  <2>1. /\ session' = [session EXCEPT !.state = "idle", !.owner = None]
        /\ turns' = turns /\ native' = native
    BY <1>6 DEF ReconcileSession
  <2>2. /\ session'.state = "idle" /\ session'.owner = None /\ session'.last = session.last
        /\ session' \in SessionRow
    BY <2>1 DEF SessionRow, SessionState, Owner
  <2>3. session.last \in Nat
    BY DEF SessionRow
  <2>. QED  BY <2>1, <2>2, <2>3, SessionAssumption DEF OwnerMatchesState, AbsentIsNew
<1>7. ASSUME NEW c \in Command, NEW n \in NativeItem, NEW a \in AttentionAction,
             ActOnNative(c, n, a)
      PROVE  Kept
  <2>1. native' \in [NativeItem -> NativeRow]
    BY <1>7, TimeAssumption, StoreAssumption DEF ActOnNative, NativeRow, AttentionAction
  <2>2. session' = session /\ turns' = turns
    BY <1>7 DEF ActOnNative
  <2>. QED  BY <2>1, <2>2 DEF OwnerMatchesState, AbsentIsNew, SessionRow
<1>8. ASSUME SessionReopenDue  PROVE Kept
  <2>1. native' \in [NativeItem -> NativeRow]
    BY <1>8 DEF SessionReopenDue, NativeRow
  <2>2. session' = session /\ turns' = turns
    BY <1>8 DEF SessionReopenDue
  <2>. QED  BY <2>1, <2>2 DEF OwnerMatchesState, AbsentIsNew, SessionRow
<1>. HIDE DEF Kept
<1>. QED  BY <1>1, <1>2, <1>4, <1>5, <1>6, <1>7, <1>8

\* Every step of the session keeps the invariant, and none makes it older.
LEMMA SessionStepKeepsInv ==
  SessionInv /\ [SessionNext]_sessionSpecVars => SessionInv' /\ session'.last >= session.last
<1>. SUFFICES ASSUME SessionInv, [SessionNext]_sessionSpecVars
              PROVE  SessionInv' /\ session'.last >= session.last
  OBVIOUS
<1>1. CASE UNCHANGED sessionSpecVars
  BY <1>1, OthersKeepInv DEF sessionSpecVars
<1>2. CASE Tick /\ UNCHANGED <<storeVars, sessionVars>>
  <2>1. now' \in Nat
    BY <1>2 DEF Tick, SessionInv, SessionRowsTyped
  <2>. QED  BY <1>2, <2>1 DEF sessionVars, SessionInv, SessionRowsTyped, OneRunningTurn,
            Running, Known, OwnerMatchesState, AbsentIsNew, SessionRow
<1>3. CASE SessionStep /\ UNCHANGED now
  <2>1. ASSUME NEW kind \in SessionKind, NEW tl \in Tool, NEW c \in NativeCall \cup {None},
               NEW background \in BOOLEAN, NEW at \in 0..now,
               WellFormed([kind |-> kind, tool |-> tl, call |-> c,
                           background |-> background, at |-> at]),
               SessionIngest([kind |-> kind, tool |-> tl, call |-> c,
                              background |-> background, at |-> at])
        PROVE  SessionInv' /\ session'.last >= session.last
    <3>. DEFINE ev == [kind |-> kind, tool |-> tl, call |-> c,
                       background |-> background, at |-> at]
    <3>1. ev \in SessionEvent
      BY DEF SessionEvent, SessionInv, SessionRowsTyped
    <3>2. ev.kind = "native_requested" => ev.call # None
      BY <2>1 DEF WellFormed
    <3>3. PICK turn \in Turn \cup {None} : Ingested(ev, turn)
      BY <2>1 DEF SessionIngest
    <3>. HIDE DEF ev
    <3>. QED  BY <1>3, <3>1, <3>2, <3>3, IngestedKeepsInv
  <2>2. ASSUME NEW r \in Request, SessionIngestRequest(r)
        PROVE  SessionInv' /\ session'.last >= session.last
    <3>1. PICK turn \in Turn \cup {None} : Ingested(RequestEvent(r), turn)
      BY <2>2 DEF SessionIngestRequest
    <3>2. RequestEvent(r) \in SessionEvent /\ RequestEvent(r).kind # "native_requested"
      BY RequestEventTyped
    <3>. QED  BY <1>3, <3>1, <3>2, IngestedKeepsInv
  <2>3. CASE \/ SyncWaiting
             \/ \E active \in BOOLEAN : SyncCleared(active)
             \/ ReconcileSession
             \/ \E c \in Command, n \in NativeItem, a \in AttentionAction : ActOnNative(c, n, a)
             \/ SessionReopenDue
             \/ UNCHANGED sessionVars
    BY <1>3, <2>3, OthersKeepInv
  <2>. QED  BY <1>3, <2>1, <2>2, <2>3 DEF SessionStep
<1>. QED  BY <1>1, <1>2, <1>3 DEF SessionNext

LEMMA SessionInvHolds == SessionSpec => []SessionInv
<1>1. SessionInit => SessionInv
  BY SessionAssumption DEF SessionInit, StoreInit, SessionInv, SessionRowsTyped, SessionRow,
     SessionState, Owner, NativeRow, NoNative, OneRunningTurn, Running, OwnerMatchesState,
     AbsentIsNew
<1>. QED  BY <1>1, SessionStepKeepsInv, PTL DEF SessionSpec

-----------------------------------------------------------------------------
(* The theorems *)

\* The rows of the session, its turns and its cards keep their types, next to
\* those of the store.
THEOREM SessionTypeCorrect == SessionSpec => []SessionTypeOK
<1>1. SessionInv /\ StoreTypeOK => SessionTypeOK
  BY DEF SessionInv, SessionRowsTyped, SessionTypeOK
<1>. QED  BY <1>1, SessionInvHolds, SessionImplementsStore, StoreTypeCorrect, PTL
          DEF ImplementsStore

\* At most one turn of the session runs, and it is the last, however late the
\* events come.
THEOREM LastTurnRunsAlone == SessionSpec => []OneRunningTurn
<1>1. SessionInv => OneRunningTurn
  BY DEF SessionInv
<1>. QED  BY <1>1, SessionInvHolds, PTL

\* The owner of a wait never outlives it.
THEOREM OwnersMatchStates == SessionSpec => []OwnerMatchesState
<1>1. SessionInv => OwnerMatchesState
  BY DEF SessionInv
<1>. QED  BY <1>1, SessionInvHolds, PTL

\* What was taken for out of date stays out of date.
THEOREM LastEventIsMonotonic == SessionSpec => LastEventNeverRunsBack
<1>1. SessionInv /\ [SessionNext]_sessionSpecVars =>
        [session'.last >= session.last]_sessionSpecVars
  BY SessionStepKeepsInv
<1>. QED  BY <1>1, SessionInvHolds, PTL DEF SessionSpec, LastEventNeverRunsBack

\* The step is one that may take the session out of a finished response.
MayStartAgain ==
  \/ \E t \in Turn : turns[t] = "none" /\ turns'[t] = "running"
  \/ SyncWaiting
  \/ SyncCleared(TRUE)

\* An event does so only when it starts a turn.
LEMMA EventStartsTurn ==
  ASSUME NEW ev \in SessionEvent, NEW turn \in Turn \cup {None}, Ingested(ev, turn),
         turns \in [Turn -> {"none", "running", "ended"}],
         session.state \in FinishedState, session'.state \in BusyState
  PROVE  \E t \in Turn : turns[t] = "none" /\ turns'[t] = "running"
<1>1. session.state \notin BusyState
  BY DEF FinishedState, BusyState
<1>2. MayUpdate(ev) /\ session'.state = NextView(ev).state
  BY <1>1 DEF Ingested, SessionAfter
<1>3. ev.kind \in {"prompt_submitted", "session_started", "session_ended"}
  BY <1>2 DEF MayUpdate
<1>4. ev.kind = "prompt_submitted"
  <2>1. CASE ev.kind \in {"session_started", "session_ended"}
    <3>1. NextView(ev).state = "idle"
      BY <1>1, <2>1 DEF NextView, PreservesNative, Projected, BusyState
    <3>. QED  BY <1>2, <3>1 DEF BusyState
  <2>. QED  BY <1>3, <2>1
<1>5. turn \in Turn /\ \A u \in Turn : u \in Known <=> u < turn
  BY <1>4 DEF Ingested, Selects
<1>6. turns[turn] = "none"
  BY <1>5, SessionAssumption DEF Known
<1>7. turns'[turn] = "running"
  BY <1>4, <1>5, <1>6 DEF Ingested, TurnsAfter, EndsTurn
<1>. QED  BY <1>5, <1>6, <1>7

\* No late event pulls a finished response back to work.
THEOREM FinishedStaysFinished == SessionSpec => LateEventsKeepFinished
<1>1. ASSUME SessionInv, SessionStep, session.state \in FinishedState,
             session'.state \in BusyState
      PROVE  MayStartAgain
  <2>. USE <1>1 DEF MayStartAgain, SessionInv, SessionRowsTyped
  <2>1. ASSUME NEW kind \in SessionKind, NEW tl \in Tool, NEW c \in NativeCall \cup {None},
               NEW background \in BOOLEAN, NEW at \in 0..now,
               SessionIngest([kind |-> kind, tool |-> tl, call |-> c,
                              background |-> background, at |-> at])
        PROVE  MayStartAgain
    <3>. DEFINE ev == [kind |-> kind, tool |-> tl, call |-> c,
                       background |-> background, at |-> at]
    <3>1. ev \in SessionEvent
      BY DEF SessionEvent
    <3>2. PICK turn \in Turn \cup {None} : Ingested(ev, turn)
      BY <2>1 DEF SessionIngest
    <3>. HIDE DEF ev
    <3>. QED  BY <3>1, <3>2, EventStartsTurn
  <2>2. ASSUME NEW r \in Request, SessionIngestRequest(r)
        PROVE  MayStartAgain
    <3>1. PICK turn \in Turn \cup {None} : Ingested(RequestEvent(r), turn)
      BY <2>2 DEF SessionIngestRequest
    <3>. QED  BY <3>1, RequestEventTyped, EventStartsTurn
  <2>3. session.state \notin BusyState
    BY DEF FinishedState, BusyState
  <2>4. ASSUME NEW active \in BOOLEAN, SyncCleared(active)
        PROVE  MayStartAgain
    <3>1. CASE active = TRUE
      BY <2>4, <3>1
    <3>2. CASE active = FALSE
      <4>1. session' = session \/ session'.state = "response_finished"
        BY <2>4, <3>2 DEF SyncCleared, sessionVars
      <4>. QED  BY <2>3, <4>1 DEF BusyState
    <3>. QED  BY <3>1, <3>2
  <2>5. ~ReconcileSession
    BY DEF ReconcileSession, BusyState, SessionRow
  <2>6. /\ \A c \in Command, n \in NativeItem, a \in AttentionAction : ~ActOnNative(c, n, a)
        /\ ~SessionReopenDue
    BY <2>3 DEF ActOnNative, SessionReopenDue
  <2>7. ~UNCHANGED sessionVars
    BY <2>3 DEF sessionVars
  <2>. QED  BY <2>1, <2>2, <2>4, <2>5, <2>6, <2>7 DEF SessionStep
<1>2. SessionInv /\ [SessionNext]_sessionSpecVars =>
        [session.state \in FinishedState /\ session'.state \in BusyState =>
           MayStartAgain]_sessionSpecVars
  <2>1. ASSUME UNCHANGED sessionVars, session.state \in FinishedState
        PROVE  session'.state \notin BusyState
    BY <2>1 DEF sessionVars, FinishedState, BusyState
  <2>. QED  BY <1>1, <2>1 DEF SessionNext
<1>. QED  BY <1>2, SessionInvHolds, PTL DEF SessionSpec, LateEventsKeepFinished, MayStartAgain

\* Whatever the session does around them, the approvals have one winner.
THEOREM SessionKeepsOneWinner == SessionSpec => []OneWinner
BY SessionImplementsStore, CommandsHaveOneWinner, PTL DEF ImplementsStore
=============================================================================
