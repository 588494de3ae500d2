------------------------ MODULE ApprovalRuntimeProofs ------------------------
(***************************************************************************)
(* Proofs about ApprovalRuntime, for any number of requests, events and    *)
(* commands, any deadlines, delays and number of crashes.                  *)
(*                                                                         *)
(* The registry's and the store's invariants hold because every step of    *)
(* the runtime is a step of theirs.  What the threads' own properties need *)
(* beside them is what a thread's locals say about the shared state they   *)
(* were read from: that a waiter found gone stays gone, because a request  *)
(* is registered once; that a request without a row has not been ingested; *)
(* and that a task acts for the command that was stored under its id.      *)
(***************************************************************************)
EXTENDS ApprovalRuntime, RequestProofs

-----------------------------------------------------------------------------
(* The invariant *)

\* The threads' own variables keep their types, and a connection that has
\* nothing to release is not about to.
ThreadTypeOK ==
  /\ up \in BOOLEAN
  /\ crashes \in 0..MaxCrashes
  /\ hook \in [Request -> HookStep]
  /\ replacing \in [Request -> Request \cup {None}]
  /\ reply \in [Request -> HookReply]
  /\ event \in [Event -> {"idle", "release", "done"}]
  /\ release \in [Event -> SUBSET Request]
  /\ \A e \in Event : event[e] # "release" => release[e] = {}
  /\ api \in [Command -> [step : ApiStep, request : Request \cup {None},
                          action : ApprovalAction \cup {None}, at : Nat]]
  /\ timer \in [Command -> [step : TimerStep, request : Request \cup {None},
                           action : ApprovalAction \cup {None}, wake : Nat,
                           active : BOOLEAN]]
  /\ sweep \subseteq Request

\* A waiter that some thread found gone.
Gone(r) == hook[r] # "idle" /\ ~IsActive(r)

\* What a thread that is between two steps knows of the shared state.
HookKnows(r) ==
  hook[r] = "replace" => replacing[r] \in Request /\ Gone(replacing[r])

ApiKnows(c) ==
  LET r == api[c].request
  IN /\ api[c].step \notin {"idle", "done"} => r \in Request /\ hook[r] # "idle"
     /\ api[c].step = "claim" =>
          KindOf[r] = "approval" /\ api[c].action \in ApprovalAction /\ api[c].at <= now
     /\ api[c].step = "pass_through" => KindOf[r] = "approval"
     /\ api[c].step \in {"answer", "native", "ack"} =>
          KindOf[r] = "question" /\ attention[r].state # "none"
     /\ api[c].step = "stale" /\ KindOf[r] = "approval" => Gone(r)

TimerKnows(c) ==
  LET r == timer[c].request
  IN timer[c].step \notin {"none", "done"} =>
       /\ r \in Request /\ hook[r] # "idle"
       /\ timer[c].action \in {"approve", "deny"}
       /\ commands[c].state # "none"
       /\ commands[c].request = r /\ commands[c].action = timer[c].action
       /\ timer[c].step = "decide" => commands[c].sent
       /\ timer[c].step = "commit" /\ ~timer[c].active => Gone(r)
       /\ timer[c].step = "undelivered" => Gone(r)

ThreadsKnow ==
  /\ \A r \in Request : HookKnows(r)
  /\ \A c \in Command : ApiKnows(c) /\ TimerKnows(c)
  /\ \A r \in sweep : Gone(r)

\* Where a request is in the registry and in the store, by its thread's step.
Presence ==
  \A r \in Request :
    /\ IsActive(r) => up
    /\ r \in tickets => hook[r] # "idle"
    /\ hook[r] \notin {"idle", "done"} => up /\ r \in tickets
    /\ hook[r] \in {"idle", "replace", "ingest", "failing"} => attention[r].state = "none"

\* The states each kind of item never has.
KindsKeepStates ==
  \A r \in Request :
    IF KindOf[r] = "approval"
    THEN attention[r].state # "snoozed"
    ELSE attention[r].state \in {"none", "open", "snoozed"} \cup SettledState

\* A claimed command whose item still waits for it has its task.
Awaited(c) ==
  /\ commands[c].state = "pending_commit"
  /\ attention[commands[c].request].state = "committing"

AwaitedHaveTimers ==
  up => \A c \in Command : Awaited(c) => timer[c].step \in {"sleeping", "commit"}

RuntimeInv ==
  /\ RegInv /\ StoreInv /\ ThreadTypeOK
  /\ ThreadsKnow /\ Presence /\ KindsKeepStates /\ AwaitedHaveTimers
  /\ DeliveredDecisionWasCommitted
  /\ LiveApprovalIsOfThisRuntime
  /\ BlockedHookIsActionable
  /\ AnsweredQuestionCloses

-----------------------------------------------------------------------------
(* What transactions do to rows that threads remember *)

\* No row goes, and only a claim and a request's own event bring one; what is
\* settled stays settled; a command keeps what it says.
RowsGrow ==
  /\ \A r \in Request :
       /\ attention[r].state # "none" => attention'[r].state # "none"
       /\ attention[r].state \in SettledState => attention'[r].state \in SettledState
       /\ KindOf[r] = "approval" /\ attention'[r].state \in LiveState
          => attention[r].state \in LiveState \cup {"none"}
  /\ \A c \in Command : commands[c].state # "none" =>
       /\ commands'[c].state # "none"
       /\ commands'[c].request = commands[c].request
       /\ commands'[c].action = commands[c].action
       /\ commands[c].sent => commands'[c].sent
  /\ KindsKeepStates'

NoNewItem ==
  \A r \in Request : attention[r].state = "none" => attention'[r].state = "none"

\* Only a claim makes an item await a command.
NoNewClaim == \A c \in Command : Awaited(c)' => Awaited(c)

\* Settling rows that were there.
LEMMA SettlingGrows ==
  ASSUME StoreInv, KindsKeepStates, NEW R, Settles(R),
         \A r \in R : attention[r].state # "none"
  PROVE  RowsGrow /\ NoNewItem /\ NoNewClaim
<1>1. ASSUME NEW r \in Request
      PROVE  \/ attention'[r] = attention[r]
             \/ attention[r].state # "none" /\ attention'[r].state \in SettledState
  BY DEF Settles
<1>2. ASSUME NEW c \in Command
      PROVE  /\ commands'[c].request = commands[c].request
             /\ commands'[c].action = commands[c].action
             /\ commands'[c].sent = commands[c].sent
             /\ commands[c].state # "none" => commands'[c].state # "none"
             /\ commands'[c].state = "pending_commit" => commands[c].state = "pending_commit"
  BY DEF Settles
<1>3. ASSUME NEW c \in Command, Awaited(c)'
      PROVE  Awaited(c)
  <2>1. commands[c].state = "pending_commit" /\ commands[c].request \in Request
    BY <1>2, <1>3 DEF Awaited, StoreInv, CommandRowsAgree
  <2>. QED  BY <1>1, <1>2, <1>3, <2>1 DEF Awaited, SettledState
<1>4. KindsKeepStates'
  BY <1>1 DEF KindsKeepStates, SettledState
<1>. QED  BY <1>1, <1>2, <1>3, <1>4 DEF RowsGrow, NoNewItem, NoNewClaim,
                                        SettledState, LiveState

LEMMA UnchangedRowsGrow ==
  ASSUME KindsKeepStates, UNCHANGED storeVars
  PROVE  RowsGrow /\ NoNewItem /\ NoNewClaim
BY DEF storeVars, RowsGrow, NoNewItem, NoNewClaim, KindsKeepStates, Awaited, SettledState, LiveState

\* A request's own event brings its row, when it has none.
LEMMA IngestRequestGrows ==
  ASSUME StoreInv, KindsKeepStates, NEW r \in Request, NEW turn, IngestRequest(r, turn)
  PROVE  /\ RowsGrow /\ NoNewClaim
         /\ \A q \in Request : q # r => attention'[q] = attention[q]
         /\ attention'[r].state # "none"
         /\ attention[r].state = "none" => attention'[r].state = "open"
<1>1. /\ \A q \in Request : q # r => attention'[q] = attention[q]
      /\ attention'[r].state =
           (IF attention[r].state = "none" THEN "open" ELSE attention[r].state)
      /\ UNCHANGED commands
  BY DEF IngestRequest, StoreInv, StoreTypeOK
<1>2. ASSUME NEW c \in Command, Awaited(c)'
      PROVE  Awaited(c)
  <2>1. commands[c].request \in Request
    BY <1>1, <1>2 DEF Awaited, StoreInv, CommandRowsAgree
  <2>. QED  BY <1>1, <1>2, <2>1 DEF Awaited
<1>3. KindsKeepStates'
  BY <1>1 DEF KindsKeepStates
<1>4. RowsGrow /\ NoNewClaim
  BY <1>1, <1>2, <1>3 DEF RowsGrow, NoNewClaim, SettledState, LiveState
<1>. QED  BY <1>1, <1>4

LEMMA ClaimGrows ==
  ASSUME StoreInv, KindsKeepStates, NEW c \in Command, NEW r \in Request,
         KindOf[r] = "approval", NEW action \in ApprovalAction, NEW at, Claim(c, r, action, at)
  PROVE  /\ RowsGrow /\ NoNewItem
         /\ \A d \in Command : Awaited(d)' => Awaited(d) \/ (d = c /\ Claims(c, r, at))
         /\ \A q \in Request : q # r => attention'[q] = attention[q]
<1>1. CASE ~Claims(c, r, at)
  <2>1. UNCHANGED storeVars
    BY <1>1 DEF Claim
  <2>2. RowsGrow /\ NoNewItem /\ NoNewClaim
    BY <2>1, UnchangedRowsGrow
  <2>. QED  BY <2>1, <2>2 DEF NoNewClaim, storeVars
<1>2. CASE Claims(c, r, at)
  <2>1. commands[c].state = "none" /\ attention[r].state = "open"
    BY <1>2 DEF Claims, Claimable
  <2>2. /\ attention'[r].state \in {"passed_through", "committing"}
        /\ \A q \in Request : q # r => attention'[q] = attention[q]
    BY <1>2 DEF Claim, StoreInv, StoreTypeOK, AttentionRow
  <2>3. \A d \in Command : d # c => commands'[d] = commands[d]
    BY <1>2 DEF Claim, StoreInv, StoreTypeOK
  <2>4. ASSUME NEW d \in Command, d # c, Awaited(d)'
        PROVE  Awaited(d)
    <3>1. commands[d].state = "pending_commit" /\ commands[d].request \in Request
      BY <2>3, <2>4 DEF Awaited, StoreInv, CommandRowsAgree
    <3>2. commands[d].request # r
      BY <2>1, <3>1 DEF StoreInv, UndecidedItems, Undecided, InPlay
    <3>. QED  BY <2>2, <2>3, <2>4, <3>1, <3>2 DEF Awaited
  <2>5. KindsKeepStates'
    BY <2>2 DEF KindsKeepStates, SettledState
  <2>. QED  BY <1>2, <2>1, <2>2, <2>3, <2>4, <2>5 DEF RowsGrow, NoNewItem, SettledState, LiveState
<1>. QED  BY <1>1, <1>2

LEMMA UndoGrows ==
  ASSUME StoreInv, KindsKeepStates, NEW c \in Command, Undo(c)
  PROVE  RowsGrow /\ NoNewItem /\ NoNewClaim
<1>1. /\ commands[c].state = "pending_commit" /\ commands'[c].state = "undone"
      /\ commands'[c].request = commands[c].request /\ commands'[c].sent = commands[c].sent
      /\ commands'[c].action = commands[c].action
      /\ \A d \in Command : d # c => commands'[d] = commands[d]
  BY DEF Undo, StoreInv, StoreTypeOK, CommandRow
<1>2. ASSUME NEW q \in Request
      PROVE  \/ attention'[q] = attention[q]
             \/ attention[q].state = "committing" /\ attention'[q].state = "open"
  BY DEF Undo, StoreInv, StoreTypeOK, AttentionRow
<1>3. ASSUME NEW d \in Command, Awaited(d)'
      PROVE  Awaited(d)
  <2>1. d # c /\ commands[d].state = "pending_commit" /\ commands[d].request \in Request
    BY <1>1, <1>3 DEF Awaited, StoreInv, CommandRowsAgree
  <2>. QED  BY <1>1, <1>2, <1>3, <2>1 DEF Awaited
<1>4. KindsKeepStates'
  BY <1>2 DEF KindsKeepStates, SettledState
<1>. QED  BY <1>1, <1>2, <1>3, <1>4 DEF RowsGrow, NoNewItem, NoNewClaim,
                                        SettledState, LiveState

LEMMA CommitGrows ==
  ASSUME StoreInv, KindsKeepStates, NEW c \in Command, NEW active \in BOOLEAN,
         Commit(c, CommitDue(c), active), UNCHANGED now
  PROVE  RowsGrow /\ NoNewItem /\ NoNewClaim
<1> DEFINE r == commands[c].request
<1>1. CommitDue(c) \in Nat
  BY TimeAssumption DEF CommitDue, StoreInv, StoreTypeOK, CommandRow
<1>2. CASE ~Committable(c, CommitDue(c))
  BY <1>2, UnchangedRowsGrow DEF Commit
<1>3. CASE Committable(c, CommitDue(c)) /\ ~active
  <2>1. active = FALSE
    BY <1>3
  <2>2. Settles({r})
    BY <1>1, <1>3, <2>1, CommitWithoutWaiterSettles
  <2>3. r \in Request /\ InPlay(c)
    BY <1>3 DEF Committable, InPlay, StoreInv, CommandRowsAgree
  <2>4. attention[r].state # "none"
    BY <2>3 DEF StoreInv, UndecidedItems, Undecided
  <2>. QED  BY <2>2, <2>4, SettlingGrows
<1>4. CASE Committable(c, CommitDue(c)) /\ active
  <2>1. /\ commands[c].state = "pending_commit" /\ commands'[c].state = "decision_sent"
        /\ commands'[c].request = r /\ commands'[c].sent
        /\ commands'[c].action = commands[c].action
        /\ \A d \in Command : d # c => commands'[d] = commands[d]
    BY <1>4 DEF Commit, Committable, StoreInv, StoreTypeOK, CommandRow
  <2>2. ASSUME NEW q \in Request
        PROVE  \/ attention'[q] = attention[q]
               \/ attention[q].state = "committing" /\ attention'[q].state = "decision_sent"
    BY <1>4 DEF Commit, StoreInv, StoreTypeOK, AttentionRow
  <2>3. ASSUME NEW d \in Command, Awaited(d)'
        PROVE  Awaited(d)
    <3>1. d # c /\ commands[d].state = "pending_commit" /\ commands[d].request \in Request
      BY <2>1, <2>3 DEF Awaited, StoreInv, CommandRowsAgree
    <3>. QED  BY <2>1, <2>2, <2>3, <3>1 DEF Awaited
  <2>4. KindsKeepStates'
    BY <2>2 DEF KindsKeepStates, SettledState
  <2>. QED  BY <2>1, <2>2, <2>3, <2>4 DEF RowsGrow, NoNewItem, NoNewClaim,
                                        SettledState, LiveState
<1>. QED  BY <1>2, <1>3, <1>4

LEMMA ActGrows ==
  ASSUME StoreInv, KindsKeepStates, NEW c \in Command, NEW r \in Request,
         NEW action \in AttentionAction, ActOnAttention(c, r, action)
  PROVE  /\ RowsGrow /\ NoNewItem /\ NoNewClaim
         /\ KindOf[r] # "approval" /\ \A q \in Request : q # r => attention'[q] = attention[q]
<1>1. /\ commands[c].state = "none" /\ KindOf[r] # "approval"
      /\ attention[r].state \in {"open", "snoozed"}
      /\ \A d \in Command : d # c => commands'[d] = commands[d]
      /\ commands'[c].state = "confirmed"
  BY DEF ActOnAttention, Actionable, StoreInv, StoreTypeOK
<1>2. /\ attention'[r].state \in {"resolved", "snoozed", "dismissed"}
      /\ \A q \in Request : q # r => attention'[q] = attention[q]
  BY DEF ActOnAttention, StoreInv, StoreTypeOK, AttentionRow, AttentionAction
<1>3. ASSUME NEW d \in Command, Awaited(d)'
      PROVE  Awaited(d)
  <2>1. d # c /\ commands[d].request \in Request
    BY <1>1, <1>3 DEF Awaited, StoreInv, CommandRowsAgree
  <2>. QED  BY <1>1, <1>2, <1>3, <2>1 DEF Awaited
<1>4. KindsKeepStates'
  BY <1>1, <1>2 DEF KindsKeepStates, SettledState
<1>. QED  BY <1>1, <1>2, <1>3, <1>4 DEF RowsGrow, NoNewItem, NoNewClaim,
                                        SettledState, LiveState

LEMMA ReopenGrows ==
  ASSUME StoreInv, KindsKeepStates, ReopenDueSnoozed
  PROVE  RowsGrow /\ NoNewItem /\ NoNewClaim
<1>1. UNCHANGED commands
  BY DEF ReopenDueSnoozed
<1>2. ASSUME NEW q \in Request
      PROVE  \/ attention'[q] = attention[q]
             \/ attention[q].state = "snoozed" /\ attention'[q].state = "open"
  BY DEF ReopenDueSnoozed, DueSnoozed, StoreInv, StoreTypeOK, AttentionRow
<1>3. ASSUME NEW d \in Command, Awaited(d)'
      PROVE  Awaited(d)
  <2>1. commands[d].request \in Request
    BY <1>1, <1>3 DEF Awaited, StoreInv, CommandRowsAgree
  <2>. QED  BY <1>1, <1>2, <1>3, <2>1 DEF Awaited
<1>4. KindsKeepStates'
  BY <1>2 DEF KindsKeepStates, SettledState
<1>5. \A r \in Request : KindOf[r] = "approval" => attention[r].state # "snoozed"
  BY DEF KindsKeepStates
<1>. QED  BY <1>1, <1>2, <1>3, <1>4, <1>5 DEF RowsGrow, NoNewItem, NoNewClaim,
                                        SettledState, LiveState

LEMMA IngestEventGrows ==
  ASSUME StoreInv, KindsKeepStates, NEW kind \in EventKind, NEW tool, NEW turn, NEW R,
         IngestEvent(kind, tool, turn, R), UNCHANGED now
  PROVE  /\ RowsGrow /\ NoNewItem /\ NoNewClaim /\ R \subseteq Request
         /\ \A r \in Request \ R : attention'[r] = attention[r]
<1>1. Settles(R) /\ \A r \in R : attention[r].state \in LiveState
  BY IngestEventSettles
<1>2. R \subseteq Request
  BY HandledAreLive DEF IngestEvent
<1>3. \A r \in R : attention[r].state # "none"
  BY <1>1 DEF LiveState
<1>. QED  BY <1>1, <1>2, <1>3, SettlingGrows DEF Settles

LEMMA ReconcileGrows ==
  ASSUME StoreInv, KindsKeepStates, ReconcileOrphans({}), UNCHANGED now
  PROVE  /\ RowsGrow /\ NoNewItem /\ NoNewClaim
         /\ \A r \in Request : attention'[r].state \notin LiveState
<1> DEFINE orphans == {r \in Request : attention[r].state \in LiveState}
<1>1. attention' = ExpiredAttention(orphans) /\ commands' = FailedCommands(orphans)
  BY DEF ReconcileOrphans
<1>2. Settles(orphans)
  BY <1>1, ExpirySettles
<1>3. RowsGrow /\ NoNewItem /\ NoNewClaim
  BY <1>2, SettlingGrows DEF LiveState
<1>. QED  BY <1>2, <1>3 DEF Settles, SettledState, LiveState

LEMMA ExpireGrows ==
  ASSUME StoreInv, KindsKeepStates, NEW r \in Request, ExpireApproval(r), UNCHANGED now
  PROVE  /\ RowsGrow /\ NoNewItem /\ NoNewClaim
         /\ \A q \in Request : q # r => attention'[q] = attention[q]
<1>1. CASE attention[r].state \in LiveState
  <2>1. Settles({r})
    BY <1>1, ExpirySettles DEF ExpireApproval
  <2>. QED  BY <1>1, <2>1, SettlingGrows DEF Settles, LiveState
<1>2. CASE attention[r].state \notin LiveState
  BY <1>2, UnchangedRowsGrow DEF ExpireApproval, storeVars
<1>. QED  BY <1>1, <1>2

-----------------------------------------------------------------------------
(* What the registry's operations do to waiters that threads remember *)

\* What a hook's thread has been sent.
Got(r) == {channel[r][i] : i \in 1..Len(channel[r])}

\* A live entry is its request's own ticket.
LEMMA OwnTicket ==
  ASSUME RegInv, NEW r \in Request, IsActive(r)
  PROVE  byRequest[r] = r /\ r \in tickets
BY FreshRequests DEF RegInv, RegTypeOK, IndexConsistent, IsActive

LEMMA ChannelAfterGot ==
  ASSUME RegInv, NEW R \in SUBSET Request, NEW response \in Response,
         channel' = ChannelAfter(R, response), NEW r \in Request
  PROVE  /\ Got(r)' \subseteq Got(r) \cup {response}
         /\ r \notin R \/ ~IsActive(r) => channel'[r] = channel[r]
<1>1. channel[r] \in Seq(Response) /\ r \in Ticket
  BY FreshRequests DEF RegInv, RegTypeOK
<1>2. CASE \E q \in R : byRequest[q] = r
  <2>1. channel'[r] = Append(channel[r], response)
    BY <1>1, <1>2 DEF ChannelAfter
  <2>2. PICK q \in R : byRequest[q] = r
    BY <1>2
  <2>3. IsActive(q)
    BY <1>1, <2>2, TicketAssumption DEF IsActive
  <2>4. r \in R /\ IsActive(r)
    BY <2>2, <2>3, OwnTicket
  <2>5. /\ Len(channel'[r]) = Len(channel[r]) + 1
        /\ \A i \in 1..Len(channel'[r]) :
             channel'[r][i] = IF i <= Len(channel[r]) THEN channel[r][i] ELSE response
    BY <1>1, <2>1
  <2>. QED  BY <1>1, <2>4, <2>5 DEF Got
<1>3. CASE ~ \E q \in R : byRequest[q] = r
  BY <1>1, <1>3 DEF ChannelAfter, Got
<1>. QED  BY <1>2, <1>3

\* Whoever is resolved leaves the registry, and nobody enters it.
LEMMA TryResolveFrees ==
  ASSUME RegInv, NEW r \in Request, NEW response \in Response, TryResolve(r, response)
  PROVE  /\ tickets' = tickets /\ ~IsActive(r)'
         /\ \A q \in Request : IsActive(q)' => IsActive(q)
         /\ Got(r)' \subseteq Got(r) \cup {response}
         /\ \A q \in Request : q # r \/ ~IsActive(r) => channel'[q] = channel[q]
<1>1. CASE IsActive(r)
  BY <1>1, ChannelAfterGot DEF TryResolve, Resolve, ByRequestWithout, IsActive
<1>2. CASE ~IsActive(r)
  BY <1>2 DEF TryResolve, regVars, IsActive, Got
<1>. QED  BY <1>1, <1>2

LEMMA TryResolveIsRegStep ==
  ASSUME NEW r \in Request, NEW response, TryResolve(r, response), UNCHANGED now,
         response \in Decision \cup {"pass_through"} \/ (response = "answer" /\ r \in Interactive)
  PROVE  [RegNext]_<<now, regVars>>
BY DEF TryResolve, RegNext, RegStep, Decide, PassThrough, Answer

-----------------------------------------------------------------------------
(* What every step leaves of a thread's knowledge *)

\* Waiters and rows that are known stay what they were known for.
LEMMA KnowledgeKept ==
  ASSUME RuntimeInv, RowsGrow, now' \in Nat, now <= now',
         \A r \in Request :
           hook[r] # "idle" => hook'[r] # "idle" /\ (IsActive(r)' => IsActive(r))
  PROVE  /\ \A r \in Request : Gone(r) => Gone(r)'
         /\ \A r \in sweep : Gone(r)'
         /\ \A r \in Request :
              hook'[r] = hook[r] /\ replacing'[r] = replacing[r] => HookKnows(r)'
         /\ \A c \in Command : api'[c] = api[c] => ApiKnows(c)'
         /\ \A c \in Command : timer'[c] = timer[c] => TimerKnows(c)'
<1>1. /\ \A r \in Request : Gone(r) => Gone(r)'
      /\ \A r \in sweep : Gone(r)'
  BY DEF Gone, RuntimeInv, ThreadsKnow, ThreadTypeOK
<1>2. ASSUME NEW r \in Request, hook'[r] = hook[r], replacing'[r] = replacing[r]
      PROVE  HookKnows(r)'
  BY <1>1, <1>2 DEF RuntimeInv, ThreadsKnow, HookKnows
<1>3. ASSUME NEW c \in Command, api'[c] = api[c]
      PROVE  ApiKnows(c)'
  <2>1. ApiKnows(c) /\ now \in Nat /\ (api[c].at \in Nat)
    BY DEF RuntimeInv, ThreadsKnow, RegInv, RegTypeOK, ThreadTypeOK
  <2>2. api[c].step = "stale" => api[c].request \in Request
    BY <2>1 DEF ApiKnows
  <2>3. api[c].step \in {"answer", "native", "ack"} => api[c].request \in Request
    BY <2>1 DEF ApiKnows
  <2>. QED  BY <1>1, <1>3, <2>1, <2>2, <2>3 DEF ApiKnows, RowsGrow
<1>4. ASSUME NEW c \in Command, timer'[c] = timer[c]
      PROVE  TimerKnows(c)'
  <2>1. TimerKnows(c)
    BY DEF RuntimeInv, ThreadsKnow
  <2>. QED  BY <1>1, <1>4, <2>1 DEF TimerKnows, RowsGrow
<1>. QED  BY <1>1, <1>2, <1>3, <1>4

\* Presence and the owner of live approvals, when no hook arrives, nothing is
\* ingested for one, and the process goes on.
LEMMA PresenceKept ==
  ASSUME RuntimeInv, RowsGrow, NoNewItem, UNCHANGED <<up, tickets>>,
         \A r \in Request :
           /\ IsActive(r)' => IsActive(r)
           /\ hook'[r] = "idle" <=> hook[r] = "idle"
           /\ hook'[r] # "done" => hook[r] # "done"
           /\ hook'[r] \in {"replace", "ingest", "failing"} =>
                hook[r] \in {"replace", "ingest", "failing"}
  PROVE  Presence' /\ LiveApprovalIsOfThisRuntime'
<1>1. Presence'
  BY DEF RuntimeInv, Presence, NoNewItem
<1>2. ASSUME up', NEW r \in Request, KindOf[r] = "approval", attention'[r].state \in LiveState
      PROVE  r \in tickets'
  <2>1. attention[r].state \in LiveState
    BY <1>2 DEF RowsGrow, NoNewItem, LiveState
  <2>. QED  BY <1>2, <2>1 DEF RuntimeInv, LiveApprovalIsOfThisRuntime
<1>. QED  BY <1>1, <1>2 DEF LiveApprovalIsOfThisRuntime

\* What hooks were told, when only a task that decides sends a decision.
LEMMA DeliveredKept ==
  ASSUME RuntimeInv, RowsGrow,
         \A r \in Request : reply'[r] \in Decision => reply'[r] = reply[r] \/ reply'[r] \in Got(r),
         \A r \in Request, d \in Decision : d \in Got(r)' =>
           \/ d \in Got(r)
           \/ \E c \in Command : /\ timer[c].step = "decide" /\ timer[c].request = r
                                 /\ DecisionOf(timer[c].action) = d
  PROVE  DeliveredDecisionWasCommitted'
<1>1. ASSUME NEW c \in Command, commands[c].sent
      PROVE  commands[c].state # "none"
  BY <1>1 DEF RuntimeInv, StoreInv, CommandRowsAgree
<1> SUFFICES ASSUME NEW r \in Request, NEW d \in Decision,
                    reply'[r] = d \/ d \in Got(r)'
             PROVE  \E c \in Command : /\ commands'[c].request = r /\ commands'[c].sent
                                       /\ DecisionOf(commands'[c].action) = d
  BY DEF DeliveredDecisionWasCommitted, Got
<1>2. CASE reply[r] = d \/ d \in Got(r)
  <2>1. PICK c \in Command : /\ commands[c].request = r /\ commands[c].sent
                             /\ DecisionOf(commands[c].action) = d
    BY <1>2 DEF RuntimeInv, DeliveredDecisionWasCommitted, Got
  <2>. QED  BY <1>1, <2>1 DEF RowsGrow
<1>3. CASE \E c \in Command : /\ timer[c].step = "decide" /\ timer[c].request = r
                              /\ DecisionOf(timer[c].action) = d
  <2>1. PICK c \in Command : /\ timer[c].step = "decide" /\ timer[c].request = r
                             /\ DecisionOf(timer[c].action) = d
    BY <1>3
  <2>2. TimerKnows(c)
    BY DEF RuntimeInv, ThreadsKnow
  <2>. QED  BY <2>1, <2>2 DEF TimerKnows, RowsGrow
<1>. QED  BY <1>2, <1>3

\* Answered questions, when an acknowledgement goes on or settles its item.
LEMMA AnsweredKept ==
  ASSUME RuntimeInv, RowsGrow,
         \A r \in Request : "answer" \in Got(r)' =>
           \/ "answer" \in Got(r)
           \/ \E c \in Command : api'[c].step = "ack" /\ api'[c].request = r,
         \A c \in Command : api[c].step = "ack" =>
           \/ api'[c].step = "ack" /\ api'[c].request = api[c].request
           \/ attention'[api[c].request].state \in SettledState
  PROVE  AnsweredQuestionCloses'
BY DEF RuntimeInv, AnsweredQuestionCloses, Got, RowsGrow

\* Awaited commands, when no command is claimed and no task that has yet to
\* commit one ends.
LEMMA TimersKept ==
  ASSUME RuntimeInv, NoNewClaim, up' => up,
         \A c \in Command : timer[c].step \in {"sleeping", "commit"} =>
           timer'[c].step \in {"sleeping", "commit"} \/ ~Awaited(c)'
  PROVE  AwaitedHaveTimers'
BY DEF RuntimeInv, AwaitedHaveTimers, NoNewClaim

\* What keeps a hook's approval actionable, or its release under way.
Held(r) ==
  \/ attention[r].state \in LiveState
  \/ \E e \in Event : r \in release[e]
  \/ \E c \in Command : api[c].step = "pass_through" /\ api[c].request = r

\* Blocked hooks, when what held them holds them still.
LEMMA BlockedKept ==
  ASSUME RuntimeInv,
         \A r \in Request : KindOf[r] = "approval" /\ hook'[r] = "waiting" /\ IsActive(r)' =>
           hook[r] = "waiting" /\ IsActive(r) /\ (Held(r) => Held(r)')
  PROVE  BlockedHookIsActionable'
BY DEF RuntimeInv, BlockedHookIsActionable, Held

\* A step of the runtime keeps the invariant and is a step of the two components.
StepOK ==
  /\ RuntimeInv'
  /\ [RegNext]_<<now, regVars>>
  /\ [StoreNext]_<<now, storeVars>>

LEMMA PartsMakeStep ==
  ASSUME RuntimeInv, [RegNext]_<<now, regVars>>, [StoreNext]_<<now, storeVars>>,
         ThreadTypeOK', ThreadsKnow', Presence', KindsKeepStates', AwaitedHaveTimers',
         DeliveredDecisionWasCommitted', LiveApprovalIsOfThisRuntime',
         BlockedHookIsActionable', AnsweredQuestionCloses'
  PROVE  StepOK
<1>1. RegInv /\ StoreInv
  BY DEF RuntimeInv
<1>2. RegInv' /\ StoreInv'
  BY <1>1, RegNextKeepsInv, StoreNextKeepsInv
<1>. QED  BY <1>2 DEF StepOK, RuntimeInv

\* A step at which no hook arrives, no request's event is ingested and the
\* process neither dies nor starts: the parts of the invariant that follow from
\* what the step does to waiters, rows and the hooks' threads.
LEMMA ThreadStep ==
  ASSUME RuntimeInv, [RegNext]_<<now, regVars>>, [StoreNext]_<<now, storeVars>>,
         RowsGrow, NoNewItem, now' \in Nat, now <= now', UNCHANGED <<up, tickets>>,
         ThreadTypeOK',
         \A r \in Request :
           /\ IsActive(r)' => IsActive(r)
           /\ \/ hook'[r] = hook[r] /\ replacing'[r] = replacing[r]
              \/ /\ hook[r] \notin {"idle", "done"} /\ HookKnows(r)'
                 /\ hook'[r] \notin {"idle", "replace"}
                 /\ hook'[r] \in {"ingest", "failing"} => hook[r] \in {"replace", "ingest"},
         \A c \in Command : api'[c] = api[c] \/ ApiKnows(c)',
         \A c \in Command : timer'[c] = timer[c] \/ TimerKnows(c)',
         \A r \in sweep' : r \in sweep \/ Gone(r)',
         AwaitedHaveTimers', DeliveredDecisionWasCommitted',
         BlockedHookIsActionable', AnsweredQuestionCloses'
  PROVE  StepOK
<1>1. ThreadsKnow'
  BY KnowledgeKept DEF ThreadsKnow
<1>2. Presence' /\ LiveApprovalIsOfThisRuntime'
  BY PresenceKept
<1>. QED  BY <1>1, <1>2, PartsMakeStep DEF RowsGrow

-----------------------------------------------------------------------------
(* Steps of the hooks' threads *)

\* A step of the hook of r that is neither its arrival nor its ingestion.
HookOnly(r) ==
  /\ hook[r] \notin {"idle", "done"}
  /\ \A q \in Request : q # r => hook'[q] = hook[q] /\ replacing'[q] = replacing[q]
  /\ hook'[r] \notin {"idle", "replace"}
  /\ hook'[r] \in {"ingest", "failing"} => hook[r] \in {"replace", "ingest"}
  /\ hook'[r] = "waiting" /\ KindOf[r] = "approval" => ~IsActive(r)'
  /\ UNCHANGED <<now, up, release, api, timer, sweep>>

LEMMA HookOnlyKeepsInv ==
  ASSUME RuntimeInv, NEW r \in Request, HookOnly(r),
         [RegNext]_<<now, regVars>>, [StoreNext]_<<now, storeVars>>,
         RowsGrow, NoNewItem, NoNewClaim, ThreadTypeOK', tickets' = tickets,
         \A q \in Request :
           (IsActive(q)' => IsActive(q)) /\ Got(q)' \subseteq Got(q) \cup {"pass_through"},
         \A q \in Request : q # r /\ hook[q] = "waiting" /\ IsActive(q)' =>
           (Held(q) => Held(q)'),
         \A q \in Request : reply'[q] \in Decision => reply'[q] = reply[q] \/ reply'[q] \in Got(q)
  PROVE  StepOK
<1>1. now \in Nat
  BY DEF RuntimeInv, RegInv, RegTypeOK
<1>2. HookKnows(r)'
  BY DEF HookOnly, HookKnows
<1>3. AwaitedHaveTimers'
  BY TimersKept DEF HookOnly
<1>4. DeliveredDecisionWasCommitted'
  BY DeliveredKept DEF Decision
<1>5. BlockedHookIsActionable'
  BY BlockedKept DEF HookOnly
<1>6. AnsweredQuestionCloses'
  BY AnsweredKept DEF HookOnly
<1>. QED  BY <1>1, <1>2, <1>3, <1>4, <1>5, <1>6, ThreadStep DEF HookOnly

\* The steps of a hook's thread that change neither rows nor registry.
LEMMA HookMovesOn ==
  ASSUME RuntimeInv, NEW r \in Request,
         HookIngestFails(r) \/ HookReceive(r) \/ HookTimeout(r)
  PROVE  StepOK
<1>1. UNCHANGED <<now, regVars, storeVars>>
  BY DEF HookIngestFails, HookReceive, HookTimeout
<1>2. RowsGrow /\ NoNewItem /\ NoNewClaim
  BY <1>1, UnchangedRowsGrow DEF RuntimeInv
<1>3. /\ tickets' = tickets
      /\ \A q \in Request : (IsActive(q)' <=> IsActive(q)) /\ Got(q)' = Got(q)
  BY <1>1 DEF regVars, IsActive, Got
<1>4. HookOnly(r)
  BY <1>1 DEF HookOnly, HookIngestFails, HookReceive, HookTimeout, RuntimeInv, ThreadTypeOK,
     eventVars
<1>5. channel[r] # <<>> => Head(channel[r]) \in Got(r) /\ Head(channel[r]) \in Response
  <2>1. channel[r] \in Seq(Response)
    BY FreshRequests DEF RuntimeInv, RegInv, RegTypeOK
  <2>. QED  BY <2>1 DEF Got
<1>6. ThreadTypeOK'
  <2>1. hook' \in [Request -> HookStep]
    BY DEF HookIngestFails, HookReceive, HookTimeout, RuntimeInv, ThreadTypeOK, HookStep
  <2>2. reply' \in [Request -> HookReply]
    <3>1. CASE HookReceive(r)
      <4>1. Head(channel[r]) \in HookReply
        BY <1>5, <3>1 DEF HookReceive, HookReply
      <4>. QED  BY <3>1, <4>1 DEF HookReceive, RuntimeInv, ThreadTypeOK
    <3>2. CASE ~HookReceive(r)
      BY <3>2 DEF HookIngestFails, HookTimeout, RuntimeInv, ThreadTypeOK
    <3>. QED  BY <3>1, <3>2
  <2>. QED  BY <2>1, <2>2 DEF HookIngestFails, HookReceive, HookTimeout, RuntimeInv,
                              ThreadTypeOK, eventVars
<1>7. \A q \in Request :
        reply'[q] \in Decision => reply'[q] = reply[q] \/ reply'[q] \in Got(q)
  BY <1>5 DEF HookIngestFails, HookReceive, HookTimeout, RuntimeInv, ThreadTypeOK
<1>8. \A q \in Request : Held(q) => Held(q)'
  BY <1>1, <1>4 DEF Held, HookOnly, storeVars
<1>. QED  BY <1>1, <1>2, <1>3, <1>4, <1>6, <1>7, <1>8, HookOnlyKeepsInv

\* The hook of r is let go by its own thread, at its deadline or after an error.
LEMMA HookLetsGo ==
  ASSUME RuntimeInv, NEW r \in Request, HookPassThroughFailed(r) \/ HookRelease(r)
  PROVE  StepOK
<1>1. /\ TryResolve(r, "pass_through")
      /\ UNCHANGED <<now, storeVars>>
  BY DEF HookPassThroughFailed, HookRelease
<1>2. RowsGrow /\ NoNewItem /\ NoNewClaim
  BY <1>1, UnchangedRowsGrow DEF RuntimeInv
<1>3. /\ tickets' = tickets /\ ~IsActive(r)'
      /\ \A q \in Request : IsActive(q)' => IsActive(q)
      /\ \A q \in Request : Got(q)' \subseteq Got(q) \cup {"pass_through"}
  <2>1. "pass_through" \in Response
    BY DEF Response
  <2>2. /\ tickets' = tickets /\ ~IsActive(r)'
        /\ \A q \in Request : IsActive(q)' => IsActive(q)
        /\ Got(r)' \subseteq Got(r) \cup {"pass_through"}
        /\ \A q \in Request : q # r => channel'[q] = channel[q]
    BY <1>1, <2>1, TryResolveFrees DEF RuntimeInv
  <2>. QED  BY <2>2 DEF Got
<1>4. HookOnly(r)
  BY <1>3 DEF HookOnly, HookPassThroughFailed, HookRelease, RuntimeInv, ThreadTypeOK, eventVars
<1>5. ThreadTypeOK'
  BY DEF HookPassThroughFailed, HookRelease, RuntimeInv, ThreadTypeOK, eventVars, HookStep
<1>6. reply' = reply
  BY DEF HookPassThroughFailed, HookRelease
<1>7. \A q \in Request : Held(q) => Held(q)'
  BY <1>1, <1>4 DEF Held, HookOnly, storeVars
<1>8. [RegNext]_<<now, regVars>>
  BY <1>1, TryResolveIsRegStep
<1>. QED  BY <1>1, <1>2, <1>3, <1>4, <1>5, <1>6, <1>7, <1>8, HookOnlyKeepsInv

\* An expiry is a step of the store.
LEMMA ExpireIsStoreStep ==
  ASSUME NEW r \in Request, ExpireApproval(r), UNCHANGED now
  PROVE  [StoreNext]_<<now, storeVars>>
BY DEF StoreNext, StoreStep, DecisionStep

\* The request that a registration replaced is expired: its hook was let go.
LEMMA HookExpiresReplaced ==
  ASSUME RuntimeInv, NEW r \in Request, HookExpireReplaced(r)
  PROVE  StepOK
<1>1. /\ replacing[r] \in Request /\ Gone(replacing[r])
      /\ ExpireApproval(replacing[r]) /\ UNCHANGED <<now, regVars>>
  BY DEF HookExpireReplaced, RuntimeInv, ThreadsKnow, HookKnows
<1>2. /\ RowsGrow /\ NoNewItem /\ NoNewClaim
      /\ \A q \in Request : q # replacing[r] => attention'[q] = attention[q]
  BY <1>1, ExpireGrows DEF RuntimeInv
<1>3. /\ tickets' = tickets
      /\ \A q \in Request : (IsActive(q)' <=> IsActive(q)) /\ Got(q)' = Got(q)
  BY <1>1 DEF regVars, IsActive, Got
<1>4. HookOnly(r)
  BY DEF HookOnly, HookExpireReplaced, RuntimeInv, ThreadTypeOK, eventVars
<1>5. ThreadTypeOK' /\ reply' = reply
  BY DEF HookExpireReplaced, RuntimeInv, ThreadTypeOK, eventVars, HookStep
<1>6. \A q \in Request : IsActive(q)' => (Held(q) => Held(q)')
  BY <1>1, <1>2, <1>3, <1>4 DEF Held, HookOnly, Gone
<1>7. [RegNext]_<<now, regVars>> /\ [StoreNext]_<<now, storeVars>>
  BY <1>1, ExpireIsStoreStep
<1>. QED  BY <1>2, <1>3, <1>4, <1>5, <1>6, <1>7, HookOnlyKeepsInv

\* A hook at its deadline expires its own item and ends.
LEMMA HookExpires ==
  ASSUME RuntimeInv, NEW r \in Request, HookExpire(r)
  PROVE  StepOK
<1>1. ExpireApproval(r) /\ UNCHANGED <<now, regVars>>
  BY DEF HookExpire
<1>2. /\ RowsGrow /\ NoNewItem /\ NoNewClaim
      /\ \A q \in Request : q # r => attention'[q] = attention[q]
  BY <1>1, ExpireGrows DEF RuntimeInv
<1>3. /\ tickets' = tickets
      /\ \A q \in Request : (IsActive(q)' <=> IsActive(q)) /\ Got(q)' = Got(q)
  BY <1>1 DEF regVars, IsActive, Got
<1>4. HookOnly(r)
  BY DEF HookOnly, HookExpire, RuntimeInv, ThreadTypeOK, eventVars
<1>5. ThreadTypeOK'
  BY DEF HookExpire, RuntimeInv, ThreadTypeOK, eventVars, HookStep, HookReply
<1>6. \A q \in Request : reply'[q] \in Decision => reply'[q] = reply[q]
  BY DEF HookExpire, RuntimeInv, ThreadTypeOK, Decision
<1>7. \A q \in Request : q # r => (Held(q) => Held(q)')
  BY <1>2, <1>4 DEF Held, HookOnly
<1>8. [RegNext]_<<now, regVars>> /\ [StoreNext]_<<now, storeVars>>
  BY <1>1, ExpireIsStoreStep
<1>. QED  BY <1>2, <1>3, <1>4, <1>5, <1>6, <1>7, <1>8, HookOnlyKeepsInv

\* A hook process may die unnoticed: nobody is told anything.
LEMMA HookDiesUnnoticed ==
  ASSUME RuntimeInv, NEW r \in Request, HookDies(r)
  PROVE  StepOK
<1>1. UNCHANGED <<now, regVars, storeVars, up, hook, replacing, release, api, timer, sweep>>
  BY DEF HookDies, eventVars
<1>2. RowsGrow /\ NoNewItem /\ NoNewClaim
  BY <1>1, UnchangedRowsGrow DEF RuntimeInv
<1>3. /\ tickets' = tickets
      /\ \A q \in Request : (IsActive(q)' <=> IsActive(q)) /\ Got(q)' = Got(q)
  BY <1>1 DEF regVars, IsActive, Got
<1>4. ThreadTypeOK'
  BY DEF HookDies, RuntimeInv, ThreadTypeOK, eventVars, HookReply
<1>5. \A q \in Request : reply'[q] \in Decision => reply'[q] = reply[q]
  BY DEF HookDies, RuntimeInv, ThreadTypeOK, Decision
<1>6. AwaitedHaveTimers' /\ DeliveredDecisionWasCommitted'
  BY <1>1, <1>2, <1>3, <1>5, TimersKept, DeliveredKept
<1>7. BlockedHookIsActionable' /\ AnsweredQuestionCloses'
  BY <1>1, <1>2, <1>3, BlockedKept, AnsweredKept DEF Held, storeVars
<1>8. now \in Nat
  BY DEF RuntimeInv, RegInv, RegTypeOK
<1>. QED  BY <1>1, <1>2, <1>3, <1>4, <1>6, <1>7, <1>8, ThreadStep

\* A registration lets go of other requests' hooks and takes its own ticket.
LEMMA RegisterTakesTicket ==
  ASSUME RegInv, NEW r \in Request, Register(r)
  PROVE  /\ tickets' = tickets \cup {r} /\ IsActive(r)'
         /\ \A q \in Request : q # r /\ IsActive(q)' => IsActive(q)
         /\ \A q \in Replaced(r) : q \in Request /\ q # r /\ IsActive(q) /\ ~IsActive(q)'
         /\ \A q \in Request : Got(q)' \subseteq Got(q) \cup {"pass_through"}
<1> DEFINE gone == Expired \cup Replaced(r) \cup {r}
<1>1. /\ RequestOf[r] = r /\ r \in Ticket
      /\ tickets' = tickets \cup {r}
      /\ byRequest' = [ByRequestWithout(gone) EXCEPT ![r] = r]
      /\ channel' = ChannelAfter(gone, "pass_through")
  BY FreshRequests DEF Register
<1>2. \A q \in Replaced(r) : q \in Request /\ q # r /\ IsActive(q)
  BY CorrelationAssumption DEF Replaced, RegInv, RegTypeOK, IndexConsistent
<1>3. gone \in SUBSET Request
  BY <1>2 DEF Expired
<1>4. "pass_through" \in Response
  BY DEF Response
<1>5. \A q \in Request : Got(q)' \subseteq Got(q) \cup {"pass_through"}
  BY <1>1, <1>3, <1>4, ChannelAfterGot
<1>6. \A q \in Request : byRequest'[q] =
        IF q = r THEN r ELSE IF q \in gone THEN None ELSE byRequest[q]
  BY <1>1 DEF ByRequestWithout
<1>. QED  BY <1>1, <1>2, <1>5, <1>6, TicketAssumption DEF IsActive

LEMMA HookRegisters ==
  ASSUME RuntimeInv, NEW r \in Request, HookRegister(r)
  PROVE  StepOK
<1>1. /\ up /\ hook[r] = "idle" /\ Register(r)
      /\ UNCHANGED <<now, storeVars, up, reply, release, api, timer, sweep>>
  BY DEF HookRegister, eventVars
<1>2. RowsGrow /\ NoNewItem /\ NoNewClaim
  BY <1>1, UnchangedRowsGrow DEF RuntimeInv
<1>3. /\ tickets' = tickets \cup {r} /\ IsActive(r)'
      /\ \A q \in Request : q # r /\ IsActive(q)' => IsActive(q)
      /\ \A q \in Replaced(r) : q \in Request /\ q # r /\ IsActive(q) /\ ~IsActive(q)'
      /\ \A q \in Request : Got(q)' \subseteq Got(q) \cup {"pass_through"}
  BY <1>1, RegisterTakesTicket DEF RuntimeInv
<1>4. /\ hook'[r] \in {"replace", "ingest"}
      /\ hook'[r] = "replace" => replacing'[r] \in Replaced(r)
      /\ \A q \in Request : q # r => hook'[q] = hook[q] /\ replacing'[q] = replacing[q]
  BY DEF HookRegister, RuntimeInv, ThreadTypeOK
<1>5. ThreadTypeOK'
  <2>1. hook' \in [Request -> HookStep] /\ replacing' \in [Request -> Request \cup {None}]
    BY <1>3 DEF HookRegister, RuntimeInv, ThreadTypeOK, HookStep
  <2>. QED  BY <2>1 DEF HookRegister, RuntimeInv, ThreadTypeOK, eventVars
<1>6. now \in Nat
  BY DEF RuntimeInv, RegInv, RegTypeOK
<1>7. ASSUME NEW q \in Replaced(r)
      PROVE  hook[q] # "idle"
  <2>1. q \in Request /\ IsActive(q)
    BY <1>3
  <2>2. q \in tickets
    BY <2>1, OwnTicket DEF RuntimeInv
  <2>. QED  BY <2>1, <2>2 DEF RuntimeInv, Presence
<1>8. ThreadsKnow'
  <2>1. HookKnows(r)'
    BY <1>3, <1>4, <1>7 DEF HookKnows, Gone
  <2>2. \A q \in Request : hook[q] # "idle" => hook'[q] # "idle" /\ (IsActive(q)' => IsActive(q))
    BY <1>1, <1>3, <1>4
  <2>. QED  BY <1>1, <1>2, <1>4, <1>6, <2>1, <2>2, KnowledgeKept DEF ThreadsKnow
<1>9. Presence'
  BY <1>1, <1>3, <1>4 DEF RuntimeInv, Presence, storeVars
<1>10. LiveApprovalIsOfThisRuntime'
  BY <1>1, <1>3 DEF RuntimeInv, LiveApprovalIsOfThisRuntime, storeVars
<1>11. AwaitedHaveTimers'
  BY <1>1, <1>2, TimersKept
<1>12. DeliveredDecisionWasCommitted' /\ AnsweredQuestionCloses'
  BY <1>1, <1>2, <1>3, DeliveredKept, AnsweredKept DEF Decision
<1>13. BlockedHookIsActionable'
  BY <1>1, <1>3, <1>4, BlockedKept DEF Held, storeVars
<1>14. [RegNext]_<<now, regVars>> /\ [StoreNext]_<<now, storeVars>>
  BY <1>1, FreshRequests DEF RegNext, RegStep
<1>. QED  BY <1>2, <1>5, <1>8, <1>9, <1>10, <1>11, <1>12, <1>13, <1>14, PartsMakeStep
          DEF RowsGrow

\* A request is ingested by the thread that holds its ticket, and has no row yet.
LEMMA HookIngests ==
  ASSUME RuntimeInv, NEW r \in Request, HookIngest(r)
  PROVE  StepOK
<1>1. /\ up /\ hook[r] = "ingest"
      /\ UNCHANGED <<now, regVars, up, replacing, reply, release, api, timer, sweep>>
  BY DEF HookIngest, eventVars
<1>2. PICK turn \in Turn : IngestRequest(r, turn)
  BY DEF HookIngest
<1>3. attention[r].state = "none" /\ r \in tickets
  BY <1>1 DEF RuntimeInv, Presence
<1>4. /\ RowsGrow /\ NoNewClaim
      /\ \A q \in Request : q # r => attention'[q] = attention[q]
      /\ attention'[r].state = "open"
  BY <1>2, <1>3, IngestRequestGrows DEF RuntimeInv
<1>5. /\ UNCHANGED <<byRequest, tickets, channel>>
      /\ \A q \in Request : (IsActive(q)' <=> IsActive(q)) /\ Got(q)' = Got(q)
  BY <1>1 DEF regVars, IsActive, Got
<1>6. /\ hook'[r] = "waiting"
      /\ \A q \in Request : q # r => hook'[q] = hook[q]
  BY DEF HookIngest, RuntimeInv, ThreadTypeOK
<1>7. ThreadTypeOK'
  BY DEF HookIngest, RuntimeInv, ThreadTypeOK, eventVars, HookStep
<1>8. now \in Nat
  BY DEF RuntimeInv, RegInv, RegTypeOK
<1>9. ThreadsKnow'
  <2>1. HookKnows(r)'
    BY <1>6 DEF HookKnows
  <2>2. \A q \in Request : hook[q] # "idle" => hook'[q] # "idle" /\ (IsActive(q)' => IsActive(q))
    BY <1>5, <1>6
  <2>. QED  BY <1>1, <1>4, <1>6, <1>8, <2>1, <2>2, KnowledgeKept DEF ThreadsKnow
<1>10. Presence'
  BY <1>1, <1>3, <1>4, <1>5, <1>6 DEF RuntimeInv, Presence
<1>11. LiveApprovalIsOfThisRuntime'
  BY <1>1, <1>3, <1>4, <1>5 DEF RuntimeInv, LiveApprovalIsOfThisRuntime
<1>12. AwaitedHaveTimers'
  BY <1>1, <1>4, TimersKept
<1>13. DeliveredDecisionWasCommitted' /\ AnsweredQuestionCloses'
  BY <1>1, <1>4, <1>5, DeliveredKept, AnsweredKept
<1>14. BlockedHookIsActionable'
  BY <1>1, <1>4, <1>5, <1>6 DEF RuntimeInv, BlockedHookIsActionable, LiveState
<1>15. [RegNext]_<<now, regVars>> /\ [StoreNext]_<<now, storeVars>>
  BY <1>1, <1>2 DEF StoreNext, StoreStep
<1>. QED  BY <1>4, <1>7, <1>9, <1>10, <1>11, <1>12, <1>13, <1>14, <1>15, PartsMakeStep
          DEF RowsGrow

-----------------------------------------------------------------------------
(* Steps of the other threads *)

\* A step at which no hook's thread moves.
LEMMA OtherThreadStep ==
  ASSUME RuntimeInv, [RegNext]_<<now, regVars>>, [StoreNext]_<<now, storeVars>>,
         RowsGrow, NoNewItem, UNCHANGED <<now, up, tickets, hookVars>>, ThreadTypeOK',
         \A r \in Request : IsActive(r)' => IsActive(r),
         \A c \in Command : api'[c] = api[c] \/ ApiKnows(c)',
         \A c \in Command : timer'[c] = timer[c] \/ TimerKnows(c)',
         \A r \in sweep' : r \in sweep \/ Gone(r)',
         \A r \in Request, d \in Decision : d \in Got(r)' =>
           \/ d \in Got(r)
           \/ \E c \in Command : /\ timer[c].step = "decide" /\ timer[c].request = r
                                 /\ DecisionOf(timer[c].action) = d,
         \A r \in Request :
           KindOf[r] = "approval" /\ IsActive(r)' => (Held(r) => Held(r)'),
         AwaitedHaveTimers', AnsweredQuestionCloses'
  PROVE  StepOK
<1>1. now \in Nat
  BY DEF RuntimeInv, RegInv, RegTypeOK
<1>2. UNCHANGED <<hook, replacing, reply>>
  BY DEF hookVars
<1>3. DeliveredDecisionWasCommitted'
  BY <1>2, DeliveredKept
<1>4. BlockedHookIsActionable'
  BY <1>2, BlockedKept
<1>. QED  BY <1>1, <1>2, <1>3, <1>4, ThreadStep

\* A provider event keeps the hooks of the items it settles in its list.
LEMMA EventIngests ==
  ASSUME RuntimeInv, NEW e \in Event, EventIngest(e)
  PROVE  StepOK
<1>1. /\ event[e] = "idle" /\ release[e] = {}
      /\ UNCHANGED <<now, regVars, up, hookVars, api, timer, sweep>>
  BY DEF EventIngest, RuntimeInv, ThreadTypeOK
<1>2. PICK turn \in Turn, R \in SUBSET Request :
        /\ IngestEvent(EventKindOf[e], EventToolOf[e], turn, R)
        /\ release' = [release EXCEPT ![e] = R]
        /\ event' = [event EXCEPT ![e] = IF R = {} THEN "done" ELSE "release"]
  BY DEF EventIngest
<1>3. EventKindOf[e] \in EventKind /\ EventToolOf[e] \in Tool
  BY RuntimeAssumption
<1>4. /\ RowsGrow /\ NoNewItem /\ NoNewClaim
      /\ \A r \in Request \ R : attention'[r] = attention[r]
  BY <1>1, <1>2, <1>3, IngestEventGrows DEF RuntimeInv
<1>5. /\ tickets' = tickets
      /\ \A q \in Request : (IsActive(q)' <=> IsActive(q)) /\ Got(q)' = Got(q)
  BY <1>1 DEF regVars, IsActive, Got
<1>6. ThreadTypeOK'
  BY <1>1, <1>2 DEF EventIngest, RuntimeInv, ThreadTypeOK, hookVars
<1>7. ASSUME NEW r \in Request, Held(r)
      PROVE  Held(r)'
  <2>1. release'[e] = R /\ \A f \in Event : f # e => release'[f] = release[f]
    BY <1>2 DEF RuntimeInv, ThreadTypeOK
  <2>2. CASE r \in R
    BY <2>1, <2>2 DEF Held
  <2>3. CASE r \notin R
    BY <1>1, <1>4, <1>7, <2>1, <2>3 DEF Held
  <2>. QED  BY <2>2, <2>3
<1>8. AwaitedHaveTimers' /\ AnsweredQuestionCloses'
  BY <1>1, <1>4, <1>5, TimersKept, AnsweredKept
<1>9. [StoreNext]_<<now, storeVars>>
  <2>1. R \in Handled(EventKindOf[e], EventToolOf[e], turn)
    BY <1>2 DEF IngestEvent
  <2>. QED  BY <1>1, <1>2, <1>3, <2>1 DEF StoreNext, StoreStep
<1>. QED  BY <1>1, <1>4, <1>5, <1>6, <1>7, <1>8, <1>9, OtherThreadStep

\* Its list is worked off, newest first.
LEMMA EventReleases ==
  ASSUME RuntimeInv, NEW e \in Event, EventRelease(e)
  PROVE  StepOK
<1>1. UNCHANGED <<now, storeVars, up, hookVars, api, timer, sweep>>
  BY DEF EventRelease
<1>2. PICK r \in Newest(release[e]) :
        /\ TryResolve(r, "pass_through")
        /\ release' = [release EXCEPT ![e] = @ \ {r}]
        /\ event' = [event EXCEPT ![e] = IF release[e] = {r} THEN "done" ELSE @]
  BY DEF EventRelease
<1>3. r \in release[e] /\ r \in Request /\ "pass_through" \in Response
  BY <1>2 DEF Newest, RuntimeInv, ThreadTypeOK, Response
<1>4. RowsGrow /\ NoNewItem /\ NoNewClaim
  BY <1>1, UnchangedRowsGrow DEF RuntimeInv
<1>5. /\ tickets' = tickets /\ ~IsActive(r)'
      /\ \A q \in Request : IsActive(q)' => IsActive(q)
      /\ \A q \in Request : Got(q)' \subseteq Got(q) \cup {"pass_through"}
  <2>1. /\ tickets' = tickets /\ ~IsActive(r)'
        /\ \A q \in Request : IsActive(q)' => IsActive(q)
        /\ Got(r)' \subseteq Got(r) \cup {"pass_through"}
        /\ \A q \in Request : q # r => channel'[q] = channel[q]
    BY <1>2, <1>3, TryResolveFrees DEF RuntimeInv
  <2>. QED  BY <2>1 DEF Got
<1>6. ThreadTypeOK'
  BY <1>1, <1>2, <1>3 DEF EventRelease, RuntimeInv, ThreadTypeOK, hookVars
<1>7. ASSUME NEW q \in Request, IsActive(q)', Held(q)
      PROVE  Held(q)'
  <2>1. q # r
    BY <1>5, <1>7
  <2>2. \A f \in Event : q \in release[f] => q \in release'[f]
    BY <1>2, <2>1 DEF RuntimeInv, ThreadTypeOK
  <2>. QED  BY <1>1, <1>7, <2>2 DEF Held, storeVars
<1>8. AwaitedHaveTimers' /\ AnsweredQuestionCloses'
  BY <1>1, <1>4, <1>5, TimersKept, AnsweredKept
<1>9. [RegNext]_<<now, regVars>>
  BY <1>1, <1>2, <1>3, TryResolveIsRegStep
<1>. QED  BY <1>1, <1>4, <1>5, <1>6, <1>7, <1>8, <1>9, OtherThreadStep DEF Decision

-----------------------------------------------------------------------------
(* Steps of the HTTP handlers *)

\* A handler's step, seen by everything but its own knowledge: it leaves the
\* tasks alone and acknowledges what it answered.
ApiOnly(c) ==
  /\ UNCHANGED <<now, up, hookVars, eventVars, sweep>>
  /\ \A d \in Command : d # c => api'[d] = api[d]

LEMMA ApiOnlyKeepsInv ==
  ASSUME RuntimeInv, NEW c \in Command, ApiOnly(c), ApiKnows(c)', ThreadTypeOK',
         UNCHANGED timer, tickets' = tickets,
         [RegNext]_<<now, regVars>>, [StoreNext]_<<now, storeVars>>,
         RowsGrow, NoNewItem, NoNewClaim,
         \A q \in Request : IsActive(q)' => IsActive(q),
         \A q \in Request : \A d \in Decision : d \in Got(q)' => d \in Got(q),
         \A q \in Request : "answer" \in Got(q)' =>
           "answer" \in Got(q) \/ (api'[c].step = "ack" /\ api'[c].request = q),
         api[c].step = "ack" => attention'[api[c].request].state \in SettledState,
         \A q \in Request :
           KindOf[q] = "approval" /\ IsActive(q)' /\ attention[q].state \in LiveState =>
             Held(q)',
         \A q \in Request :
           api[c].step = "pass_through" /\ api[c].request = q => ~IsActive(q)'
  PROVE  StepOK
<1>1. /\ UNCHANGED <<release, sweep, now, up>>
      /\ \A d \in Command : d # c => api'[d] = api[d]
  BY DEF ApiOnly, eventVars
<1>2. AwaitedHaveTimers'
  BY <1>1, TimersKept
<1>3. AnsweredQuestionCloses'
  BY <1>1, AnsweredKept
<1>4. ASSUME NEW q \in Request, KindOf[q] = "approval", IsActive(q)', Held(q)
      PROVE  Held(q)'
  <2>1. CASE attention[q].state \in LiveState
    BY <1>4, <2>1
  <2>2. CASE \E e \in Event : q \in release[e]
    BY <1>1, <2>2 DEF Held
  <2>3. CASE \E d \in Command : api[d].step = "pass_through" /\ api[d].request = q
    BY <1>1, <1>4, <2>3 DEF Held
  <2>. QED  BY <1>4, <2>1, <2>2, <2>3 DEF Held
<1>. QED  BY <1>1, <1>2, <1>3, <1>4, OtherThreadStep DEF ApiOnly

\* The handlers that read, and go on to act on what they have read.
LEMMA ApiReads ==
  ASSUME RuntimeInv, NEW c \in Command, NEW r \in Request,
         \/ \E action \in ApprovalAction : ApiCommand(c, r, action)
         \/ \E step \in {"answer", "native"} : ApiAnswer(c, r, step)
  PROVE  StepOK
<1>1. /\ UNCHANGED <<now, regVars, storeVars, up, crashes, hookVars, eventVars, timer, sweep>>
      /\ api[c].step = "idle" /\ attention[r].state # "none"
  BY DEF ApiCommand, ApiAnswer
<1>2. RowsGrow /\ NoNewItem /\ NoNewClaim
  BY <1>1, UnchangedRowsGrow DEF RuntimeInv
<1>3. /\ tickets' = tickets
      /\ \A q \in Request : (IsActive(q)' <=> IsActive(q)) /\ Got(q)' = Got(q)
      /\ UNCHANGED <<attention, hook>>
  BY <1>1 DEF regVars, storeVars, hookVars, IsActive, Got
<1>4. ApiOnly(c)
  BY <1>1 DEF ApiOnly, ApiCommand, ApiAnswer, RuntimeInv, ThreadTypeOK
<1>5. now \in Nat /\ hook[r] # "idle"
  BY <1>1 DEF RuntimeInv, RegInv, RegTypeOK, Presence
<1>6. ThreadTypeOK'
  <2>1. api' \in [Command -> [step : ApiStep, request : Request \cup {None},
                              action : ApprovalAction \cup {None}, at : Nat]]
    <3>1. CASE \E action \in ApprovalAction : ApiCommand(c, r, action)
      BY <1>5, <3>1 DEF ApiCommand, RuntimeInv, ThreadTypeOK, ApiStep
    <3>2. CASE \E step \in {"answer", "native"} : ApiAnswer(c, r, step)
      <4>1. PICK step \in {"answer", "native"} :
              api' = [api EXCEPT ![c].step = step, ![c].request = r]
        BY <3>2 DEF ApiAnswer
      <4>2. api' = [api EXCEPT ![c] = [@ EXCEPT !.step = step, !.request = r]]
        BY <4>1 DEF RuntimeInv, ThreadTypeOK
      <4>3. /\ api \in [Command -> [step : ApiStep, request : Request \cup {None},
                                     action : ApprovalAction \cup {None}, at : Nat]]
            /\ step \in ApiStep
        BY DEF RuntimeInv, ThreadTypeOK, ApiStep
      <4>. QED  BY <4>2, <4>3
    <3>. QED  BY <3>1, <3>2
  <2>. QED  BY <1>1, <2>1 DEF RuntimeInv, ThreadTypeOK, hookVars, eventVars
<1>7. ApiKnows(c)'
  <2>1. CASE \E action \in ApprovalAction : ApiCommand(c, r, action)
    <3>1. PICK action \in ApprovalAction : ApiCommand(c, r, action)
      BY <2>1
    <3>2. api'[c] = [step |-> IF KindOf[r] = "approval" /\ IsActive(r) THEN "claim" ELSE "stale",
                     request |-> r, action |-> action, at |-> now]
      BY <3>1 DEF ApiCommand, RuntimeInv, ThreadTypeOK
    <3>3. /\ api'[c].request = r /\ api'[c].action = action /\ api'[c].at = now
          /\ api'[c].step =
               (IF KindOf[r] = "approval" /\ IsActive(r) THEN "claim" ELSE "stale")
      BY <3>2
    <3>4. now' = now
      BY <1>1
    <3>. QED  BY <1>3, <1>5, <3>3, <3>4 DEF ApiKnows, Gone
  <2>2. CASE \E step \in {"answer", "native"} : ApiAnswer(c, r, step)
    <3>1. /\ api'[c].step \in {"answer", "native"} /\ api'[c].request = r
          /\ KindOf[r] = "question"
      BY <2>2 DEF ApiAnswer, RuntimeInv, ThreadTypeOK
    <3>. QED  BY <1>1, <1>3, <1>5, <3>1 DEF ApiKnows
  <2>. QED  BY <2>1, <2>2
<1>8. \A q \in Request : attention[q].state \in LiveState => Held(q)'
  BY <1>3 DEF Held
<1>. QED  BY <1>1, <1>2, <1>3, <1>4, <1>6, <1>7, <1>8, ApiOnlyKeepsInv

\* A stale command expires an approval whose hook was found gone.
LEMMA ApiExpiresStale ==
  ASSUME RuntimeInv, NEW c \in Command, ApiExpireStale(c)
  PROVE  StepOK
<1> DEFINE r == api[c].request
<1>1. /\ ExpireApproval(r) /\ api[c].step = "stale"
      /\ UNCHANGED <<now, regVars, up, hookVars, eventVars, timer, sweep>>
  BY DEF ApiExpireStale
<1>2. r \in Request /\ (KindOf[r] = "approval" => Gone(r))
  BY <1>1 DEF RuntimeInv, ThreadsKnow, ApiKnows
<1>3. /\ RowsGrow /\ NoNewItem /\ NoNewClaim
      /\ \A q \in Request : q # r => attention'[q] = attention[q]
  BY <1>1, <1>2, ExpireGrows DEF RuntimeInv
<1>4. /\ tickets' = tickets
      /\ \A q \in Request : (IsActive(q)' <=> IsActive(q)) /\ Got(q)' = Got(q)
  BY <1>1 DEF regVars, IsActive, Got
<1>5. ApiOnly(c) /\ api'[c] = ApiDone
  BY DEF ApiOnly, ApiExpireStale, RuntimeInv, ThreadTypeOK
<1>6. ThreadTypeOK'
  BY DEF ApiExpireStale, ApiDone, ApiIdle, ApiStep, RuntimeInv, ThreadTypeOK, hookVars, eventVars
<1>7. ApiKnows(c)'
  BY <1>5 DEF ApiKnows, ApiDone, ApiIdle
<1>8. \A q \in Request :
        KindOf[q] = "approval" /\ IsActive(q)' /\ attention[q].state \in LiveState => Held(q)'
  BY <1>2, <1>3, <1>4 DEF Held, Gone
<1>9. [RegNext]_<<now, regVars>> /\ [StoreNext]_<<now, storeVars>>
  BY <1>1, <1>2, ExpireIsStoreStep
<1>. QED  BY <1>1, <1>3, <1>4, <1>5, <1>6, <1>7, <1>8, <1>9, ApiOnlyKeepsInv

\* A claim that decides gets its task with the same step, one that passes
\* through keeps the hook held until it is let go.
LEMMA ApiClaims ==
  ASSUME RuntimeInv, NEW c \in Command, ApiClaim(c)
  PROVE  StepOK
<1>1. PICK r \in Request, action \in ApprovalAction, at \in Nat :
        /\ r = api[c].request /\ action = api[c].action /\ at = api[c].at
        /\ at <= now /\ KindOf[r] = "approval" /\ hook[r] # "idle"
  BY DEF ApiClaim, RuntimeInv, ThreadsKnow, ApiKnows, ThreadTypeOK
<1> DEFINE created == Claims(c, r, at)
           decides == DecisionOf(action) # None
           task == [step |-> "sleeping", request |-> r, action |-> action,
                    wake |-> now + CommitDelay, active |-> FALSE]
<1>2. /\ up /\ api[c].step = "claim" /\ Claim(c, r, action, at)
      /\ api' = [api EXCEPT ![c] =
           IF created /\ ~decides THEN [@ EXCEPT !.step = "pass_through"] ELSE ApiDone]
      /\ timer' = IF created /\ decides THEN [timer EXCEPT ![c] = task] ELSE timer
      /\ UNCHANGED <<now, regVars, up, crashes, hookVars, eventVars, sweep>>
  BY <1>1 DEF ApiClaim
<1>3. /\ now \in Nat /\ now + CommitDelay \in Nat
      /\ decides => action \in {"approve", "deny"}
      /\ ~decides => action = "pass_through"
  BY TimeAssumption, RuntimeAssumption
     DEF RuntimeInv, RegInv, RegTypeOK, DecisionOf, Decision, ApprovalAction
<1> HIDE DEF created, decides, task
<1>4. /\ RowsGrow /\ NoNewItem
      /\ \A d \in Command : Awaited(d)' => Awaited(d) \/ (d = c /\ created)
      /\ \A q \in Request : q # r => attention'[q] = attention[q]
  BY <1>1, <1>2, ClaimGrows DEF RuntimeInv, created
<1>5. /\ tickets' = tickets
      /\ \A q \in Request : (IsActive(q)' <=> IsActive(q)) /\ Got(q)' = Got(q)
  BY <1>2 DEF regVars, IsActive, Got
<1>6. created =>
        /\ commands'[c].state \in {"passed_through", "pending_commit"}
        /\ commands'[c].state = "pending_commit" <=> action # "pass_through"
        /\ commands'[c].request = r /\ commands'[c].action = action
        /\ action # "pass_through" => attention'[r].state = "committing"
  BY <1>2 DEF created, Claim, RuntimeInv, StoreInv, StoreTypeOK, AttentionRow
<1>7. ~created => attention' = attention
  BY <1>2 DEF created, Claim, storeVars
<1>8. /\ api'[c].step \in {"pass_through", "done"}
      /\ api'[c].step = "pass_through" => api'[c].request = r
      /\ created /\ ~decides => api'[c].step = "pass_through"
      /\ \A d \in Command : d # c => api'[d] = api[d]
  BY <1>1, <1>2 DEF ApiDone, ApiIdle, RuntimeInv, ThreadTypeOK
<1>9. /\ created /\ decides => timer'[c] = task
      /\ ~(created /\ decides) => timer'[c] = timer[c]
      /\ \A d \in Command : d # c => timer'[d] = timer[d]
  BY <1>2 DEF RuntimeInv, ThreadTypeOK
<1>10. /\ task.step = "sleeping" /\ task.request = r /\ task.action = action
       /\ task \in [step : TimerStep, request : Request \cup {None},
                    action : ApprovalAction \cup {None}, wake : Nat, active : BOOLEAN]
  BY <1>1, <1>3 DEF task, TimerStep
<1>11. ThreadTypeOK'
  <2>1. api' \in [Command -> [step : ApiStep, request : Request \cup {None},
                              action : ApprovalAction \cup {None}, at : Nat]]
    BY <1>2 DEF ApiDone, ApiIdle, ApiStep, RuntimeInv, ThreadTypeOK
  <2>2. timer' \in [Command -> [step : TimerStep, request : Request \cup {None},
                                action : ApprovalAction \cup {None}, wake : Nat,
                                active : BOOLEAN]]
    BY <1>2, <1>10 DEF RuntimeInv, ThreadTypeOK
  <2>. QED  BY <1>2, <2>1, <2>2 DEF RuntimeInv, ThreadTypeOK, hookVars, eventVars
<1>12. UNCHANGED hook
  BY <1>2 DEF hookVars
<1>13. ApiKnows(c)'
  BY <1>1, <1>8, <1>12 DEF ApiKnows
<1>14. timer'[c] = timer[c] \/ TimerKnows(c)'
  BY <1>1, <1>3, <1>6, <1>9, <1>10, <1>12 DEF TimerKnows
<1>15. AwaitedHaveTimers'
  <2>1. ASSUME NEW d \in Command, Awaited(d)'
        PROVE  timer'[d].step \in {"sleeping", "commit"}
    <3>1. CASE d = c /\ created
      BY <1>3, <1>6, <1>9, <1>10, <2>1, <3>1 DEF Awaited
    <3>2. CASE ~(d = c /\ created)
      BY <1>2, <1>4, <1>9, <2>1, <3>2 DEF RuntimeInv, AwaitedHaveTimers
    <3>. QED  BY <3>1, <3>2
  <2>. QED  BY <2>1 DEF AwaitedHaveTimers
<1>16. AnsweredQuestionCloses'
  BY <1>2, <1>4, <1>5, <1>8, AnsweredKept
<1>17. ASSUME NEW q \in Request, Held(q)
       PROVE  Held(q)'
  <2>1. CASE q = r /\ created
    BY <1>3, <1>6, <1>8, <2>1 DEF Held, LiveState
  <2>2. CASE ~(q = r /\ created)
    BY <1>2, <1>4, <1>7, <1>8, <1>17, <2>2 DEF Held, eventVars
  <2>. QED  BY <2>1, <2>2
<1>18. [RegNext]_<<now, regVars>> /\ [StoreNext]_<<now, storeVars>>
  <2>1. at \in 0..now
    BY <1>1, <1>3
  <2>. QED  BY <1>1, <1>2, <2>1 DEF StoreNext, StoreStep, DecisionStep
<1>. QED  BY <1>2, <1>4, <1>5, <1>8, <1>9, <1>11, <1>13, <1>14, <1>15, <1>16, <1>17, <1>18,
          OtherThreadStep

\* A hook whose item was passed through is let go.
LEMMA ApiPassesThrough ==
  ASSUME RuntimeInv, NEW c \in Command, ApiPassThrough(c)
  PROVE  StepOK
<1>1. PICK r \in Request : r = api[c].request
  BY DEF ApiPassThrough, RuntimeInv, ThreadsKnow, ApiKnows
<1>2. /\ api[c].step = "pass_through" /\ TryResolve(r, "pass_through")
      /\ UNCHANGED <<now, storeVars, up, crashes, hookVars, eventVars, timer, sweep>>
      /\ api'[c] = ApiDone /\ \A d \in Command : d # c => api'[d] = api[d]
  BY <1>1 DEF ApiPassThrough, RuntimeInv, ThreadTypeOK
<1>3. RowsGrow /\ NoNewItem /\ NoNewClaim
  BY <1>2, UnchangedRowsGrow DEF RuntimeInv
<1>4. /\ tickets' = tickets /\ ~IsActive(r)'
      /\ \A q \in Request : IsActive(q)' => IsActive(q)
      /\ \A q \in Request : Got(q)' \subseteq Got(q) \cup {"pass_through"}
  <2>1. "pass_through" \in Response
    BY DEF Response
  <2>2. /\ tickets' = tickets /\ ~IsActive(r)'
        /\ \A q \in Request : IsActive(q)' => IsActive(q)
        /\ Got(r)' \subseteq Got(r) \cup {"pass_through"}
        /\ \A q \in Request : q # r => channel'[q] = channel[q]
    BY <1>2, <2>1, TryResolveFrees DEF RuntimeInv
  <2>. QED  BY <2>2 DEF Got
<1>5. ApiOnly(c)
  BY <1>2 DEF ApiOnly
<1>6. ThreadTypeOK'
  BY <1>2 DEF ApiPassThrough, ApiDone, ApiIdle, ApiStep, RuntimeInv, ThreadTypeOK, hookVars,
     eventVars
<1>7. ApiKnows(c)'
  BY <1>2 DEF ApiKnows, ApiDone, ApiIdle
<1>8. \A q \in Request : attention[q].state \in LiveState => Held(q)'
  BY <1>2 DEF Held, storeVars
<1>9. [RegNext]_<<now, regVars>>
  BY <1>2, TryResolveIsRegStep
<1>10. \A q \in Request : api[c].step = "pass_through" /\ api[c].request = q => ~IsActive(q)'
  BY <1>1, <1>4
<1>11. \A q \in Request : \A d \in Decision : d \in Got(q)' => d \in Got(q)
  BY <1>4 DEF Decision
<1>12. \A q \in Request : "answer" \in Got(q)' => "answer" \in Got(q)
  BY <1>4
<1>. QED  BY <1>2, <1>3, <1>4, <1>5, <1>6, <1>7, <1>8, <1>9, <1>10, <1>11, <1>12,
          ApiOnlyKeepsInv

\* An item that is no approval is acted on in one transaction.
LEMMA ApiActs ==
  ASSUME RuntimeInv, NEW c \in Command, NEW r \in Request, NEW action \in AttentionAction,
         ApiAct(c, r, action)
  PROVE  StepOK
<1>1. /\ api[c].step = "idle" /\ ActOnAttention(c, r, action)
      /\ UNCHANGED <<now, regVars, up, crashes, hookVars, eventVars, timer, sweep>>
      /\ api'[c] = ApiDone /\ \A d \in Command : d # c => api'[d] = api[d]
  BY DEF ApiAct, RuntimeInv, ThreadTypeOK
<1>2. /\ RowsGrow /\ NoNewItem /\ NoNewClaim /\ KindOf[r] # "approval"
      /\ \A q \in Request : q # r => attention'[q] = attention[q]
  BY <1>1, ActGrows DEF RuntimeInv
<1>3. /\ tickets' = tickets
      /\ \A q \in Request : (IsActive(q)' <=> IsActive(q)) /\ Got(q)' = Got(q)
  BY <1>1 DEF regVars, IsActive, Got
<1>4. ApiOnly(c)
  BY <1>1 DEF ApiOnly
<1>5. ThreadTypeOK'
  BY <1>1 DEF ApiAct, ApiDone, ApiIdle, ApiStep, RuntimeInv, ThreadTypeOK, hookVars, eventVars
<1>6. ApiKnows(c)'
  BY <1>1 DEF ApiKnows, ApiDone, ApiIdle
<1>7. \A q \in Request : KindOf[q] = "approval" /\ attention[q].state \in LiveState => Held(q)'
  BY <1>2 DEF Held
<1>8. [RegNext]_<<now, regVars>> /\ [StoreNext]_<<now, storeVars>>
  BY <1>1 DEF StoreNext, StoreStep, DecisionStep
<1>. QED  BY <1>1, <1>2, <1>3, <1>4, <1>5, <1>6, <1>7, <1>8, ApiOnlyKeepsInv

\* An answer, or a hand-back to the provider's own interface, reaches the hook
\* if it is still there; the handler that delivered it goes on to acknowledge.
LEMMA ApiDeliversAnswer ==
  ASSUME RuntimeInv, NEW c \in Command, ApiDeliverAnswer(c)
  PROVE  StepOK
<1>1. PICK r \in Request, response \in {"answer", "pass_through"} :
        /\ r = api[c].request /\ KindOf[r] = "question" /\ hook[r] # "idle"
        /\ attention[r].state # "none" /\ TryResolve(r, response)
        /\ api' = [api EXCEPT ![c].step = IF IsActive(r) THEN "ack" ELSE "stale"]
  BY DEF ApiDeliverAnswer, RuntimeInv, ThreadsKnow, ApiKnows
<1>2. /\ api[c].step \in {"answer", "native"}
      /\ UNCHANGED <<now, storeVars, up, crashes, hookVars, eventVars, timer, sweep>>
      /\ api'[c].step = (IF IsActive(r) THEN "ack" ELSE "stale")
      /\ api'[c].request = r
      /\ \A d \in Command : d # c => api'[d] = api[d]
  BY <1>1 DEF ApiDeliverAnswer, RuntimeInv, ThreadTypeOK
<1>3. RowsGrow /\ NoNewItem /\ NoNewClaim
  BY <1>2, UnchangedRowsGrow DEF RuntimeInv
<1>4. /\ tickets' = tickets
      /\ \A q \in Request : IsActive(q)' => IsActive(q)
      /\ Got(r)' \subseteq Got(r) \cup {response}
      /\ \A q \in Request : q # r \/ ~IsActive(r) => Got(q)' = Got(q)
  <2>1. response \in Response
    BY DEF Response
  <2>2. /\ tickets' = tickets
        /\ \A q \in Request : IsActive(q)' => IsActive(q)
        /\ Got(r)' \subseteq Got(r) \cup {response}
        /\ \A q \in Request : q # r \/ ~IsActive(r) => channel'[q] = channel[q]
    BY <1>1, <2>1, TryResolveFrees DEF RuntimeInv
  <2>. QED  BY <2>2 DEF Got
<1>5. ApiOnly(c)
  BY <1>2 DEF ApiOnly
<1>6. ThreadTypeOK'
  <2>1. api' \in [Command -> [step : ApiStep, request : Request \cup {None},
                              action : ApprovalAction \cup {None}, at : Nat]]
    <3>1. PICK step \in ApiStep : api' = [api EXCEPT ![c].step = step]
      BY <1>1 DEF ApiStep
    <3>2. api \in [Command -> [step : ApiStep, request : Request \cup {None},
                                action : ApprovalAction \cup {None}, at : Nat]]
      BY DEF RuntimeInv, ThreadTypeOK
    <3>3. [api[c] EXCEPT !.step = step]
            \in [step : ApiStep, request : Request \cup {None},
                 action : ApprovalAction \cup {None}, at : Nat]
      BY <3>2
    <3>. QED  BY <3>1, <3>2, <3>3
  <2>. QED  BY <1>2, <2>1 DEF RuntimeInv, ThreadTypeOK, hookVars, eventVars
<1>7. UNCHANGED <<hook, attention>>
  BY <1>2 DEF hookVars, storeVars
<1>8. ApiKnows(c)'
  BY <1>1, <1>2, <1>7 DEF ApiKnows
<1>9. \A q \in Request : attention[q].state \in LiveState => Held(q)'
  BY <1>7 DEF Held
<1>10. [RegNext]_<<now, regVars>>
  <2>1. r \in Interactive
    BY <1>1, RuntimeAssumption
  <2>. QED  BY <1>1, <1>2, <2>1, TryResolveIsRegStep
<1>11. \A q \in Request : \A d \in Decision : d \in Got(q)' => d \in Got(q)
  BY <1>4 DEF Decision
<1>12. \A q \in Request : "answer" \in Got(q)' =>
         "answer" \in Got(q) \/ (api'[c].step = "ack" /\ api'[c].request = q)
  BY <1>2, <1>4
<1>. QED  BY <1>2, <1>3, <1>4, <1>5, <1>6, <1>8, <1>9, <1>10, <1>11, <1>12, ApiOnlyKeepsInv

\* An acknowledgement settles its question, unless something else has.
LEMMA ApiAcks ==
  ASSUME RuntimeInv, NEW c \in Command, ApiAck(c)
  PROVE  StepOK
<1>1. PICK r \in Request :
        r = api[c].request /\ KindOf[r] = "question" /\ attention[r].state # "none"
  BY DEF ApiAck, RuntimeInv, ThreadsKnow, ApiKnows
<1>2. /\ api[c].step = "ack"
      /\ IF Actionable(r) THEN ActOnAttention(c, r, "ack") ELSE UNCHANGED storeVars
      /\ UNCHANGED <<now, regVars, up, crashes, hookVars, eventVars, timer, sweep>>
      /\ api'[c] = ApiDone /\ \A d \in Command : d # c => api'[d] = api[d]
  BY <1>1 DEF ApiAck, RuntimeInv, ThreadTypeOK
<1>3. "ack" \in AttentionAction
  BY DEF AttentionAction
<1>4. /\ RowsGrow /\ NoNewItem /\ NoNewClaim
      /\ \A q \in Request : q # r => attention'[q] = attention[q]
  <2>1. CASE Actionable(r)
    BY <1>2, <1>3, <2>1, ActGrows DEF RuntimeInv
  <2>2. CASE ~Actionable(r)
    BY <1>2, <2>2, UnchangedRowsGrow DEF RuntimeInv, storeVars
  <2>. QED  BY <2>1, <2>2
<1>5. attention'[r].state \in SettledState
  <2>1. CASE Actionable(r)
    <3>1. attention'[r] = [attention[r] EXCEPT !.state = "resolved", !.resolution = "ack",
                                               !.expiresAt = None]
      BY <1>2, <2>1 DEF ActOnAttention, RuntimeInv, StoreInv, StoreTypeOK
    <3>2. attention[r] \in AttentionRow
      BY DEF RuntimeInv, StoreInv, StoreTypeOK
    <3>. QED  BY <3>1, <3>2 DEF AttentionRow, SettledState
  <2>2. CASE ~Actionable(r)
    BY <1>1, <1>2, <2>2 DEF Actionable, RuntimeInv, KindsKeepStates, storeVars
  <2>. QED  BY <2>1, <2>2
<1>6. /\ tickets' = tickets
      /\ \A q \in Request : (IsActive(q)' <=> IsActive(q)) /\ Got(q)' = Got(q)
  BY <1>2 DEF regVars, IsActive, Got
<1>7. ApiOnly(c)
  BY <1>2 DEF ApiOnly
<1>8. ThreadTypeOK'
  BY <1>2 DEF ApiAck, ApiDone, ApiIdle, ApiStep, RuntimeInv, ThreadTypeOK, hookVars, eventVars
<1>9. ApiKnows(c)'
  BY <1>2 DEF ApiKnows, ApiDone, ApiIdle
<1>10. \A q \in Request : KindOf[q] = "approval" /\ attention[q].state \in LiveState => Held(q)'
  BY <1>1, <1>4 DEF Held
<1>11. [RegNext]_<<now, regVars>> /\ [StoreNext]_<<now, storeVars>>
  BY <1>1, <1>2, <1>3 DEF StoreNext, StoreStep, DecisionStep
<1>. QED  BY <1>1, <1>2, <1>4, <1>5, <1>6, <1>7, <1>8, <1>9, <1>10, <1>11, ApiOnlyKeepsInv

\* Undo and snapshot only write rows.
LEMMA ApiWritesRows ==
  ASSUME RuntimeInv, ApiSnapshot \/ \E c \in Command : ApiUndo(c)
  PROVE  StepOK
<1>1. UNCHANGED <<now, regVars, up, crashes, hook, replacing, reply, event, release, api,
                  timer, sweep>>
  BY DEF ApiSnapshot, ApiUndo, threadVars
<1>2. /\ RowsGrow /\ NoNewItem /\ NoNewClaim
      /\ \A q \in Request : attention[q].state \in LiveState => attention'[q].state \in LiveState
      /\ [StoreNext]_<<now, storeVars>>
  <2>1. CASE ApiSnapshot
    <3>1. ReopenDueSnoozed
      BY <2>1 DEF ApiSnapshot
    <3>2. \A q \in Request : attention[q].state \in LiveState => attention'[q] = attention[q]
      BY <3>1 DEF ReopenDueSnoozed, DueSnoozed, LiveState
    <3>. QED  BY <1>1, <3>1, <3>2, ReopenGrows DEF RuntimeInv, StoreNext, StoreStep
  <2>2. CASE \E c \in Command : ApiUndo(c)
    <3>1. PICK c \in Command : Undo(c)
      BY <2>2 DEF ApiUndo
    <3>2. \A q \in Request : attention'[q] = attention[q] \/ attention'[q].state = "open"
      BY <3>1 DEF Undo, RuntimeInv, StoreInv, StoreTypeOK, AttentionRow
    <3>. QED  BY <1>1, <3>1, <3>2, UndoGrows
              DEF RuntimeInv, StoreNext, StoreStep, DecisionStep, LiveState
  <2>. QED  BY <2>1, <2>2
<1>3. /\ tickets' = tickets
      /\ \A q \in Request : (IsActive(q)' <=> IsActive(q)) /\ Got(q)' = Got(q)
  BY <1>1 DEF regVars, IsActive, Got
<1>4. ThreadTypeOK'
  BY <1>1 DEF RuntimeInv, ThreadTypeOK
<1>5. \A q \in Request : Held(q) => Held(q)'
  BY <1>1, <1>2 DEF Held
<1>6. AwaitedHaveTimers' /\ AnsweredQuestionCloses'
  BY <1>1, <1>2, <1>3, TimersKept, AnsweredKept
<1>. QED  BY <1>1, <1>2, <1>3, <1>4, <1>5, <1>6, OtherThreadStep DEF hookVars

-----------------------------------------------------------------------------
(* Steps of the tasks and of the expiry thread *)

\* A step that leaves the handlers and the events' threads alone.
TaskOnly == UNCHANGED <<now, up, crashes, hookVars, eventVars, api>>

LEMMA TaskOnlyKeepsInv ==
  ASSUME RuntimeInv, TaskOnly,
         [RegNext]_<<now, regVars>>, [StoreNext]_<<now, storeVars>>,
         RowsGrow, NoNewItem, NoNewClaim, tickets' = tickets,
         timer' \in [Command -> [step : TimerStep, request : Request \cup {None},
                                 action : ApprovalAction \cup {None}, wake : Nat,
                                 active : BOOLEAN]],
         sweep' \subseteq Request,
         \A q \in Request : IsActive(q)' => IsActive(q),
         \A c \in Command : timer'[c] = timer[c] \/ TimerKnows(c)',
         \A r \in sweep' : r \in sweep \/ Gone(r)',
         \A r \in Request, d \in Decision : d \in Got(r)' =>
           \/ d \in Got(r)
           \/ \E c \in Command : /\ timer[c].step = "decide" /\ timer[c].request = r
                                 /\ DecisionOf(timer[c].action) = d,
         \A q \in Request : "answer" \in Got(q)' => "answer" \in Got(q),
         \A q \in Request :
           KindOf[q] = "approval" /\ IsActive(q)' /\ attention[q].state \in LiveState =>
             attention'[q].state \in LiveState,
         \A c \in Command : timer[c].step \in {"sleeping", "commit"} =>
           timer'[c].step \in {"sleeping", "commit"} \/ ~Awaited(c)'
  PROVE  StepOK
<1>1. UNCHANGED <<now, up, hookVars, release, api>>
  BY DEF TaskOnly, eventVars
<1>2. ThreadTypeOK'
  BY DEF TaskOnly, hookVars, eventVars, RuntimeInv, ThreadTypeOK
<1>3. AwaitedHaveTimers'
  BY <1>1, TimersKept
<1>4. AnsweredQuestionCloses'
  BY <1>1, AnsweredKept
<1>5. \A q \in Request : KindOf[q] = "approval" /\ IsActive(q)' => (Held(q) => Held(q)')
  BY <1>1 DEF Held
<1>. QED  BY <1>1, <1>2, <1>3, <1>4, <1>5, OtherThreadStep

LEMMA TimerWakes ==
  ASSUME RuntimeInv, NEW c \in Command, TimerWake(c)
  PROVE  StepOK
<1>1. /\ timer[c].step = "sleeping"
      /\ UNCHANGED <<now, regVars, storeVars, up, crashes, hookVars, eventVars, api, sweep>>
  BY DEF TimerWake
<1>2. PICK r \in Request : r = timer[c].request /\ hook[r] # "idle"
  BY <1>1 DEF RuntimeInv, ThreadsKnow, TimerKnows
<1>3. timer' = [timer EXCEPT ![c] = [@ EXCEPT !.step = "commit", !.active = IsActive(r)]]
  BY <1>2 DEF TimerWake, RuntimeInv, ThreadTypeOK
<1>4. /\ timer \in [Command -> [step : TimerStep, request : Request \cup {None},
                                action : ApprovalAction \cup {None}, wake : Nat,
                                active : BOOLEAN]]
      /\ TimerKnows(c)
  BY DEF RuntimeInv, ThreadTypeOK, ThreadsKnow
<1>5. IsActive(r) \in BOOLEAN
  BY DEF IsActive
<1>6. /\ timer'[c].step = "commit" /\ timer'[c].request = r
      /\ timer'[c].action = timer[c].action /\ timer'[c].active = IsActive(r)
      /\ \A d \in Command : d # c => timer'[d] = timer[d]
  BY <1>2, <1>3, <1>4
<1>7. timer' \in [Command -> [step : TimerStep, request : Request \cup {None},
                              action : ApprovalAction \cup {None}, wake : Nat,
                              active : BOOLEAN]]
  <2>1. [timer[c] EXCEPT !.step = "commit", !.active = IsActive(r)]
          \in [step : TimerStep, request : Request \cup {None},
               action : ApprovalAction \cup {None}, wake : Nat, active : BOOLEAN]
    BY <1>4, <1>5 DEF TimerStep
  <2>. QED  BY <1>3, <1>4, <2>1
<1>8. RowsGrow /\ NoNewItem /\ NoNewClaim
  BY <1>1, UnchangedRowsGrow DEF RuntimeInv
<1>9. /\ tickets' = tickets /\ UNCHANGED <<hook, attention, commands>>
      /\ \A q \in Request : (IsActive(q)' <=> IsActive(q)) /\ Got(q)' = Got(q)
  BY <1>1 DEF regVars, storeVars, hookVars, IsActive, Got
<1>10. TimerKnows(c)'
  BY <1>1, <1>2, <1>4, <1>6, <1>9 DEF TimerKnows, Gone
<1>11. TaskOnly /\ sweep' \subseteq Request
  BY <1>1 DEF TaskOnly, RuntimeInv, ThreadTypeOK
<1>12. \A d \in Command : timer[d].step \in {"sleeping", "commit"} =>
         timer'[d].step \in {"sleeping", "commit"}
  BY <1>6
<1>. QED  BY <1>1, <1>6, <1>7, <1>8, <1>9, <1>10, <1>11, <1>12, TaskOnlyKeepsInv

\* A commit that is not made, made without a waiter, or found made.
LEMMA TimerCommits ==
  ASSUME RuntimeInv, NEW c \in Command, TimerCommit(c)
  PROVE  StepOK
<1>1. /\ timer[c].step = "commit"
      /\ UNCHANGED <<now, regVars, up, crashes, hookVars, eventVars, api, sweep>>
  BY DEF TimerCommit
<1>2. PICK r \in Request, active \in BOOLEAN :
        /\ r = timer[c].request /\ active = timer[c].active /\ hook[r] # "idle"
        /\ commands[c].state # "none" /\ commands[c].request = r
        /\ timer[c].action \in {"approve", "deny"} /\ commands[c].action = timer[c].action
        /\ ~active => Gone(r)
  BY <1>1 DEF RuntimeInv, ThreadsKnow, TimerKnows, ThreadTypeOK
<1>3. /\ Commit(c, CommitDue(c), active)
      /\ timer' = [timer EXCEPT ![c] =
           IF CommitOk(c, CommitDue(c), active) THEN Decides(@) ELSE TimerDone]
  BY <1>2 DEF TimerCommit
<1>4. /\ timer \in [Command -> [step : TimerStep, request : Request \cup {None},
                                action : ApprovalAction \cup {None}, wake : Nat,
                                active : BOOLEAN]]
      /\ CommitDue(c) \in Nat
  BY TimeAssumption DEF RuntimeInv, ThreadTypeOK, CommitDue, StoreInv, StoreTypeOK, CommandRow
<1>5. /\ timer'[c].step \in {"decide", "done"}
      /\ timer'[c].step = "decide" =>
           /\ CommitOk(c, CommitDue(c), active)
           /\ timer'[c].request = r /\ timer'[c].action = timer[c].action
      /\ \A d \in Command : d # c => timer'[d] = timer[d]
  BY <1>2, <1>3, <1>4 DEF Decides, TimerDone, TimerNone
<1>6. timer' \in [Command -> [step : TimerStep, request : Request \cup {None},
                              action : ApprovalAction \cup {None}, wake : Nat,
                              active : BOOLEAN]]
  <2> DEFINE Tasks == [step : TimerStep, request : Request \cup {None},
                       action : ApprovalAction \cup {None}, wake : Nat, active : BOOLEAN]
  <2>1. Decides(timer[c]) \in Tasks
    BY <1>4 DEF Decides, TimerStep
  <2>2. TimerDone \in Tasks
    BY DEF TimerDone, TimerNone, TimerStep
  <2>. QED  BY <1>3, <1>4, <2>1, <2>2
<1>7. RowsGrow /\ NoNewItem /\ NoNewClaim
  BY <1>1, <1>3, CommitGrows DEF RuntimeInv
<1>8. /\ tickets' = tickets /\ UNCHANGED hook
      /\ \A q \in Request : (IsActive(q)' <=> IsActive(q)) /\ Got(q)' = Got(q)
  BY <1>1 DEF regVars, hookVars, IsActive, Got
<1>9. Committable(c, CommitDue(c)) <=> commands[c].state = "pending_commit"
  BY <1>4 DEF Committable
<1>10. ~Awaited(c)' /\ (CommitOk(c, CommitDue(c), active) => commands'[c].sent)
  BY <1>3, <1>9 DEF Awaited, Commit, CommitOk, storeVars, RuntimeInv, StoreInv, StoreTypeOK,
     CommandRow, CommandRowsAgree
<1>11. timer'[c].step = "decide" => TimerKnows(c)'
  BY <1>2, <1>5, <1>7, <1>8, <1>10 DEF TimerKnows, RowsGrow
<1>12. TimerKnows(c)'
  BY <1>5, <1>11 DEF TimerKnows
<1>13. ASSUME NEW q \in Request, IsActive(q)', attention[q].state \in LiveState
       PROVE  attention'[q].state \in LiveState
  <2>1. CASE Committable(c, CommitDue(c)) /\ ~active
    <3>1. Settles({r})
      BY <1>1, <1>2, <1>3, <1>4, <2>1, CommitWithoutWaiterSettles DEF RuntimeInv
    <3>2. q # r
      BY <1>2, <1>8, <1>13, <2>1 DEF Gone
    <3>. QED  BY <1>13, <3>1, <3>2 DEF Settles
  <2>2. CASE ~(Committable(c, CommitDue(c)) /\ ~active)
    <3>1. \/ attention'[q] = attention[q]
          \/ attention'[q].state = "decision_sent"
      BY <1>3, <2>2 DEF Commit, storeVars, RuntimeInv, StoreInv, StoreTypeOK, AttentionRow
    <3>. QED  BY <1>13, <3>1 DEF LiveState
  <2>. QED  BY <2>1, <2>2
<1>14. [RegNext]_<<now, regVars>> /\ [StoreNext]_<<now, storeVars>>
  BY <1>1, <1>2, <1>3 DEF StoreNext, StoreStep, DecisionStep
<1>15. TaskOnly /\ sweep' \subseteq Request
  BY <1>1 DEF TaskOnly, RuntimeInv, ThreadTypeOK
<1>16. \A d \in Command : timer[d].step \in {"sleeping", "commit"} =>
         timer'[d].step \in {"sleeping", "commit"} \/ ~Awaited(d)'
  BY <1>5, <1>10
<1>. QED  BY <1>1, <1>5, <1>6, <1>7, <1>8, <1>12, <1>13, <1>14, <1>15, <1>16,
          TaskOnlyKeepsInv

\* The decision of a commit that succeeded, and nothing else, goes to the hook.
LEMMA TimerDecides ==
  ASSUME RuntimeInv, NEW c \in Command, TimerDecide(c)
  PROVE  StepOK
<1>1. /\ timer[c].step = "decide"
      /\ UNCHANGED <<now, storeVars, up, crashes, hookVars, eventVars, api, sweep>>
  BY DEF TimerDecide
<1>2. PICK r \in Request :
        r = timer[c].request /\ hook[r] # "idle" /\ timer[c].action \in {"approve", "deny"}
  BY <1>1 DEF RuntimeInv, ThreadsKnow, TimerKnows
<1>3. PICK decision \in Decision : decision = DecisionOf(timer[c].action)
  BY <1>2 DEF Decision, DecisionOf
<1>4. /\ TryResolve(r, decision)
      /\ timer' = [timer EXCEPT ![c] =
           IF IsActive(r) THEN TimerDone ELSE [@ EXCEPT !.step = "undelivered"]]
  BY <1>2, <1>3 DEF TimerDecide
<1>5. /\ timer \in [Command -> [step : TimerStep, request : Request \cup {None},
                                action : ApprovalAction \cup {None}, wake : Nat,
                                active : BOOLEAN]]
      /\ TimerKnows(c)
  BY DEF RuntimeInv, ThreadTypeOK, ThreadsKnow
<1>6. /\ timer'[c].step \in {"undelivered", "done"}
      /\ timer'[c].step = "undelivered" =>
           ~IsActive(r) /\ timer'[c].request = r /\ timer'[c].action = timer[c].action
      /\ \A d \in Command : d # c => timer'[d] = timer[d]
  BY <1>2, <1>4, <1>5 DEF TimerDone, TimerNone
<1>7. timer' \in [Command -> [step : TimerStep, request : Request \cup {None},
                              action : ApprovalAction \cup {None}, wake : Nat,
                              active : BOOLEAN]]
  <2> DEFINE Tasks == [step : TimerStep, request : Request \cup {None},
                       action : ApprovalAction \cup {None}, wake : Nat, active : BOOLEAN]
  <2>1. [timer[c] EXCEPT !.step = "undelivered"] \in Tasks
    BY <1>5 DEF TimerStep
  <2>2. TimerDone \in Tasks
    BY DEF TimerDone, TimerNone, TimerStep
  <2>. QED  BY <1>4, <1>5, <2>1, <2>2
<1>8. RowsGrow /\ NoNewItem /\ NoNewClaim
  BY <1>1, UnchangedRowsGrow DEF RuntimeInv
<1>9. /\ tickets' = tickets /\ ~IsActive(r)'
      /\ \A q \in Request : IsActive(q)' => IsActive(q)
      /\ Got(r)' \subseteq Got(r) \cup {decision}
      /\ \A q \in Request : q # r => Got(q)' = Got(q)
  <2>1. decision \in Response
    BY DEF Response
  <2>2. /\ tickets' = tickets /\ ~IsActive(r)'
        /\ \A q \in Request : IsActive(q)' => IsActive(q)
        /\ Got(r)' \subseteq Got(r) \cup {decision}
        /\ \A q \in Request : q # r => channel'[q] = channel[q]
    BY <1>4, <2>1, TryResolveFrees DEF RuntimeInv
  <2>. QED  BY <2>2 DEF Got
<1>10. UNCHANGED <<hook, attention, commands>>
  BY <1>1 DEF hookVars, storeVars
<1>11. TimerKnows(c)'
  BY <1>1, <1>2, <1>5, <1>6, <1>9, <1>10 DEF TimerKnows, Gone
<1>12. [RegNext]_<<now, regVars>>
  BY <1>1, <1>4, TryResolveIsRegStep
<1>13. TaskOnly /\ sweep' \subseteq Request
  BY <1>1 DEF TaskOnly, RuntimeInv, ThreadTypeOK
<1>14. \A q \in Request, d \in Decision : d \in Got(q)' =>
         \/ d \in Got(q)
         \/ \E t \in Command : /\ timer[t].step = "decide" /\ timer[t].request = q
                               /\ DecisionOf(timer[t].action) = d
  BY <1>1, <1>2, <1>3, <1>9
<1>15. \A q \in Request : "answer" \in Got(q)' => "answer" \in Got(q)
  BY <1>9 DEF Decision
<1>16. \A d \in Command : timer[d].step \in {"sleeping", "commit"} =>
         timer'[d].step \in {"sleeping", "commit"}
  BY <1>1, <1>6
<1>. QED  BY <1>1, <1>6, <1>7, <1>8, <1>9, <1>10, <1>11, <1>12, <1>13, <1>14, <1>15, <1>16,
          TaskOnlyKeepsInv

\* Whoever found a waiter gone expires its item: the task that could not deliver
\* its decision, and the expiry thread.
LEMMA TaskExpires ==
  ASSUME RuntimeInv, SweepStore \/ \E c \in Command : TimerExpire(c)
  PROVE  StepOK
<1>1. PICK r \in Request :
        /\ Gone(r) /\ ExpireApproval(r) /\ sweep' \subseteq sweep
        /\ \/ UNCHANGED timer
           \/ \E c \in Command : /\ timer[c].step = "undelivered"
                                 /\ timer' = [timer EXCEPT ![c] = TimerDone]
  <2>1. CASE SweepStore
    BY <2>1 DEF SweepStore, RuntimeInv, ThreadsKnow, ThreadTypeOK
  <2>2. CASE \E c \in Command : TimerExpire(c)
    BY <2>2 DEF TimerExpire, RuntimeInv, ThreadsKnow, TimerKnows
  <2>. QED  BY <2>1, <2>2
<1>2. UNCHANGED <<now, regVars, up, crashes, hookVars, eventVars, api>>
  BY DEF SweepStore, TimerExpire
<1>3. /\ RowsGrow /\ NoNewItem /\ NoNewClaim
      /\ \A q \in Request : q # r => attention'[q] = attention[q]
  BY <1>1, <1>2, ExpireGrows DEF RuntimeInv
<1>4. /\ tickets' = tickets
      /\ \A q \in Request : (IsActive(q)' <=> IsActive(q)) /\ Got(q)' = Got(q)
  BY <1>2 DEF regVars, IsActive, Got
<1>5. timer' \in [Command -> [step : TimerStep, request : Request \cup {None},
                              action : ApprovalAction \cup {None}, wake : Nat,
                              active : BOOLEAN]]
  <2>1. TimerDone \in [step : TimerStep, request : Request \cup {None},
                       action : ApprovalAction \cup {None}, wake : Nat, active : BOOLEAN]
    BY DEF TimerDone, TimerNone, TimerStep
  <2>. QED  BY <1>1, <2>1 DEF RuntimeInv, ThreadTypeOK
<1>6. \A c \in Command :
        timer'[c] = timer[c] \/ (timer[c].step = "undelivered" /\ timer'[c] = TimerDone)
  BY <1>1 DEF RuntimeInv, ThreadTypeOK
<1>7. \A c \in Command : timer'[c] = timer[c] \/ TimerKnows(c)'
  BY <1>6 DEF TimerKnows, TimerDone, TimerNone
<1>8. \A q \in Request : IsActive(q)' /\ attention[q].state \in LiveState =>
        attention'[q].state \in LiveState
  BY <1>1, <1>3, <1>4 DEF Gone
<1>9. [RegNext]_<<now, regVars>> /\ [StoreNext]_<<now, storeVars>>
  BY <1>1, <1>2, ExpireIsStoreStep
<1>10. TaskOnly /\ sweep' \subseteq Request
  BY <1>1, <1>2 DEF TaskOnly, RuntimeInv, ThreadTypeOK
<1>. QED  BY <1>1, <1>3, <1>4, <1>5, <1>6, <1>7, <1>8, <1>9, <1>10, TaskOnlyKeepsInv

\* The sweep of the registry remembers whom it let go.
LEMMA RegistryIsSwept ==
  ASSUME RuntimeInv, SweepRegistry
  PROVE  StepOK
<1>1. /\ Expire /\ sweep' = Expired
      /\ UNCHANGED <<now, storeVars, up, crashes, hookVars, eventVars, api, timer>>
  BY DEF SweepRegistry
<1>2. RowsGrow /\ NoNewItem /\ NoNewClaim
  BY <1>1, UnchangedRowsGrow DEF RuntimeInv
<1>3. \A q \in Request :
        byRequest'[q] = IF q \in Expired THEN None ELSE byRequest[q]
  BY <1>1 DEF Expire, ByRequestWithout
<1>4. /\ tickets' = tickets
      /\ \A q \in Request : IsActive(q)' => IsActive(q) /\ q \notin Expired
  BY <1>1, <1>3 DEF Expire, IsActive
<1>5. \A q \in Request : Got(q)' \subseteq Got(q) \cup {"pass_through"}
  <2>1. Expired \in SUBSET Request /\ "pass_through" \in Response
    BY DEF Expired, Response
  <2>. QED  BY <1>1, <2>1, ChannelAfterGot DEF Expire, RuntimeInv
<1>6. ASSUME NEW r \in sweep'
      PROVE  Gone(r)'
  <2>1. r \in Request /\ r \in Expired /\ IsActive(r)
    BY <1>1, <1>6 DEF Expired
  <2>2. hook[r] # "idle"
    BY <2>1, OwnTicket DEF RuntimeInv, Presence
  <2>3. ~IsActive(r)'
    BY <1>4, <2>1
  <2>. QED  BY <1>1, <2>2, <2>3 DEF Gone, hookVars
<1>7. [RegNext]_<<now, regVars>>
  BY <1>1 DEF RegNext, RegStep
<1>8. TaskOnly /\ sweep' \subseteq Request
  BY <1>1 DEF TaskOnly, Expired
<1>9. timer' \in [Command -> [step : TimerStep, request : Request \cup {None},
                              action : ApprovalAction \cup {None}, wake : Nat,
                              active : BOOLEAN]]
  BY <1>1 DEF RuntimeInv, ThreadTypeOK
<1>10. \A q \in Request, d \in Decision : d \in Got(q)' => d \in Got(q)
  BY <1>5 DEF Decision
<1>. QED  BY <1>1, <1>2, <1>4, <1>5, <1>6, <1>7, <1>8, <1>9, <1>10, TaskOnlyKeepsInv
          DEF storeVars

-----------------------------------------------------------------------------
(* The process *)

\* A dead process has no waiters and no threads; what it wrote stays.
LEMMA ProcessDies ==
  ASSUME RuntimeInv, Crash
  PROVE  StepOK
<1>1. /\ Restart /\ ~up' /\ UNCHANGED <<now, storeVars>>
      /\ crashes \in Nat /\ crashes' = crashes + 1 /\ crashes < MaxCrashes
      /\ \A r \in Request : /\ hook'[r] = IF hook[r] = "idle" THEN "idle" ELSE "done"
                            /\ reply'[r] = reply[r] \/ reply'[r] = "closed"
      /\ \A c \in Command : api'[c].step \in {"idle", "done"} /\ timer'[c].step = "none"
      /\ sweep' = {}
  BY RuntimeAssumption DEF Crash, ApiDone, ApiIdle, TimerNone, RuntimeInv, ThreadTypeOK
<1>2. RowsGrow
  BY <1>1, UnchangedRowsGrow DEF RuntimeInv
<1>3. ThreadTypeOK'
  <2>1. crashes' \in 0..MaxCrashes
    BY <1>1, RuntimeAssumption
  <2>. QED  BY <2>1 DEF Crash, RuntimeInv, ThreadTypeOK, HookStep, HookReply, ApiStep, TimerStep,
                        ApiDone, ApiIdle, TimerNone
<1>4. ThreadsKnow'
  BY <1>1 DEF ThreadsKnow, HookKnows, ApiKnows, TimerKnows
<1>5. /\ tickets' = {} /\ \A r \in Request : ~IsActive(r)' /\ Got(r)' = {}
  BY <1>1, FreshRequests DEF Restart, IsActive, Got
<1>6. Presence'
  BY <1>1, <1>5 DEF RuntimeInv, Presence, storeVars
<1>7. AwaitedHaveTimers' /\ LiveApprovalIsOfThisRuntime' /\ BlockedHookIsActionable'
  BY <1>1 DEF AwaitedHaveTimers, LiveApprovalIsOfThisRuntime, BlockedHookIsActionable
<1>8. DeliveredDecisionWasCommitted'
  BY <1>1, <1>2, <1>5, DeliveredKept DEF Decision
<1>9. AnsweredQuestionCloses'
  BY <1>5 DEF AnsweredQuestionCloses, Got
<1>10. [RegNext]_<<now, regVars>> /\ [StoreNext]_<<now, storeVars>>
  BY <1>1 DEF RegNext, RegStep
<1>. QED  BY <1>2, <1>3, <1>4, <1>6, <1>7, <1>8, <1>9, <1>10, PartsMakeStep DEF RowsGrow

\* A new process finds no live approval once it has reconciled.
LEMMA ProcessStarts ==
  ASSUME RuntimeInv, Startup
  PROVE  StepOK
<1>1. /\ ~up /\ up' = TRUE /\ ReconcileOrphans({})
      /\ UNCHANGED <<now, regVars, crashes, hook, replacing, reply, event, release, api, timer,
                     sweep>>
  BY DEF Startup, threadVars
<1>2. /\ RowsGrow /\ NoNewItem /\ NoNewClaim
      /\ \A r \in Request : attention'[r].state \notin LiveState
  BY <1>1, ReconcileGrows DEF RuntimeInv
<1>3. /\ tickets' = tickets
      /\ \A q \in Request : (IsActive(q)' <=> IsActive(q)) /\ Got(q)' = Got(q)
  BY <1>1 DEF regVars, IsActive, Got
<1>4. now \in Nat
  BY DEF RuntimeInv, RegInv, RegTypeOK
<1>5. ThreadTypeOK'
  BY <1>1 DEF RuntimeInv, ThreadTypeOK
<1>6. ThreadsKnow'
  BY <1>1, <1>2, <1>3, <1>4, KnowledgeKept DEF ThreadsKnow
<1>7. Presence'
  BY <1>1, <1>2, <1>3 DEF RuntimeInv, Presence, NoNewItem
<1>8. ASSUME NEW c \in Command
      PROVE  ~Awaited(c)'
  <2>1. ASSUME Awaited(c)'
        PROVE  FALSE
    <3>1. commands[c].state = "pending_commit" /\ commands[c].request \in Request
      BY <1>2, <2>1 DEF NoNewClaim, Awaited, RuntimeInv, StoreInv, CommandRowsAgree
    <3>2. commands'[c].request \in Request
      BY <1>2, <3>1 DEF RowsGrow
    <3>. QED  BY <1>2, <2>1, <3>2 DEF Awaited, LiveState
  <2>. QED  BY <2>1
<1>9. AwaitedHaveTimers' /\ LiveApprovalIsOfThisRuntime'
  BY <1>2, <1>8 DEF AwaitedHaveTimers, LiveApprovalIsOfThisRuntime
<1>10. BlockedHookIsActionable'
  BY <1>1 DEF RuntimeInv, Presence, BlockedHookIsActionable
<1>11. DeliveredDecisionWasCommitted' /\ AnsweredQuestionCloses'
  BY <1>1, <1>2, <1>3, DeliveredKept, AnsweredKept
<1>12. [RegNext]_<<now, regVars>> /\ [StoreNext]_<<now, storeVars>>
  BY <1>1 DEF StoreNext, StoreStep, DecisionStep
<1>. QED  BY <1>2, <1>5, <1>6, <1>7, <1>9, <1>10, <1>11, <1>12, PartsMakeStep DEF RowsGrow

\* Time passes, or nothing does.
LEMMA TimePasses ==
  ASSUME RuntimeInv, Clock \/ UNCHANGED vars
  PROVE  StepOK
<1>1. /\ UNCHANGED <<regVars, storeVars, up, crashes, hook, replacing, reply, event, release,
                     api, timer, sweep>>
      /\ Tick \/ now' = now
  BY DEF Clock, vars, threadVars
<1>2. now \in Nat /\ now' \in Nat /\ now <= now'
  BY <1>1 DEF Tick, RuntimeInv, RegInv, RegTypeOK
<1>3. RowsGrow /\ NoNewItem /\ NoNewClaim
  BY <1>1, UnchangedRowsGrow DEF RuntimeInv
<1>4. /\ tickets' = tickets
      /\ \A q \in Request : (IsActive(q)' <=> IsActive(q)) /\ Got(q)' = Got(q)
  BY <1>1 DEF regVars, IsActive, Got
<1>5. ThreadTypeOK'
  BY <1>1 DEF RuntimeInv, ThreadTypeOK
<1>6. AwaitedHaveTimers' /\ DeliveredDecisionWasCommitted'
  BY <1>1, <1>3, <1>4, TimersKept, DeliveredKept
<1>7. BlockedHookIsActionable' /\ AnsweredQuestionCloses'
  BY <1>1, <1>3, <1>4, BlockedKept, AnsweredKept DEF Held, storeVars
<1>8. [RegNext]_<<now, regVars>> /\ [StoreNext]_<<now, storeVars>>
  BY <1>1 DEF RegNext, StoreNext
<1>. QED  BY <1>1, <1>2, <1>3, <1>4, <1>5, <1>6, <1>7, <1>8, ThreadStep

-----------------------------------------------------------------------------
(* The invariant, and what follows from it *)

LEMMA RuntimeInitInv == RuntimeInit => RuntimeInv
<1> SUFFICES ASSUME RuntimeInit PROVE RuntimeInv
  OBVIOUS
<1>1. RegInv /\ StoreInv
  BY RegInitInv, StoreInitInv DEF RuntimeInit
<1>2. ThreadTypeOK
  <2>1. ApiIdle \in [step : ApiStep, request : Request \cup {None},
                     action : ApprovalAction \cup {None}, at : Nat]
    BY DEF ApiIdle, ApiStep
  <2>2. TimerNone \in [step : TimerStep, request : Request \cup {None},
                       action : ApprovalAction \cup {None}, wake : Nat, active : BOOLEAN]
    BY DEF TimerNone, TimerStep
  <2>3. 0 \in 0..MaxCrashes
    BY RuntimeAssumption
  <2>. QED  BY <2>1, <2>2, <2>3 DEF RuntimeInit, ThreadTypeOK, HookStep, HookReply
<1>3. ThreadsKnow
  BY DEF RuntimeInit, ThreadsKnow, HookKnows, ApiKnows, ApiIdle, TimerKnows, TimerNone
<1>4. /\ \A r \in Request : ~IsActive(r) /\ channel[r] = <<>>
      /\ tickets = {}
      /\ \A r \in Request : attention[r].state = "none" /\ hook[r] = "idle"
      /\ \A r \in Request : reply[r] = "pending"
      /\ \A c \in Command : commands[c].state = "none"
  BY FreshRequests DEF RuntimeInit, RegInit, StoreInit, IsActive, NoAttention, NoCommand
<1>5. Presence /\ KindsKeepStates /\ LiveApprovalIsOfThisRuntime /\ BlockedHookIsActionable
  BY <1>4 DEF Presence, KindsKeepStates, LiveApprovalIsOfThisRuntime, BlockedHookIsActionable,
     LiveState
<1>6. AwaitedHaveTimers
  BY <1>4 DEF AwaitedHaveTimers, Awaited
<1>7. DeliveredDecisionWasCommitted /\ AnsweredQuestionCloses
  BY <1>4 DEF DeliveredDecisionWasCommitted, AnsweredQuestionCloses, Decision
<1>. QED  BY <1>1, <1>2, <1>3, <1>5, <1>6, <1>7 DEF RuntimeInv

\* Every step of the runtime keeps the invariant, and is a step of the registry
\* and a step of the store.
LEMMA RuntimeNextOK == RuntimeInv /\ [RuntimeNext]_vars => StepOK
<1> SUFFICES ASSUME RuntimeInv, [RuntimeNext]_vars PROVE StepOK
  OBVIOUS
<1>1. ASSUME Environment
      PROVE  StepOK
  <2>1. ASSUME NEW r \in Request, HookRegister(r) \/ HookIngestFails(r) \/ HookDies(r)
        PROVE  StepOK
    BY <2>1, HookRegisters, HookMovesOn, HookDiesUnnoticed
  <2>2. ASSUME NEW e \in Event, EventIngest(e)
        PROVE  StepOK
    BY <2>2, EventIngests
  <2>3. ASSUME NEW c \in Command, NEW r \in Request, NEW a \in ApprovalAction,
               ApiCommand(c, r, a)
        PROVE  StepOK
    BY <2>3, ApiReads
  <2>4. ASSUME NEW c \in Command, NEW r \in Request, NEW a \in AttentionAction, ApiAct(c, r, a)
        PROVE  StepOK
    BY <2>4, ApiActs
  <2>5. ASSUME NEW c \in Command, NEW r \in Request, NEW step \in {"answer", "native"},
               ApiAnswer(c, r, step)
        PROVE  StepOK
    BY <2>5, ApiReads
  <2>6. ASSUME ApiSnapshot \/ \E c \in Command : ApiUndo(c)
        PROVE  StepOK
    BY <2>6, ApiWritesRows
  <2>7. ASSUME Crash
        PROVE  StepOK
    BY <2>7, ProcessDies
  <2>. QED  BY <1>1, <2>1, <2>2, <2>3, <2>4, <2>5, <2>6, <2>7 DEF Environment
<1>2. ASSUME NEW r \in Request, HookThread(r)
      PROVE  StepOK
  <2>1. CASE HookIngest(r)
    BY <2>1, HookIngests
  <2>2. CASE HookPassThroughFailed(r) \/ HookRelease(r)
    BY <2>2, HookLetsGo
  <2>3. CASE HookReceive(r) \/ HookTimeout(r)
    BY <2>3, HookMovesOn
  <2>4. CASE HookExpireReplaced(r)
    BY <2>4, HookExpiresReplaced
  <2>5. CASE HookExpire(r)
    BY <2>5, HookExpires
  <2>. QED  BY <1>2, <2>1, <2>2, <2>3, <2>4, <2>5 DEF HookThread
<1>3. ASSUME NEW e \in Event, EventRelease(e)
      PROVE  StepOK
  BY <1>3, EventReleases
<1>4. ASSUME NEW c \in Command, ApiThread(c)
      PROVE  StepOK
  BY <1>4, ApiExpiresStale, ApiClaims, ApiPassesThrough, ApiDeliversAnswer, ApiAcks
     DEF ApiThread
<1>5. ASSUME NEW c \in Command, TimerThread(c)
      PROVE  StepOK
  <2>1. CASE TimerWake(c)
    BY <2>1, TimerWakes
  <2>2. CASE TimerCommit(c)
    BY <2>2, TimerCommits
  <2>3. CASE TimerDecide(c)
    BY <2>3, TimerDecides
  <2>4. CASE TimerExpire(c)
    BY <2>4, TaskExpires
  <2>. QED  BY <1>5, <2>1, <2>2, <2>3, <2>4 DEF TimerThread
<1>6. ASSUME SweepRegistry \/ SweepStore
      PROVE  StepOK
  BY <1>6, RegistryIsSwept, TaskExpires
<1>7. ASSUME Startup
      PROVE  StepOK
  BY <1>7, ProcessStarts
<1>8. ASSUME Clock \/ UNCHANGED vars
      PROVE  StepOK
  BY <1>8, TimePasses
<1>. QED  BY <1>1, <1>2, <1>3, <1>4, <1>5, <1>6, <1>7, <1>8 DEF RuntimeNext

LEMMA RuntimeInvHolds == RuntimeSpec => []RuntimeInv
<1>1. RuntimeInv /\ [RuntimeNext]_vars => RuntimeInv'
  BY RuntimeNextOK DEF StepOK
<1>. QED  BY <1>1, RuntimeInitInv, PTL DEF RuntimeSpec

\* Every variable of the runtime keeps its type, whatever its threads do.
THEOREM RuntimeTypeCorrect == RuntimeSpec => []RuntimeTypeOK
<1>1. RuntimeInv => RuntimeTypeOK
  BY DEF RuntimeInv, RuntimeTypeOK, RegInv, StoreInv, ThreadTypeOK
<1>. QED  BY <1>1, RuntimeInvHolds, PTL

\* The runtime uses the registry only through its operations: what is proved of
\* the registry under any sequence of them holds in the running system.
THEOREM RuntimeImplementsRegistry == RuntimeSpec => ImplementsRegistry
<1>1. RuntimeInit => RegInit
  BY DEF RuntimeInit
<1>2. RuntimeInv /\ [RuntimeNext]_vars => [RegNext]_<<now, regVars>>
  BY RuntimeNextOK DEF StepOK
<1>. QED  BY <1>1, <1>2, RuntimeInvHolds, PTL DEF RuntimeSpec, ImplementsRegistry, RegSpec

\* The runtime writes the two tables only by whole transactions of the store,
\* with clocks and waiter activity the store allows.
THEOREM RuntimeImplementsStore == RuntimeSpec => ImplementsStore
<1>1. RuntimeInit => StoreInit
  BY DEF RuntimeInit
<1>2. RuntimeInv /\ [RuntimeNext]_vars => [StoreNext]_<<now, storeVars>>
  BY RuntimeNextOK DEF StepOK
<1>. QED  BY <1>1, <1>2, RuntimeInvHolds, PTL DEF RuntimeSpec, ImplementsStore, StoreSpec

\* A hook is told allow or deny only for a command that was committed.
THEOREM DecisionsWereCommitted == RuntimeSpec => []DeliveredDecisionWasCommitted
<1>1. RuntimeInv => DeliveredDecisionWasCommitted
  BY DEF RuntimeInv
<1>. QED  BY <1>1, RuntimeInvHolds, PTL

\* A live approval belongs to the running process, however often it crashed.
THEOREM LiveApprovalsAreOfThisRuntime == RuntimeSpec => []LiveApprovalIsOfThisRuntime
<1>1. RuntimeInv => LiveApprovalIsOfThisRuntime
  BY DEF RuntimeInv
<1>. QED  BY <1>1, RuntimeInvHolds, PTL

\* A hook that blocks on an approval can be decided, or is being let go.
THEOREM BlockedHooksAreActionable == RuntimeSpec => []BlockedHookIsActionable
<1>1. RuntimeInv => BlockedHookIsActionable
  BY DEF RuntimeInv
<1>. QED  BY <1>1, RuntimeInvHolds, PTL

\* A question that was answered is settled or about to be.
THEOREM AnsweredQuestionsClose == RuntimeSpec => []AnsweredQuestionCloses
<1>1. RuntimeInv => AnsweredQuestionCloses
  BY DEF RuntimeInv
<1>. QED  BY <1>1, RuntimeInvHolds, PTL

\* A decision in its undo window has the task that will commit it: the command
\* behind the item awaits it, and an awaited command has its task.
THEOREM CommittingItemsHaveTimers == RuntimeSpec => []CommittingHasTimer
<1>1. ASSUME RuntimeInv, up, NEW r \in Request, attention[r].state = "committing"
      PROVE  \E c \in Command : /\ commands[c].request = r
                                /\ commands[c].state = "pending_commit"
                                /\ timer[c].step \in {"sleeping", "commit"}
  <2>1. PICK c \in Command : commands[c].request = r /\ commands[c].state = "pending_commit"
    BY <1>1 DEF RuntimeInv, StoreInv, ItemBackedByCommand
  <2>2. timer[c].step \in {"sleeping", "commit"}
    BY <1>1, <2>1 DEF RuntimeInv, AwaitedHaveTimers, Awaited
  <2>. QED  BY <2>1, <2>2
<1>2. RuntimeInv => CommittingHasTimer
  BY <1>1 DEF CommittingHasTimer
<1>. QED  BY <1>2, RuntimeInvHolds, PTL

\* In the running system, too, every waiter gets exactly one outcome.
THEOREM WaitersGetOneOutcome == RuntimeSpec => []ExactlyOneOutcome
BY RuntimeImplementsRegistry, EveryWaiterGetsOneOutcome, PTL DEF ImplementsRegistry

\* In the running system, too, a settled item never waits for a decision again.
THEOREM SettledItemsStaySettledHere == RuntimeSpec => SettledNeverReopens
BY RuntimeImplementsStore, SettledItemsStaySettled, PTL DEF ImplementsStore
=============================================================================
