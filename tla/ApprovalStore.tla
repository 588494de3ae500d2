--------------------------- MODULE ApprovalStore ----------------------------
(***************************************************************************)
(* runtime/src/storage.rs: the attention_items and commands tables of one  *)
(* session and the transactions on them.  A single writer thread runs the  *)
(* messages of every caller one after the other and each message is one    *)
(* SQLite transaction, so each transaction is one action.                  *)
(*                                                                         *)
(* Left out: columns no transaction reads back (titles, previews, risk,    *)
(* resolved_at, error_code), attention without a request_id, the metrics.  *)
(* Every reason an item expires for is the one resolution "stale".         *)
(***************************************************************************)
EXTENDS Core

CONSTANTS
  Command,     \* command ids, chosen by the client
  Turn,        \* turn ids of the session
  Tool,        \* sanitized tool names
  KindOf,      \* [Request -> {"approval", "question"}]
  TitleTools,  \* [Request -> tools whose name occurs in the item's title]
  SnoozeDelay  \* ten minutes

VARIABLES
  attention,   \* the attention_items row of each request
  commands     \* the commands row of each command id

storeVars == <<attention, commands>>

ASSUME StoreAssumption ==
  /\ None \notin Turn /\ None \notin Tool /\ None \notin Nat
  /\ None \notin ApprovalAction
  /\ KindOf \in [Request -> {"approval", "question"}]
  /\ TitleTools \in [Request -> SUBSET Tool]
  /\ SnoozeDelay \in Nat

\* attention_items.state and commands.state; "none" is a row not inserted.
LiveState == {"open", "committing", "decision_sent"}
AttentionState ==
  LiveState \cup {"none", "passed_through", "resolved", "expired", "snoozed", "dismissed"}
UnsettledState == {"pending_commit", "decision_sent"}
CommandState ==
  UnsettledState \cup {"none", "undone", "confirmed", "passed_through", "failed"}

AttentionAction == {"ack", "snooze", "dismiss"}
Resolution ==
  {None, "approve", "deny", "pass_through", "provider_approved", "provider_denied",
   "provider_closed", "provider_handled", "ack", "user_dismissed", "stale"}

AttentionRow ==
  [state : AttentionState, resolution : Resolution,
   expiresAt : Nat \cup {None}, turn : Turn \cup {None}]

\* sent is "sent_at IS NOT NULL", which no transaction clears.
CommandRow ==
  [state : CommandState, request : Request \cup {None}, createdAt : Nat, sent : BOOLEAN,
   action : ApprovalAction \cup AttentionAction \cup {None}]

NoAttention == [state |-> "none", resolution |-> None, expiresAt |-> None, turn |-> None]
NoCommand ==
  [state |-> "none", request |-> None, createdAt |-> 0, sent |-> FALSE, action |-> None]

StoreTypeOK ==
  /\ now \in Nat
  /\ attention \in [Request -> AttentionRow]
  /\ commands \in [Command -> CommandRow]

StoreInit ==
  /\ now = 0
  /\ attention = [r \in Request |-> NoAttention]
  /\ commands = [c \in Command |-> NoCommand]

-----------------------------------------------------------------------------
(* Shared pieces of the transactions *)

\* The unsettled commands rows of the requests of R fail.
Unsettled(c, R) == commands[c].request \in R /\ commands[c].state \in UnsettledState

FailedCommands(R) ==
  [c \in Command |-> IF Unsettled(c, R)
     THEN [commands[c] EXCEPT !.state = "failed"]
     ELSE commands[c]]

\* The session's approvals that still wait for something.
LiveApprovals == {r \in Request : KindOf[r] = "approval" /\ attention[r].state \in LiveState}

\* Rows of R are resolved; a resolution they have is kept (COALESCE).
ResolvedAttention(R, outcome) ==
  [r \in Request |-> IF r \in R
     THEN [attention[r] EXCEPT !.state = "resolved", !.expiresAt = None,
             !.resolution = IF @ = None THEN outcome ELSE @]
     ELSE attention[r]]

\* Rows of R expire, with whatever reason the caller passes.
ExpiredAttention(R) ==
  [r \in Request |-> IF r \in R
     THEN [attention[r] EXCEPT !.state = "expired", !.resolution = "stale"]
     ELSE attention[r]]

-----------------------------------------------------------------------------
\* ingest_transaction for a blocking request: insert_approval_attention or
\* insert_nonapproval_attention, deduplicated by the request id.
IngestRequest(r, turn) ==
  /\ attention' = [attention EXCEPT ![r] =
       IF @.state # "none" THEN @
       ELSE [state |-> "open", resolution |-> None,
             expiresAt |-> DeadlineAt[r], turn |-> turn]]
  /\ UNCHANGED commands

\* claim_transaction.  A known command id is answered from its row; otherwise
\* the item must be open and not past its deadline at the caller's clock.
Claimable(r, at) ==
  /\ attention[r].state = "open"
  /\ attention[r].expiresAt # None => at < attention[r].expiresAt

\* Defect: the claim does not look at the item's state.
ClaimsUnchecked(c, r, at) == commands[c].state = "none" /\ attention[r].state # "none"

Claims(c, r, at) == commands[c].state = "none" /\ Claimable(r, at)

Claim(c, r, action, at) ==
  IF Claims(c, r, at)
  THEN /\ attention' = [attention EXCEPT
            ![r].state = IF action = "pass_through" THEN "passed_through" ELSE "committing",
            ![r].resolution = IF action = "pass_through" THEN "pass_through" ELSE None]
       /\ commands' = [commands EXCEPT ![c] =
            [state |-> IF action = "pass_through" THEN "passed_through" ELSE "pending_commit",
             request |-> r, createdAt |-> at, sent |-> FALSE, action |-> action]]
  ELSE UNCHANGED storeVars

CommitDue(c) == commands[c].createdAt + CommitDelay

\* Defect: the command is not marked undone, only the item reopened.
UndoItemOnly(c) ==
  LET r == commands[c].request
  IN /\ commands[c].state = "pending_commit"
     /\ now < CommitDue(c)
     /\ attention' = IF attention[r].state = "committing"
          THEN [attention EXCEPT ![r].state = "open", ![r].resolution = None]
          ELSE attention
     /\ UNCHANGED commands

\* Defect: the item stays in its undo window.
UndoKeepingItem(c) ==
  /\ commands[c].state = "pending_commit"
  /\ now < CommitDue(c)
  /\ commands' = [commands EXCEPT ![c].state = "undone"]
  /\ UNCHANGED attention

\* Defect: the item reopens whatever became of it meanwhile.
UndoReopeningAny(c) ==
  /\ commands[c].state = "pending_commit"
  /\ now < CommitDue(c)
  /\ commands' = [commands EXCEPT ![c].state = "undone"]
  /\ attention' = [attention EXCEPT ![commands[c].request].state = "open",
                                    ![commands[c].request].resolution = None]

\* undo_transaction, when it does not return NotUndoable or find it undone.
Undo(c) ==
  LET r == commands[c].request
  IN /\ commands[c].state = "pending_commit"
     /\ now < CommitDue(c)
     /\ commands' = [commands EXCEPT ![c].state = "undone"]
     /\ attention' = IF attention[r].state = "committing"
          THEN [attention EXCEPT ![r].state = "open", ![r].resolution = None]
          ELSE attention

\* commit_transaction.  Its Ok results are a commit made now and one found
\* already made; a commit without a waiter fails the command and expires the
\* item whatever state the item is in.
Committable(c, at) == commands[c].state = "pending_commit" /\ at >= CommitDue(c)

CommitOk(c, at, active) ==
  \/ commands[c].state = "decision_sent"
  \/ Committable(c, at) /\ active

Commit(c, at, active) ==
  LET r == commands[c].request
  IN \/ /\ Committable(c, at) /\ active
        /\ commands' = [commands EXCEPT ![c].state = "decision_sent", ![c].sent = TRUE]
        /\ attention' = IF attention[r].state = "committing"
             THEN [attention EXCEPT ![r].state = "decision_sent",
                                    ![r].resolution = commands[c].action]
             ELSE attention
     \/ /\ Committable(c, at) /\ ~active
        /\ commands' = [commands EXCEPT ![c].state = "failed"]
        /\ attention' = ExpiredAttention({r})
     \/ /\ ~Committable(c, at)
        /\ UNCHANGED storeVars

\* Defect: only an item that is not snoozed can be acted on.
ActionableOpenOnly(r) == KindOf[r] # "approval" /\ attention[r].state = "open"

\* act_attention_transaction: ack, snooze or dismiss an item that is not an
\* approval; a known command id or a stale item changes nothing.
Actionable(r) == KindOf[r] # "approval" /\ attention[r].state \in {"open", "snoozed"}

ActOnAttention(c, r, action) ==
  /\ commands[c].state = "none" /\ Actionable(r)
  /\ attention' = [attention EXCEPT ![r] =
       CASE action = "ack" ->
              [@ EXCEPT !.state = "resolved", !.resolution = "ack", !.expiresAt = None]
         [] action = "snooze" ->
              [@ EXCEPT !.state = "snoozed", !.resolution = None,
                        !.expiresAt = now + SnoozeDelay]
         [] OTHER ->
              [@ EXCEPT !.state = "dismissed", !.resolution = "user_dismissed",
                        !.expiresAt = None]]
  /\ commands' = [commands EXCEPT ![c] =
       [state |-> "confirmed", request |-> r, createdAt |-> now, sent |-> FALSE,
        action |-> action]]

\* The same on an item without a request (a native approval, an error, a
\* completion), which is none of `attention`: the command takes its id.
ActOnOther(c, action) ==
  /\ commands[c].state = "none"
  /\ commands' = [commands EXCEPT ![c] =
       [state |-> "confirmed", request |-> None, createdAt |-> now, sent |-> FALSE,
        action |-> action]]
  /\ UNCHANGED attention

\* reopen_due_snoozed, run by every snapshot.
DueSnoozed == {r \in Request : attention[r].state = "snoozed" /\ attention[r].expiresAt <= now}

ReopenDueSnoozed ==
  /\ attention' = [r \in Request |-> IF r \in DueSnoozed
       THEN [attention[r] EXCEPT !.state = "open", !.expiresAt = None]
       ELSE attention[r]]
  /\ UNCHANGED commands

\* Defect: only items nobody decided on are reconciled.
ReconcileOpenOnly(active) ==
  LET orphans == {r \in Request \ active : attention[r].state = "open"}
  IN /\ attention' = ExpiredAttention(orphans)
     /\ commands' = FailedCommands(orphans)

\* reconcile_transaction: an item that waits for a reply and whose waiter is
\* not among `active` expires, and its unsettled commands fail.
ReconcileOrphans(active) ==
  LET orphans == {r \in Request \ active : attention[r].state \in LiveState}
  IN /\ attention' = ExpiredAttention(orphans)
     /\ commands' = FailedCommands(orphans)

\* expire_approval_transaction.
ExpireApproval(r) ==
  IF attention[r].state \in LiveState
  THEN /\ attention' = ExpiredAttention({r})
       /\ commands' = FailedCommands({r})
  ELSE UNCHANGED storeVars

-----------------------------------------------------------------------------
(* reconcile_provider_handled_approval, the part of ingest_transaction that  *)
(* an event other than a request runs: what the provider is seen doing may   *)
(* show that it no longer waits for an approval.                             *)

ToolProgress == {"tool_started", "tool_finished", "tool_failed"}
ClosesSession == {"stopped", "failed", "session_ended", "prompt_submitted"}
EventKind == ToolProgress \cup ClosesSession \cup {"permission_denied"}

Outcome(kind) ==
  CASE kind \in {"tool_started", "tool_finished"} -> "provider_approved"
    [] kind \in {"tool_failed", "permission_denied"} -> "provider_denied"
    [] OTHER -> "provider_closed"

\* The session's live approvals, of the event's turn unless it closes the session.
Candidates(kind, turn) ==
  {r \in LiveApprovals : kind \in ClosesSession \/ turn = None \/ attention[r].turn = turn}

\* A tool event concerns an item whose decision was sent, or whose title names
\* the tool.
Concerns(r, tool) == attention[r].resolution # None \/ tool \in TitleTools[r]

Newest(R) == {r \in R : \A q \in R : ReceivedAt[q] <= ReceivedAt[r]}

\* The request sets the event may resolve: tool progress resolves the newest
\* item it concerns (created_at DESC, then break), any other kind resolves
\* every candidate.
Handled(kind, tool, turn) ==
  LET candidates == Candidates(kind, turn)
      concerned == {r \in candidates : Concerns(r, tool)}
  IN IF kind \notin ToolProgress THEN {candidates}
     ELSE IF concerned = {} THEN {{}} ELSE {{r} : r \in Newest(concerned)}

\* The commands of a resolved item: the sent decision the outcome agrees with
\* is confirmed, any other unsettled one fails, except that an event that only
\* closes the session leaves it as it is.
Confirms(kind, row, item) ==
  \/ Outcome(kind) = "provider_approved" /\ item.resolution = "approve" /\ row.action = "approve"
  \/ Outcome(kind) = "provider_denied" /\ item.resolution = "deny" /\ row.action = "deny"

CommandAfter(kind, row, item) ==
  CASE Confirms(kind, row, item) -> "confirmed"
    [] Outcome(kind) = "provider_closed" -> row.state
    [] OTHER -> "failed"

\* ingest_transaction for such an event: it resolves the requests of R.
IngestEvent(kind, tool, turn, R) ==
  /\ R \in Handled(kind, tool, turn)
  /\ attention' = ResolvedAttention(R, Outcome(kind))
  /\ commands' = [c \in Command |-> IF Unsettled(c, R)
       THEN [commands[c] EXCEPT !.state =
               CommandAfter(kind, commands[c], attention[commands[c].request])]
       ELSE commands[c]]

\* sync_native_approval_transaction with waiting = false, its part on hook
\* approvals: the app-server says that the thread waits for none.  A sent
\* decision counts as taken, one still in its undo window is cancelled.
CommandAfterClear(row, item) ==
  IF item.state = "decision_sent" /\ item.resolution \in {"approve", "deny"}
  THEN IF row.state = "decision_sent" /\ row.action = item.resolution
       THEN "confirmed" ELSE row.state
  ELSE "failed"

ClearApprovals ==
  /\ attention' = ResolvedAttention(LiveApprovals, "provider_handled")
  /\ commands' = [c \in Command |-> IF Unsettled(c, LiveApprovals)
       THEN [commands[c] EXCEPT !.state =
               CommandAfterClear(commands[c], attention[commands[c].request])]
       ELSE commands[c]]

-----------------------------------------------------------------------------
(* The store under every call its users make: claims and expiries carry a    *)
(* clock read earlier, a commit the due time of its command, and waiters are *)
(* reported active or not in any combination.                                *)

DecisionStep ==
  \/ \E c \in Command, r \in Request, a \in ApprovalAction, at \in 0..now :
       KindOf[r] = "approval" /\ Claim(c, r, a, at)
  \/ \E c \in Command : Undo(c)
  \/ \E c \in Command, active \in BOOLEAN :
       commands[c].state # "none" /\ Commit(c, CommitDue(c), active)
  \/ \E c \in Command, r \in Request, a \in AttentionAction : ActOnAttention(c, r, a)
  \/ \E active \in SUBSET Request : ReconcileOrphans(active)
  \/ \E r \in Request : ExpireApproval(r)

StoreStep ==
  \/ \E r \in Request, turn \in Turn \cup {None} : IngestRequest(r, turn)
  \/ \E kind \in EventKind, tool \in Tool, turn \in Turn \cup {None} :
       \E R \in Handled(kind, tool, turn) : IngestEvent(kind, tool, turn, R)
  \/ ClearApprovals
  \/ ReopenDueSnoozed
  \/ \E c \in Command, a \in AttentionAction : ActOnOther(c, a)
  \/ DecisionStep

StoreNext ==
  \/ StoreStep /\ UNCHANGED now
  \/ Tick /\ UNCHANGED storeVars

StoreSpec == StoreInit /\ [][StoreNext]_<<now, storeVars>>

-----------------------------------------------------------------------------
(* Properties *)

\* "Approve/deny/pass-through races have one winner": among the commands on a
\* request at most one was ever sent or passed through, and while it holds,
\* or one waits for its commit, no other can win.
Won(c) == commands[c].sent \/ commands[c].state = "passed_through"
InPlay(c) == Won(c) \/ commands[c].state = "pending_commit"

OneWinner ==
  \A c, d \in Command :
    c # d /\ InPlay(c) /\ InPlay(d) => commands[c].request # commands[d].request

\* An item shows that it is committing, or that its decision was sent, only
\* while exactly that command stands behind it.  The two rows are written by
\* claim, undo, commit, expiry and provider reconciliation under different
\* conditions (storage.rs:1867, 1951, 2031, 2220, 3342).
ItemBackedByCommand ==
  \A r \in Request :
    /\ attention[r].state = "committing" =>
         \E c \in Command : commands[c].request = r /\ commands[c].state = "pending_commit"
    /\ attention[r].state = "decision_sent" =>
         \E c \in Command : /\ commands[c].request = r
                            /\ commands[c].state = "decision_sent"
                            /\ commands[c].action = attention[r].resolution

\* An undone decision was not sent, and the item it reopened can be decided
\* again: no command on an open or snoozed item is unsettled or has won.
OpenMeansUndecided ==
  /\ \A c \in Command : commands[c].state = "undone" => ~commands[c].sent
  /\ \A r \in Request : attention[r].state \in {"open", "snoozed"} =>
       \A c \in Command : commands[c].request = r => ~InPlay(c)

\* An item that was resolved, passed through, expired or dismissed never waits
\* for a decision again, whichever stale command, undo, timer or event comes
\* late: "Runtime restart ... never restored to open" and its like.
SettledState == {"passed_through", "resolved", "expired", "dismissed"}

SettledNeverReopens ==
  [][\A r \in Request : attention[r].state \in SettledState
                        => attention'[r].state \in SettledState]_<<now, storeVars>>

\* "confirmed" is only ever written over a decision that was sent, or over a
\* local acknowledgement: provider evidence never confirms what was not said.
ConfirmedWasSent ==
  \A c \in Command : commands[c].state = "confirmed" =>
    commands[c].sent \/ commands[c].action \in AttentionAction
=============================================================================
