-------------------------------- MODULE Core --------------------------------
(***************************************************************************)
(* The vocabulary of crates/core that every other module shares: the       *)
(* wall clock, blocking requests with the attributes a BridgeRequest is    *)
(* born with, the approval actions and the responses a hook can receive.   *)
(*                                                                         *)
(* A BridgeRequest is immutable once the hook process has built it, so its *)
(* fields are constants indexed by the request.  Message texts, reasons    *)
(* and payload contents are left out: no property tells them apart.        *)
(***************************************************************************)
EXTENDS Integers, Sequences, FiniteSets

CONSTANTS
  Request,     \* requestId of every blocking hook invocation (UUIDs)
  Correlation, \* values of correlation_key(request)
  None,        \* the absent value of an Option
  MaxTime,     \* bound of the modelled clock
  CommitDelay, \* PERMISSION_COMMIT_DELAY_MS
  ReceivedAt,  \* [Request -> time the hook built the envelope]
  DeadlineAt,  \* [Request -> deadline_at]
  CorrelationOf \* [Request -> correlation_key(request)]

VARIABLE now   \* wall clock, read by now_millis()

ASSUME NoneAssumption ==
  /\ None \notin Request
  /\ None \notin Correlation
ASSUME TimeAssumption ==
  /\ MaxTime \in Nat
  /\ CommitDelay \in Nat
  /\ ReceivedAt \in [Request -> Nat]
  /\ DeadlineAt \in [Request -> Nat]
ASSUME CorrelationAssumption == CorrelationOf \in [Request -> Correlation]

ApprovalAction == {"approve", "deny", "pass_through"}

Decision == {"allow", "deny"}

\* The ReplyAction of a BridgeResponse.  Ping is a heartbeat the client skips
\* and the runtime never sends.
Response == Decision \cup {"pass_through", "answer"}

\* Defect: only an approval is taken for a decision.
DecisionOfApproval(action) == IF action = "approve" THEN "allow" ELSE None

\* ApprovalAction::decision: pass_through carries none.
DecisionOf(action) ==
  CASE action = "approve" -> "allow"
    [] action = "deny" -> "deny"
    [] OTHER -> None

\* The clock advances by itself, bounded by MaxTime.
Tick ==
  /\ now < MaxTime
  /\ now' = now + 1
=============================================================================
