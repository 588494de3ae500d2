----------------------------- MODULE HookEvents -----------------------------
(***************************************************************************)
(* One provider session as it is, next to the session the store shows.     *)
(*                                                                         *)
(* The provider starts a hook process for everything it does; each writes  *)
(* its event to the runtime on a connection of its own and is gone.  The   *)
(* events are ingested by one thread per connection; one that found no     *)
(* runtime waits in the spool until the next start (app/src/main.rs:1081,  *)
(* 1415).  So an event may be ingested after those that came later: the    *)
(* constant InOrder tells whether that happens.                            *)
(*                                                                         *)
(* The provider is outside the repository.  What it does is what the       *)
(* adapters and the documents count on: a turn starts with a prompt and    *)
(* ends with Stop, and every tool call that starts ends before that.       *)
(***************************************************************************)
EXTENDS SessionStore, SequencesExt

CONSTANTS
  InOrder,   \* events are ingested in the order they happened
  Parallel,  \* request_permissions calls may overlap
  MaxEvents  \* bound on the events of the session

VARIABLES
  agent,  \* "idle", "working", or "background" after a Stop with work left
  call,   \* [NativeCall -> state of the call and of the prompt it shows]
  tool,   \* the tool call that runs, or None
  mail,   \* events not yet ingested, in the order they happened
  emitted \* how many events there have been

ASSUME HookAssumption ==
  /\ InOrder \in BOOLEAN /\ Parallel \in BOOLEAN
  /\ MaxEvents \in Nat

agentVars == <<agent, call, tool, mail, emitted>>
hookVars == <<now, storeVars, sessionVars, agentVars>>

HookTypeOK ==
  /\ SessionTypeOK
  /\ agent \in {"idle", "working", "background"}
  /\ call \in [NativeCall -> {"idle", "pending", "ended"}]
  /\ tool \in Tool \cup {None}
  /\ mail \in Seq(SessionEvent)
  /\ emitted \in 0..MaxEvents

HookInit ==
  /\ SessionInit
  /\ agent = "idle"
  /\ call = [n \in NativeCall |-> "idle"]
  /\ tool = None
  /\ mail = <<>>
  /\ emitted = 0

-----------------------------------------------------------------------------
(* The provider *)

Event(kind) ==
  [kind |-> kind, tool |-> PermissionTool, call |-> None, background |-> FALSE, at |-> now]

Emit(ev) ==
  /\ emitted < MaxEvents
  /\ emitted' = emitted + 1
  /\ mail' = Append(mail, ev)
  /\ UNCHANGED <<now, storeVars, sessionVars>>

SubmitPrompt ==
  /\ agent # "working"
  /\ agent' = "working"
  /\ Emit(Event("prompt_submitted"))
  /\ UNCHANGED <<call, tool>>

StartTool(t) ==
  /\ agent # "idle" /\ tool = None
  /\ tool' = t
  /\ Emit([Event("tool_started") EXCEPT !.tool = t])
  /\ UNCHANGED <<agent, call>>

EndTool(kind) ==
  /\ tool # None
  /\ tool' = None
  /\ Emit([Event(kind) EXCEPT !.tool = tool])
  /\ UNCHANGED <<agent, call>>

Pending == {n \in NativeCall : call[n] = "pending"}

StartNative(n) ==
  /\ agent = "working" /\ call[n] = "idle"
  /\ Pending = {} \/ Parallel
  /\ call' = [call EXCEPT ![n] = "pending"]
  /\ Emit([Event("native_requested") EXCEPT !.call = n])
  /\ UNCHANGED <<agent, tool>>

\* The event that tells the end need not name the call.
EndNative(n, kind) ==
  /\ call[n] = "pending"
  /\ call' = [call EXCEPT ![n] = "ended"]
  /\ \E named \in {n, None} : Emit([Event(kind) EXCEPT !.call = named])
  /\ UNCHANGED <<agent, tool>>

\* Stop, with work left in the background or not, or StopFailure.
Stop(kind, background) ==
  /\ agent # "idle" /\ Pending = {} /\ tool = None
  /\ background => kind = "stopped"
  /\ agent' = IF background THEN "background" ELSE "idle"
  /\ Emit([Event(kind) EXCEPT !.background = background])
  /\ UNCHANGED <<call, tool>>

Remark(kind) ==
  /\ agent # "idle"
  /\ Emit(Event(kind))
  /\ UNCHANGED <<agent, call, tool>>

AgentStep ==
  \/ SubmitPrompt
  \/ \E t \in Tool \ {PermissionTool} : StartTool(t)
  \/ \E kind \in {"tool_finished", "tool_failed"} : EndTool(kind)
  \/ \E n \in NativeCall : StartNative(n)
  \/ \E n \in NativeCall, kind \in {"tool_finished", "tool_failed"} : EndNative(n, kind)
  \/ \E kind \in {"stopped", "failed"}, background \in BOOLEAN : Stop(kind, background)
  \/ \E kind \in {"incidental", "compacting", "auto_reviewed"} : Remark(kind)

-----------------------------------------------------------------------------
(* The runtime, and its user *)

\* serve's thread for one of the events; a retry of the spool finds it ingested.
Deliver(i) ==
  /\ i \in DOMAIN mail
  /\ InOrder => i = 1
  /\ SessionIngest(mail[i])
  /\ mail' = RemoveAt(mail, i)
  /\ UNCHANGED <<now, agent, call, tool, emitted>>

\* A PermissionRequest blocks the provider until it is ingested and answered.
HookRequests(r) ==
  /\ agent = "working"
  /\ InOrder => mail = <<>>
  /\ SessionIngestRequest(r)
  /\ UNCHANGED <<now, agentVars>>

\* The panel offers to be reminded of a native approval, or to ignore it.
UserActs(c, n, action) ==
  /\ ActOnNative(c, n, action)
  /\ UNCHANGED <<now, agentVars>>

HookReopenDue ==
  /\ SessionReopenDue
  /\ UNCHANGED <<now, agentVars>>

HookExpires(r) ==
  /\ ExpireApproval(r)
  /\ UNCHANGED <<now, sessionVars, agentVars>>

HookNext ==
  \/ AgentStep
  \/ \E i \in 1..MaxEvents : Deliver(i)
  \/ \E r \in Request : HookRequests(r)
  \/ \E c \in Command, n \in NativeItem, action \in {"snooze", "dismiss"} : UserActs(c, n, action)
  \/ HookReopenDue
  \/ \E r \in Request : HookExpires(r)
  \/ Tick /\ UNCHANGED <<storeVars, sessionVars, agentVars>>

HookSpec == HookInit /\ [][HookNext]_hookVars

-----------------------------------------------------------------------------
(* Properties: what the panel shows once everything is ingested *)

AllIngested == mail = <<>>

\* "Incidental running/tool activity cannot overwrite an explicit native waiting
\* state" (V1_ACCEPTANCE.md:225): while a prompt of the provider's own is up,
\* the session awaits it, and its card was not resolved.
PendingCallShown ==
  AllIngested => \A n \in Pending :
    /\ native[n].state \in {"open", "snoozed", "dismissed"}
    /\ session.state = "awaiting_approval" /\ session.owner = "terminal"

\* "Matching Provider lifecycle ... resolves native waiting"
\* (V1_ACCEPTANCE.md:223): the card of a call that has ended is not open, and
\* with no prompt up the session does not await one.
EndedCallCleared ==
  AllIngested =>
    /\ \A n \in NativeCall : call[n] = "ended" => n \notin OpenNative
    /\ Pending = {} => session.owner # "terminal"

\* When the provider has stopped, the session shows it: no event of the turn
\* that ended, and no card, keeps it busy.
StoppedIsShown ==
  AllIngested /\ agent = "idle" => session.state \in {"absent"} \cup FinishedState

\* "Only a new UserPromptSubmit starts a new turn" (WIDGET_V1_PLAN.md:395).
TurnsStartWithPrompt ==
  [][\A t \in Turn : t > 1 /\ turns[t] = "none" /\ turns'[t] = "running" =>
       \E i \in DOMAIN mail :
         mail[i].kind = "prompt_submitted" /\ mail' = RemoveAt(mail, i)]_hookVars
=============================================================================
