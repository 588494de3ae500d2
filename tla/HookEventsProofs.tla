-------------------------- MODULE HookEventsProofs --------------------------
(***************************************************************************)
(* Proofs about HookEvents, for any number of calls, events and turns.     *)
(* What the store shows lags behind the provider by the events in `mail`:  *)
(* the invariant is that it fits the state the provider was in before the  *)
(* first of them, and that each event tells of the provider's next state.  *)
(***************************************************************************)
EXTENDS HookEvents, SessionStoreProofs

\* What of the provider the store is to show.
AgentState ==
  [agent : {"idle", "working", "background"},
   call : [NativeCall -> {"idle", "pending", "ended"}]]

Current == [agent |-> agent, call |-> call]

PendingIn(s) == {n \in NativeCall : s.call[n] = "pending"}

\* Two calls at a time only where they may overlap, and only while it works.
Sound(s) ==
  /\ PendingIn(s) # {} => s.agent = "working"
  /\ ~Parallel => \A m, n \in PendingIn(s) : m = n

\* ev happened in state s and led to state u.
Moves(s, ev, u) ==
  \/ /\ ev.kind = "prompt_submitted"
     /\ s.agent # "working" /\ u = [s EXCEPT !.agent = "working"]
  \/ /\ ev.kind \in ToolProgress \cup {"incidental", "compacting", "auto_reviewed"}
     /\ ~ExactEnd(ev)
     /\ s.agent # "idle" /\ u = s
  \/ /\ ev.kind = "native_requested" /\ ev.call \in NativeCall
     /\ s.agent = "working" /\ s.call[ev.call] = "idle"
     /\ PendingIn(s) = {} \/ Parallel
     /\ u = [s EXCEPT !.call[ev.call] = "pending"]
  \/ \E n \in NativeCall :
       /\ ExactEnd(ev) /\ ev.call \in {n, None}
       /\ s.call[n] = "pending" /\ u = [s EXCEPT !.call[n] = "ended"]
  \/ /\ ev.kind \in EndsTurn
     /\ ev.background => ev.kind = "stopped"
     /\ s.agent # "idle" /\ PendingIn(s) = {}
     /\ u = [s EXCEPT !.agent = IF ev.background THEN "background" ELSE "idle"]

\* The card of a call, when the provider is in state s.
CardMatches(s, n) ==
  /\ s.call[n] = "idle" => native[n].state = "none"
  /\ s.call[n] = "pending" =>
       /\ native[n].state # "none" /\ IsLast(Running, native[n].turn)
       /\ ~Parallel =>
            /\ native[n].state \in {"open", "snoozed", "dismissed"}
            /\ session.state = "awaiting_approval" /\ session.owner = "terminal"
  /\ s.call[n] = "ended" => native[n].state \notin {"open", "snoozed"}

\* The store shows the provider in state s.
Matches(s) ==
  /\ s.agent = "working" => session.state \in BusyState /\ Running # {}
  /\ s.agent = "background" => session.state \in BusyState
  /\ s.agent = "idle" => session.state \in {"absent"} \cup FinishedState
  /\ PendingIn(s) = {} => session.owner # "terminal"
  /\ \A n \in NativeCall : CardMatches(s, n)

\* st is the provider's way from what the store shows to what it is now.
Way(st) ==
  /\ st \in [0..Len(mail) -> AgentState]
  /\ Sound(st[0]) /\ Matches(st[0])
  /\ \A i \in 1..Len(mail) : Moves(st[i - 1], mail[i], st[i])
  /\ st[Len(mail)] = Current

\* Events come as they happened.
MailInOrder ==
  /\ session.last <= now
  /\ \A i \in 1..Len(mail) : session.last <= mail[i].at
  /\ \A i, j \in 1..Len(mail) : i <= j => mail[i].at <= mail[j].at

AgentInv ==
  /\ now \in Nat
  /\ agent \in {"idle", "working", "background"}
  /\ call \in [NativeCall -> {"idle", "pending", "ended"}]
  /\ tool \in (Tool \ {PermissionTool}) \cup {None}
  /\ agent = "idle" => tool = None
  /\ Sound(Current)
  /\ emitted \in 0..MaxEvents
  /\ mail \in Seq(SessionEvent)
  /\ \A i \in 1..Len(mail) : WellFormed(mail[i]) /\ mail[i].at <= now

-----------------------------------------------------------------------------
(* The provider's steps *)

LEMMA CurrentTyped ==
  ASSUME AgentInv
  PROVE  /\ Current \in AgentState /\ Current.agent = agent /\ Current.call = call
         /\ PendingIn(Current) = Pending
BY DEF AgentInv, Current, AgentState, PendingIn, Pending

\* ev is the event of these attributes that happens now.
Says(ev, kind, t, c, background) ==
  /\ ev \in SessionEvent /\ ev.at = now
  /\ ev.kind = kind /\ ev.tool = t /\ ev.call = c /\ ev.background = background

LEMMA EventSays ==
  ASSUME AgentInv, NEW kind \in SessionKind
  PROVE  /\ Says(Event(kind), kind, PermissionTool, None, FALSE)
         /\ \A t \in Tool : Says([Event(kind) EXCEPT !.tool = t], kind, t, None, FALSE)
         /\ \A n \in NativeCall \cup {None} :
              Says([Event(kind) EXCEPT !.call = n], kind, PermissionTool, n, FALSE)
         /\ \A b \in BOOLEAN :
              Says([Event(kind) EXCEPT !.background = b], kind, PermissionTool, None, b)
<1>1. PermissionTool \in Tool /\ now \in Nat
  BY SessionAssumption DEF AgentInv
<1>2. Says(Event(kind), kind, PermissionTool, None, FALSE)
  BY <1>1 DEF Event, SessionEvent, Says
<1>3. ASSUME NEW t \in Tool
      PROVE  Says([Event(kind) EXCEPT !.tool = t], kind, t, None, FALSE)
  BY <1>1 DEF Event, SessionEvent, Says
<1>4. ASSUME NEW n \in NativeCall \cup {None}
      PROVE  Says([Event(kind) EXCEPT !.call = n], kind, PermissionTool, n, FALSE)
  BY <1>1 DEF Event, SessionEvent, Says
<1>5. ASSUME NEW b \in BOOLEAN
      PROVE  Says([Event(kind) EXCEPT !.background = b], kind, PermissionTool, None, b)
  <2>1. [Event(kind) EXCEPT !.background = b] =
          [kind |-> kind, tool |-> PermissionTool, call |-> None, background |-> b, at |-> now]
    BY DEF Event
  <2>. QED  BY <1>1, <2>1 DEF SessionEvent, Says
<1>. QED  BY <1>2, <1>3, <1>4, <1>5

\* What a step of the provider leaves behind, next to its event.
Told(ev) ==
  /\ ev \in SessionEvent /\ WellFormed(ev) /\ ev.at = now
  /\ Moves(Current, ev, Current')
  /\ Emit(ev)

LEMMA SubmitPromptTells ==
  ASSUME AgentInv, SubmitPrompt
  PROVE  /\ \E ev : Told(ev)
         /\ agent' = "working" /\ call' = call /\ tool' = tool
<1>1. PICK ev : ev = Event("prompt_submitted")
  OBVIOUS
<1>2. Says(ev, "prompt_submitted", PermissionTool, None, FALSE)
  BY <1>1, EventSays DEF SessionKind, EventKind, ClosesSession
<1>3. WellFormed(ev)
  BY <1>2 DEF Says, WellFormed, ToolProgress
<1>4. agent # "working" /\ agent' = "working" /\ call' = call /\ tool' = tool /\ Emit(ev)
  BY <1>1 DEF SubmitPrompt
<1>5. Current' = [Current EXCEPT !.agent = "working"]
  BY <1>4 DEF Current
<1>6. Moves(Current, ev, Current')
  BY <1>2, <1>4, <1>5, CurrentTyped DEF Moves, Says
<1>. QED  BY <1>2, <1>3, <1>4, <1>6 DEF Told, Says

LEMMA ToolTells ==
  ASSUME AgentInv, \/ \E t \in Tool \ {PermissionTool} : StartTool(t)
                   \/ \E kind \in {"tool_finished", "tool_failed"} : EndTool(kind)
  PROVE  /\ \E ev : Told(ev)
         /\ agent' = agent /\ call' = call /\ agent # "idle"
         /\ tool' \in (Tool \ {PermissionTool}) \cup {None}
<1>1. PICK t \in Tool \ {PermissionTool}, kind \in ToolProgress :
        /\ Emit([Event(kind) EXCEPT !.tool = t])
        /\ agent' = agent /\ call' = call /\ agent # "idle"
        /\ tool' \in {t, None}
  BY DEF StartTool, EndTool, AgentInv, ToolProgress
<1>2. PICK ev : ev = [Event(kind) EXCEPT !.tool = t]
  OBVIOUS
<1>3. Says(ev, kind, t, None, FALSE) /\ Emit(ev)
  BY <1>1, <1>2, EventSays DEF SessionKind, EventKind, ToolProgress
<1>4. WellFormed(ev)
  BY <1>3 DEF Says, WellFormed, ToolProgress
<1>5. Current' = Current
  BY <1>1 DEF Current
<1>6. Moves(Current, ev, Current')
  BY <1>1, <1>3, <1>5, CurrentTyped DEF Moves, Says, ExactEnd
<1>. QED  BY <1>1, <1>3, <1>4, <1>6 DEF Told, Says

LEMMA StartNativeTells ==
  ASSUME AgentInv, NEW n \in NativeCall, StartNative(n)
  PROVE  /\ \E ev : Told(ev)
         /\ agent = "working" /\ agent' = agent /\ tool' = tool
         /\ call' = [call EXCEPT ![n] = "pending"] /\ (Pending = {} \/ Parallel)
<1>1. PICK ev : ev = [Event("native_requested") EXCEPT !.call = n]
  OBVIOUS
<1>2. Says(ev, "native_requested", PermissionTool, n, FALSE)
  BY <1>1, EventSays DEF SessionKind
<1>3. WellFormed(ev)
  BY <1>2, SessionAssumption DEF Says, WellFormed, ToolProgress
<1>4. /\ agent = "working" /\ call[n] = "idle" /\ (Pending = {} \/ Parallel)
      /\ call' = [call EXCEPT ![n] = "pending"] /\ agent' = agent /\ tool' = tool
      /\ Emit(ev)
  BY <1>1 DEF StartNative
<1>5. Current' = [Current EXCEPT !.call[n] = "pending"]
  BY <1>4 DEF Current
<1>6. Moves(Current, ev, Current')
  BY <1>2, <1>4, <1>5, CurrentTyped DEF Moves, Says
<1>. QED  BY <1>2, <1>3, <1>4, <1>6 DEF Told, Says

LEMMA EndNativeTells ==
  ASSUME AgentInv, NEW n \in NativeCall, NEW kind \in {"tool_finished", "tool_failed"},
         EndNative(n, kind)
  PROVE  /\ \E ev : Told(ev)
         /\ agent' = agent /\ tool' = tool /\ call' = [call EXCEPT ![n] = "ended"]
<1>0. PICK named \in {n, None} : Emit([Event(kind) EXCEPT !.call = named])
  BY DEF EndNative
<1>1. PICK ev : ev = [Event(kind) EXCEPT !.call = named]
  OBVIOUS
<1>2. Says(ev, kind, PermissionTool, named, FALSE)
  BY <1>1, EventSays DEF SessionKind, EventKind, ToolProgress
<1>3. WellFormed(ev) /\ ExactEnd(ev)
  BY <1>2, SessionAssumption DEF Says, WellFormed, ToolProgress, ExactEnd
<1>4. /\ call[n] = "pending"
      /\ call' = [call EXCEPT ![n] = "ended"] /\ agent' = agent /\ tool' = tool
      /\ Emit(ev)
  BY <1>0, <1>1 DEF EndNative
<1>5. Current' = [Current EXCEPT !.call[n] = "ended"]
  BY <1>4 DEF Current
<1>6. Moves(Current, ev, Current')
  BY <1>2, <1>3, <1>4, <1>5, CurrentTyped DEF Moves, Says
<1>. QED  BY <1>2, <1>3, <1>4, <1>6 DEF Told, Says

LEMMA StopTells ==
  ASSUME AgentInv, NEW kind \in {"stopped", "failed"}, NEW background \in BOOLEAN,
         Stop(kind, background)
  PROVE  /\ \E ev : Told(ev)
         /\ agent' \in {"idle", "background"} /\ call' = call
         /\ tool' = None /\ Pending = {}
<1>1. PICK ev : ev = [Event(kind) EXCEPT !.background = background]
  OBVIOUS
<1>2. Says(ev, kind, PermissionTool, None, background)
  BY <1>1, EventSays DEF SessionKind, EventKind, ClosesSession
<1>3. /\ agent # "idle" /\ Pending = {} /\ tool = None
      /\ background => kind = "stopped"
      /\ agent' = IF background THEN "background" ELSE "idle"
      /\ call' = call /\ tool' = tool
      /\ Emit(ev)
  BY <1>1 DEF Stop
<1>4. WellFormed(ev)
  BY <1>2, <1>3 DEF Says, WellFormed, ToolProgress
<1>5. Current' = [Current EXCEPT !.agent = IF background THEN "background" ELSE "idle"]
  BY <1>3 DEF Current
<1>6. Moves(Current, ev, Current')
  BY <1>2, <1>3, <1>5, CurrentTyped DEF Moves, Says, EndsTurn
<1>. QED  BY <1>2, <1>3, <1>4, <1>6 DEF Told, Says

LEMMA RemarkTells ==
  ASSUME AgentInv, NEW kind \in {"incidental", "compacting", "auto_reviewed"}, Remark(kind)
  PROVE  /\ \E ev : Told(ev)
         /\ agent' = agent /\ call' = call /\ tool' = tool
<1>1. PICK ev : ev = Event(kind)
  OBVIOUS
<1>2. Says(ev, kind, PermissionTool, None, FALSE)
  BY <1>1, EventSays DEF SessionKind
<1>3. WellFormed(ev)
  BY <1>2 DEF Says, WellFormed, ToolProgress
<1>4. agent # "idle" /\ agent' = agent /\ call' = call /\ tool' = tool /\ Emit(ev)
  BY <1>1 DEF Remark
<1>5. Current' = Current
  BY <1>4 DEF Current
<1>6. Moves(Current, ev, Current')
  BY <1>2, <1>4, <1>5, CurrentTyped DEF Moves, Says, ExactEnd
<1>. QED  BY <1>2, <1>3, <1>4, <1>6 DEF Told, Says

\* The provider stays within its bounds, and its step leaves one event.
LEMMA AgentStepTells ==
  ASSUME AgentInv, AgentStep
  PROVE  (\E ev : Told(ev)) /\ AgentInv'
<1>1. /\ \E ev : Told(ev)
      /\ agent' \in {"idle", "working", "background"}
      /\ call' \in [NativeCall -> {"idle", "pending", "ended"}]
      /\ tool' \in (Tool \ {PermissionTool}) \cup {None}
      /\ agent' = "idle" => tool' = None
      /\ Sound(Current)'
  <2>. DEFINE Fine == /\ \E ev : Told(ev)
                      /\ agent' \in {"idle", "working", "background"}
                      /\ call' \in [NativeCall -> {"idle", "pending", "ended"}]
                      /\ tool' \in (Tool \ {PermissionTool}) \cup {None}
                      /\ agent' = "idle" => tool' = None
                      /\ Sound(Current)'
  <2>1. Sound(Current)' = (/\ Pending' # {} => agent' = "working"
                           /\ ~Parallel => \A m, n \in Pending' : m = n)
    BY DEF Sound, Current, PendingIn, Pending
  <2>2. /\ Pending # {} => agent = "working"
        /\ ~Parallel => \A m, n \in Pending : m = n
    BY CurrentTyped DEF AgentInv, Sound
  <2>3. CASE SubmitPrompt
    <3>1. agent' = "working" /\ call' = call /\ tool' = tool /\ \E ev : Told(ev)
      BY <2>3, SubmitPromptTells
    <3>2. Pending' = Pending
      BY <3>1 DEF Pending
    <3>. QED  BY <2>1, <2>2, <3>1, <3>2 DEF AgentInv
  <2>4. CASE \/ \E t \in Tool \ {PermissionTool} : StartTool(t)
             \/ \E kind \in {"tool_finished", "tool_failed"} : EndTool(kind)
    <3>1. /\ \E ev : Told(ev)
          /\ agent' = agent /\ call' = call /\ agent # "idle"
          /\ tool' \in (Tool \ {PermissionTool}) \cup {None}
      BY <2>4, ToolTells
    <3>2. Pending' = Pending
      BY <3>1 DEF Pending
    <3>. QED  BY <2>1, <2>2, <3>1, <3>2 DEF AgentInv
  <2>5. ASSUME NEW n \in NativeCall, StartNative(n)  PROVE Fine
    <3>1. /\ \E ev : Told(ev)
          /\ agent = "working" /\ agent' = agent /\ tool' = tool
          /\ call' = [call EXCEPT ![n] = "pending"] /\ (Pending = {} \/ Parallel)
      BY <2>5, StartNativeTells
    <3>2. Pending' = Pending \cup {n} /\ call' \in [NativeCall -> {"idle", "pending", "ended"}]
      BY <3>1 DEF Pending, AgentInv
    <3>. QED  BY <2>1, <2>2, <3>1, <3>2 DEF AgentInv
  <2>6. ASSUME NEW n \in NativeCall, NEW kind \in {"tool_finished", "tool_failed"},
               EndNative(n, kind)
        PROVE  Fine
    <3>1. /\ \E ev : Told(ev)
          /\ agent' = agent /\ tool' = tool /\ call' = [call EXCEPT ![n] = "ended"]
      BY <2>6, EndNativeTells
    <3>2. Pending' \subseteq Pending
          /\ call' \in [NativeCall -> {"idle", "pending", "ended"}]
      BY <3>1 DEF Pending, AgentInv
    <3>. QED  BY <2>1, <2>2, <3>1, <3>2 DEF AgentInv
  <2>7. ASSUME NEW kind \in {"stopped", "failed"}, NEW background \in BOOLEAN,
               Stop(kind, background)
        PROVE  Fine
    <3>1. /\ \E ev : Told(ev)
          /\ agent' \in {"idle", "background"} /\ call' = call
          /\ tool' = None /\ Pending = {}
      BY <2>7, StopTells
    <3>2. Pending' = {}
      BY <3>1 DEF Pending
    <3>. QED  BY <2>1, <3>1, <3>2 DEF AgentInv
  <2>8. ASSUME NEW kind \in {"incidental", "compacting", "auto_reviewed"}, Remark(kind)
        PROVE  Fine
    <3>1. (\E ev : Told(ev)) /\ agent' = agent /\ call' = call /\ tool' = tool
      BY <2>8, RemarkTells
    <3>2. Pending' = Pending
      BY <3>1 DEF Pending
    <3>. QED  BY <2>1, <2>2, <3>1, <3>2 DEF AgentInv
  <2>. HIDE DEF Fine
  <2>9. Fine
    BY <2>3, <2>4, <2>5, <2>6, <2>7, <2>8 DEF AgentStep, Fine
  <2>. QED  BY <2>9 DEF Fine
<1>2. PICK ev : Told(ev)
  BY <1>1
<1>3. /\ ev \in SessionEvent /\ WellFormed(ev) /\ ev.at = now
      /\ emitted < MaxEvents /\ emitted' = emitted + 1
      /\ mail' = Append(mail, ev) /\ now' = now
  BY <1>2 DEF Told, Emit
<1>4. /\ mail' \in Seq(SessionEvent) /\ Len(mail') = Len(mail) + 1 /\ Len(mail) \in Nat
      /\ mail'[Len(mail')] = ev
      /\ \A i \in 1..Len(mail) : mail'[i] = mail[i]
  BY <1>3 DEF AgentInv
<1>5. ASSUME NEW i \in 1..Len(mail')  PROVE WellFormed(mail'[i]) /\ mail'[i].at <= now
  <2>1. CASE i = Len(mail')
    BY <1>3, <1>4, <2>1 DEF AgentInv
  <2>2. CASE i \in 1..Len(mail)
    BY <1>4, <2>2 DEF AgentInv
  <2>. QED  BY <1>4, <2>1, <2>2
<1>6. emitted' \in 0..MaxEvents
  BY <1>3, HookAssumption DEF AgentInv
<1>7. \A i \in 1..Len(mail') : WellFormed(mail'[i]) /\ mail'[i].at <= now'
  BY <1>3, <1>5
<1>. QED  BY <1>1, <1>3, <1>4, <1>6, <1>7 DEF AgentInv

\* What arrives was in the mail, and the rest stays in its order.
LEMMA RemovedAt ==
  ASSUME NEW S, NEW s \in Seq(S), NEW i \in 1..Len(s), NEW rest, rest = RemoveAt(s, i)
  PROVE  /\ rest \in Seq(S) /\ Len(rest) = Len(s) - 1
         /\ \A j \in 1..Len(rest) : rest[j] = s[IF j < i THEN j ELSE j + 1]
<1>1. PICK before, after : before = SubSeq(s, 1, i - 1) /\ after = SubSeq(s, i + 1, Len(s))
  OBVIOUS
<1>2. Len(s) \in Nat /\ i \in Nat
  OBVIOUS
<1>3. /\ before \in Seq(S) /\ Len(before) = i - 1
      /\ \A j \in 1..(i - 1) : before[j] = s[j]
  BY <1>1, <1>2
<1>4. /\ after \in Seq(S) /\ Len(after) = Len(s) - i
      /\ \A j \in 1..(Len(s) - i) : after[j] = s[i + j]
  BY <1>1, <1>2
<1>5. rest = before \o after
  BY <1>1 DEF RemoveAt
<1>6. rest \in Seq(S) /\ Len(rest) = Len(s) - 1
  <2>1. before \in Seq(S) /\ after \in Seq(S)
    BY <1>3, <1>4
  <2>2. rest \in Seq(S) /\ Len(rest) = Len(before) + Len(after)
    BY <1>5, <2>1
  <2>. QED  BY <1>2, <1>3, <1>4, <2>2
<1>7. ASSUME NEW j \in 1..Len(rest)  PROVE rest[j] = s[IF j < i THEN j ELSE j + 1]
  <2>1. CASE j < i
    <3>1. rest[j] = before[j]
      BY <1>2, <1>3, <1>4, <1>5, <2>1
    <3>. QED  BY <1>2, <1>3, <2>1, <3>1
  <2>2. CASE j >= i
    <3>1. j - (i - 1) \in 1..(Len(s) - i) /\ i + (j - (i - 1)) = j + 1
      BY <1>2, <1>6, <2>2
    <3>2. rest[j] = after[j - (i - 1)]
      BY <1>2, <1>3, <1>4, <1>5, <1>6, <2>2
    <3>. QED  BY <1>2, <1>4, <2>2, <3>1, <3>2
  <2>. QED  BY <1>2, <2>1, <2>2
<1>. QED  BY <1>6, <1>7

-----------------------------------------------------------------------------
(* The session under the hooks *)

\* An event of the mail is one the session may ingest.
LEMMA DeliverIngests ==
  ASSUME AgentInv, NEW i \in Nat, Deliver(i)
  PROVE  /\ i \in 1..Len(mail) /\ mail[i] \in SessionEvent /\ WellFormed(mail[i])
         /\ mail[i].at <= now
         /\ SessionIngest(mail[i]) /\ SessionStep
<1>1. /\ i \in 1..Len(mail) /\ mail[i] \in SessionEvent /\ WellFormed(mail[i])
      /\ mail[i].at <= now /\ SessionIngest(mail[i])
  BY DEF Deliver, AgentInv
<1>2. PICK ev : ev = mail[i]
  OBVIOUS
<1>3. /\ ev.kind \in SessionKind /\ ev.tool \in Tool /\ ev.call \in NativeCall \cup {None}
      /\ ev.background \in BOOLEAN /\ ev.at \in 0..now
      /\ ev = [kind |-> ev.kind, tool |-> ev.tool, call |-> ev.call,
               background |-> ev.background, at |-> ev.at]
  BY <1>1, <1>2 DEF SessionEvent, AgentInv
<1>4. SessionStep
  <2>1. PICK kind \in SessionKind, t \in Tool, c \in NativeCall \cup {None},
             background \in BOOLEAN, at \in 0..now :
          ev = [kind |-> kind, tool |-> t, call |-> c, background |-> background, at |-> at]
    BY <1>3
  <2>. QED  BY <1>1, <1>2, <2>1, Zenon DEF SessionStep
<1>. QED  BY <1>1, <1>4

LEMMA HookSessionStep ==
  ASSUME AgentInv, [HookNext]_hookVars
  PROVE  [SessionNext]_sessionSpecVars
<1>. USE DEF sessionSpecVars
<1>1. CASE AgentStep
  <2>1. PICK ev : Told(ev)
    BY <1>1, AgentStepTells
  <2>. QED  BY <2>1 DEF Told, Emit
<1>2. CASE \E i \in 1..MaxEvents : Deliver(i)
  <2>1. PICK i \in 1..MaxEvents : Deliver(i)
    BY <1>2
  <2>2. i \in Nat
    BY HookAssumption
  <2>. QED  BY <2>1, <2>2, DeliverIngests DEF Deliver, SessionNext
<1>3. CASE \E r \in Request : HookRequests(r)
  BY <1>3 DEF HookRequests, SessionNext, SessionStep
<1>4. CASE \E c \in Command, n \in NativeItem, action \in {"snooze", "dismiss"} :
             UserActs(c, n, action)
  BY <1>4 DEF UserActs, SessionNext, SessionStep, AttentionAction
<1>5. CASE HookReopenDue
  BY <1>5 DEF HookReopenDue, SessionNext, SessionStep
<1>6. CASE \E r \in Request : HookExpires(r)
  BY <1>6 DEF HookExpires, SessionNext, SessionStep, DecisionStep
<1>7. CASE Tick /\ UNCHANGED <<storeVars, sessionVars, agentVars>>
  BY <1>7 DEF SessionNext
<1>8. CASE UNCHANGED hookVars
  BY <1>8 DEF hookVars
<1>. QED  BY <1>1, <1>2, <1>3, <1>4, <1>5, <1>6, <1>7, <1>8 DEF HookNext

LEMMA HookNextKeepsAgent ==
  ASSUME AgentInv, [HookNext]_hookVars
  PROVE  AgentInv'
<1>1. CASE AgentStep
  BY <1>1, AgentStepTells
<1>2. ASSUME UNCHANGED agentVars, now' \in Nat, now' >= now  PROVE AgentInv'
  <2>1. Sound(Current)'
    BY <1>2 DEF AgentInv, agentVars, Sound, Current, PendingIn
  <2>2. \A i \in 1..Len(mail) : mail[i].at \in Nat
    <3>1. \A i \in 1..Len(mail) : mail[i] \in SessionEvent
      BY ElementTyped DEF AgentInv
    <3>. QED  BY <3>1 DEF SessionEvent
  <2>. QED  BY <1>2, <2>1, <2>2 DEF AgentInv, agentVars
<1>3. ASSUME NEW i \in 1..MaxEvents, Deliver(i)  PROVE AgentInv'
  <2>1. /\ UNCHANGED <<now, agent, call, tool, emitted>>
        /\ mail' = RemoveAt(mail, i) /\ i \in 1..Len(mail) /\ mail \in Seq(SessionEvent)
    BY <1>3 DEF Deliver, AgentInv
  <2>2. /\ mail' \in Seq(SessionEvent) /\ Len(mail') = Len(mail) - 1
        /\ \A j \in 1..Len(mail') : mail'[j] = mail[IF j < i THEN j ELSE j + 1]
    BY <2>1, RemovedAt
  <2>3. \A j \in 1..Len(mail') : (IF j < i THEN j ELSE j + 1) \in 1..Len(mail)
    BY <2>1, <2>2
  <2>4. \A j \in 1..Len(mail') : WellFormed(mail'[j]) /\ mail'[j].at <= now'
    BY <2>1, <2>2, <2>3 DEF AgentInv
  <2>5. Sound(Current)'
    BY <2>1 DEF AgentInv, Sound, Current, PendingIn
  <2>. QED  BY <2>1, <2>2, <2>4, <2>5 DEF AgentInv
<1>4. CASE \/ \E r \in Request : HookRequests(r)
           \/ \E c \in Command, n \in NativeItem, action \in {"snooze", "dismiss"} :
                UserActs(c, n, action)
           \/ HookReopenDue
           \/ \E r \in Request : HookExpires(r)
           \/ Tick /\ UNCHANGED <<storeVars, sessionVars, agentVars>>
           \/ UNCHANGED hookVars
  <2>1. UNCHANGED agentVars /\ (now' = now \/ now' = now + 1)
    BY <1>4 DEF HookRequests, UserActs, HookReopenDue, HookExpires, Tick, hookVars
  <2>2. now' \in Nat /\ now' >= now
    BY <2>1 DEF AgentInv
  <2>. QED  BY <1>2, <2>1, <2>2
<1>. QED  BY <1>1, <1>3, <1>4 DEF HookNext

LEMMA AgentInvHolds == HookSpec => []AgentInv
<1>1. HookInit => AgentInv
  <2>. SUFFICES ASSUME HookInit PROVE AgentInv
    OBVIOUS
  <2>1. now = 0 /\ Sound(Current)
    BY DEF HookInit, SessionInit, StoreInit, Sound, Current, PendingIn
  <2>. QED  BY <2>1, HookAssumption DEF HookInit, AgentInv
<1>. QED  BY <1>1, HookNextKeepsAgent, PTL DEF HookSpec

\* Whatever the order the events arrive in, they change the session only as
\* SessionStore says.
THEOREM HookImplementsSession == HookSpec => SessionSpec
<1>1. HookInit => SessionInit
  BY DEF HookInit
<1>. QED  BY <1>1, HookSessionStep, AgentInvHolds, PTL DEF HookSpec, SessionSpec

\* The provider, its mail and the session keep their types.
THEOREM HookTypeCorrect == HookSpec => []HookTypeOK
<1>1. AgentInv /\ SessionTypeOK => HookTypeOK
  BY DEF AgentInv, HookTypeOK
<1>. QED  BY <1>1, AgentInvHolds, HookImplementsSession, SessionTypeCorrect, PTL

-----------------------------------------------------------------------------
(* One event, in the order it happened *)

LEMMA MoveIsSound ==
  ASSUME NEW s \in AgentState, NEW u \in AgentState, NEW ev, Sound(s), Moves(s, ev, u)
  PROVE  Sound(u)
<1>1. CASE u = s
  BY <1>1
<1>2. ASSUME u.call = s.call, PendingIn(s) = {}  PROVE Sound(u)
  BY <1>2 DEF Sound, PendingIn
<1>3. CASE s.agent # "working" /\ u = [s EXCEPT !.agent = "working"]
  BY <1>2, <1>3 DEF AgentState, Sound
<1>4. CASE /\ PendingIn(s) = {}
           /\ u = [s EXCEPT !.agent = IF ev.background THEN "background" ELSE "idle"]
  <2>1. u.call = s.call
    BY <1>4 DEF AgentState
  <2>. QED  BY <1>2, <1>4, <2>1
<1>5. ASSUME NEW n \in NativeCall, s.agent = "working", PendingIn(s) = {} \/ Parallel,
             u = [s EXCEPT !.call[n] = "pending"]
      PROVE  Sound(u)
  <2>1. u.agent = s.agent /\ u.call = [s.call EXCEPT ![n] = "pending"]
    BY <1>5 DEF AgentState
  <2>2. PendingIn(u) \subseteq PendingIn(s) \cup {n}
    BY <2>1 DEF AgentState, PendingIn
  <2>. QED  BY <1>5, <2>1, <2>2 DEF Sound
<1>6. ASSUME NEW n \in NativeCall, u = [s EXCEPT !.call[n] = "ended"]
      PROVE  Sound(u)
  <2>1. u.agent = s.agent /\ u.call = [s.call EXCEPT ![n] = "ended"]
    BY <1>6 DEF AgentState
  <2>2. PendingIn(u) \subseteq PendingIn(s)
    BY <2>1 DEF AgentState, PendingIn
  <2>. QED  BY <2>1, <2>2 DEF Sound
<1>. QED  BY <1>1, <1>3, <1>4, <1>5, <1>6 DEF Moves

\* While a turn runs, events within it belong to the last turn that runs and
\* leave the turns as they are.
LEMMA TurnIsKept ==
  ASSUME SessionInv, NEW kind, NEW turn, Selects(kind, turn), turns' = TurnsAfter(kind, turn),
         Running # {},
         kind \notin {"session_started", "session_ended", "prompt_submitted"} \cup EndsTurn
  PROVE  IsLast(Running, turn) /\ turns' = turns
<1>1. IsLast(Running, turn)
  BY DEF Selects
<1>2. turns[turn] = "running" /\ turn \in Turn
  BY <1>1 DEF IsLast, Running
<1>3. \A t \in Turn : TurnsAfter(kind, turn)[t] = turns[t]
  BY <1>2 DEF TurnsAfter
<1>. QED  BY <1>1, <1>3 DEF SessionInv, SessionRowsTyped, TurnsAfter

\* A prompt starts a turn.
LEMMA TurnIsBegun ==
  ASSUME SessionInv, NEW turn \in Turn \cup {None}, Selects("prompt_submitted", turn),
         turns' = TurnsAfter("prompt_submitted", turn)
  PROVE  Running' # {}
<1>1. turn \in Turn /\ (turn \in Known <=> turn < turn)
  BY DEF Selects
<1>2. turns[turn] = "none"
  BY <1>1, SessionAssumption DEF Known
<1>3. turns'[turn] = "running"
  BY <1>1, <1>2 DEF TurnsAfter, EndsTurn
<1>. QED  BY <1>1, <1>3 DEF Running

LEMMA LastIsOne ==
  ASSUME NEW T \in SUBSET Turn, NEW t, NEW u, IsLast(T, t), IsLast(T, u)
  PROVE  t = u
BY SessionAssumption DEF IsLast

\* The row after an event that is not out of date.
LEMMA RowFollows ==
  ASSUME SessionInv, NEW ev \in SessionEvent, session' = SessionAfter(ev),
         ev.at >= session.last,
         session.state \in FinishedState => ev.kind = "prompt_submitted"
  PROVE  session'.state = NextView(ev).state /\ session'.owner = NextView(ev).owner
BY DEF SessionAfter, MayUpdate

\* What the row becomes by an event that neither begins nor ends a wait.
LEMMA QuietView ==
  ASSUME NEW ev \in SessionEvent, ~ExactEnd(ev), session.state \in BusyState,
         ev.kind \in ToolProgress \cup {"incidental", "compacting", "auto_reviewed"}
                       \cup {"approval_requested", "question_requested"}
  PROVE  /\ NextView(ev).state \in BusyState
         /\ session.state = "awaiting_approval" /\ session.owner = "terminal" =>
              NextView(ev).state = "awaiting_approval" /\ NextView(ev).owner = "terminal"
         /\ session.owner # "terminal" => NextView(ev).owner # "terminal"
<1>1. ~ResolvesNative(ev)
  BY DEF ResolvesNative, ToolProgress, ClosesSession
<1>2. /\ Projected(ev).state \in BusyState
      /\ Projected(ev).owner \in {None, "widget"}
  BY DEF Projected, ToolProgress, BusyState
<1>3. CASE PreservesNative(ev)
  BY <1>3 DEF NextView, PreservesNative, ToolProgress, BusyState
<1>4. CASE ~PreservesNative(ev) /\ ev.kind = "auto_reviewed"
  BY <1>1, <1>4 DEF NextView, PreservesNative, BusyState
<1>5. CASE ~PreservesNative(ev) /\ ev.kind # "auto_reviewed"
  <2>1. NextView(ev) = Projected(ev)
    BY <1>5 DEF NextView, ToolProgress
  <2>. QED  BY <1>1, <1>2, <1>5, <2>1, SessionAssumption DEF PreservesNative
<1>. QED  BY <1>3, <1>4, <1>5

\* Such an event leaves the turns and the cards of a working provider alone.
LEMMA QuietKeepsMatch ==
  ASSUME SessionInv, NEW s \in AgentState, Sound(s), Matches(s), s.agent # "idle",
         native' = native,
         s.agent = "working" => turns' = turns,
         session'.state \in BusyState,
         session.state = "awaiting_approval" /\ session.owner = "terminal" =>
           session'.state = "awaiting_approval" /\ session'.owner = "terminal",
         session.owner # "terminal" => session'.owner # "terminal"
  PROVE  Matches(s)'
<1>1. s.agent \in {"working", "background"}
  BY DEF AgentState
<1>2. s.agent = "working" => Running' = Running
  BY DEF Running
<1>3. ASSUME NEW n \in NativeCall  PROVE CardMatches(s, n)'
  <2>1. CardMatches(s, n)
    BY DEF Matches
  <2>2. s.call[n] = "pending" => s.agent = "working"
    BY DEF Sound, PendingIn
  <2>. QED  BY <1>2, <2>1, <2>2 DEF CardMatches
<1>. QED  BY <1>1, <1>2, <1>3 DEF Matches

\* An event of the mail is ingested when the store shows s and it leads to u.
Ingests(s, ev, u, turn) ==
  /\ s \in AgentState /\ u \in AgentState /\ Sound(s) /\ Matches(s)
  /\ ev \in SessionEvent /\ WellFormed(ev) /\ ev.at >= session.last
  /\ turn \in Turn \cup {None} /\ Ingested(ev, turn)

LEMMA QuietIngested ==
  ASSUME SessionInv, NEW s, NEW ev, NEW turn, Ingests(s, ev, s, turn),
         ev.kind \in ToolProgress \cup {"incidental", "compacting", "auto_reviewed"},
         ~ExactEnd(ev), s.agent # "idle"
  PROVE  Matches(s)'
<1>1. session.state \in BusyState /\ session.state \notin FinishedState
  BY DEF Ingests, AgentState, Matches, BusyState, FinishedState
<1>2. session'.state = NextView(ev).state /\ session'.owner = NextView(ev).owner
  BY <1>1, RowFollows DEF Ingests, Ingested
<1>3. native' = native
  BY DEF Ingests, Ingested, NativeAfter, ResolvesNative, ToolProgress, ClosesSession
<1>4. s.agent = "working" => turns' = turns
  BY TurnIsKept DEF Ingests, Ingested, Matches, ToolProgress, EndsTurn
<1>5. /\ NextView(ev).state \in BusyState
      /\ session.state = "awaiting_approval" /\ session.owner = "terminal" =>
           NextView(ev).state = "awaiting_approval" /\ NextView(ev).owner = "terminal"
      /\ session.owner # "terminal" => NextView(ev).owner # "terminal"
  BY <1>1, QuietView DEF Ingests
<1>. QED  BY <1>2, <1>3, <1>4, <1>5, QuietKeepsMatch DEF Ingests

\* The start of a call shows its card and its wait.
LEMMA StartIngested ==
  ASSUME SessionInv, NEW s, NEW ev, NEW u, NEW turn, Ingests(s, ev, u, turn),
         ev.kind = "native_requested", ev.call \in NativeCall,
         s.agent = "working", s.call[ev.call] = "idle",
         PendingIn(s) = {} \/ Parallel, u = [s EXCEPT !.call[ev.call] = "pending"]
  PROVE  Matches(u)'
<1>. DEFINE n == ev.call
<1>1. /\ session.state \in BusyState /\ session.state \notin FinishedState /\ Running # {}
      /\ native[n].state = "none"
  BY DEF Ingests, Matches, CardMatches, BusyState, FinishedState
<1>2. NextView(ev) = [state |-> "awaiting_approval", owner |-> "terminal"]
  BY DEF NextView
<1>3. session'.state = "awaiting_approval" /\ session'.owner = "terminal"
  BY <1>1, <1>2, RowFollows DEF Ingests, Ingested
<1>4. IsLast(Running, turn) /\ turns' = turns /\ Running' = Running
  <2>1. IsLast(Running, turn) /\ turns' = turns
    BY <1>1, TurnIsKept DEF Ingests, Ingested, EndsTurn
  <2>. QED  BY <2>1 DEF Running
<1>5. native' = [native EXCEPT ![n] = [NoNative EXCEPT !.state = "open", !.turn = turn]]
  BY <1>1 DEF Ingests, Ingested, NativeAfter
<1>6. /\ native'[n].state = "open" /\ native'[n].turn = turn
      /\ \A m \in NativeCall \ {n} : native'[m] = native[m]
  BY <1>5 DEF SessionInv, SessionRowsTyped, NativeItem, NoNative
<1>7. u.agent = "working" /\ u.call = [s.call EXCEPT ![n] = "pending"]
      /\ u.call[n] = "pending" /\ \A m \in NativeCall \ {n} : u.call[m] = s.call[m]
  BY DEF Ingests, AgentState
<1>8. PendingIn(u) # {}
  BY <1>7 DEF PendingIn
<1>9. ASSUME NEW m \in NativeCall  PROVE CardMatches(u, m)'
  <2>1. CASE m = n
    BY <1>3, <1>4, <1>6, <1>7, <2>1 DEF CardMatches
  <2>2. CASE m # n
    BY <1>3, <1>4, <1>6, <1>7, <2>2 DEF Ingests, Matches, CardMatches
  <2>. QED  BY <2>1, <2>2
<1>. QED  BY <1>1, <1>3, <1>4, <1>7, <1>8, <1>9 DEF Matches, BusyState

\* The end of a call resolves its card and, when it was the only one, ends the
\* wait.
LEMMA EndIngested ==
  ASSUME SessionInv, NEW s, NEW ev, NEW u, NEW turn, Ingests(s, ev, u, turn),
         ExactEnd(ev), NEW n \in NativeCall, ev.call \in {n, None},
         s.call[n] = "pending", u = [s EXCEPT !.call[n] = "ended"]
  PROVE  Matches(u)'
<1>1. s.agent = "working"
  BY DEF Ingests, Sound, PendingIn
<1>2. /\ session.state \in BusyState /\ session.state \notin FinishedState /\ Running # {}
      /\ IsLast(Running, native[n].turn)
  BY <1>1 DEF Ingests, Matches, CardMatches, BusyState, FinishedState
<1>3. ev.kind \in {"tool_finished", "tool_failed"}
  BY DEF ExactEnd
<1>4. ResolvesNative(ev)
  BY DEF ResolvesNative
<1>5. session'.state = "thinking" /\ session'.owner = None
  <2>1. NextView(ev) = Projected(ev)
    BY <1>3, <1>4 DEF NextView, PreservesNative
  <2>2. Projected(ev) = [state |-> "thinking", owner |-> None]
    BY <1>3 DEF Projected
  <2>. QED  BY <1>2, <2>1, <2>2, RowFollows DEF Ingests, Ingested
<1>6. IsLast(Running, turn) /\ turns' = turns /\ Running' = Running
  <2>1. IsLast(Running, turn) /\ turns' = turns
    BY <1>2, <1>3, TurnIsKept DEF Ingests, Ingested, EndsTurn
  <2>. QED  BY <2>1 DEF Running
<1>7. native[n].turn = turn
  BY <1>2, <1>6, LastIsOne DEF Running
<1>8. native' = ResolvedNative(NativeResolvedBy(ev, turn))
  BY <1>3, <1>4 DEF Ingests, Ingested, NativeAfter
<1>9. /\ native'[n].state \notin {"open", "snoozed"}
      /\ \A m \in NativeCall :
           /\ native'[m].turn = native[m].turn
           /\ \/ native'[m].state = native[m].state
              \/ native[m].state \in {"open", "snoozed"} /\ native'[m].state = "resolved"
  <2>1. NativeCall \subseteq NativeItem /\ native \in [NativeItem -> NativeRow]
    BY DEF NativeItem, SessionInv, SessionRowsTyped
  <2>2. ASSUME NEW m \in NativeCall
        PROVE  /\ native'[m].turn = native[m].turn
               /\ m \in NativeResolvedBy(ev, turn) =>
                    native[m].state \in {"open", "snoozed"} /\ native'[m].state = "resolved"
               /\ m \notin NativeResolvedBy(ev, turn) => native'[m].state = native[m].state
    <3>1. m \in NativeItem /\ native[m] \in NativeRow
      BY <2>1
    <3>2. CASE m \in NativeResolvedBy(ev, turn)
      <4>1. native'[m] = [native[m] EXCEPT !.state = "resolved", !.expiresAt = None]
        BY <1>8, <3>1, <3>2 DEF ResolvedNative
      <4>2. native'[m].state = "resolved" /\ native'[m].turn = native[m].turn
        BY <3>1, <4>1 DEF NativeRow
      <4>. QED  BY <3>2, <4>2 DEF NativeResolvedBy, OpenNative
    <3>3. CASE m \notin NativeResolvedBy(ev, turn)
      BY <1>8, <3>1, <3>3 DEF ResolvedNative
    <3>. QED  BY <3>2, <3>3
  <2>3. native[n].state \in {"open", "snoozed"} => n \in NativeResolvedBy(ev, turn)
    BY <1>7, <2>1 DEF NativeResolvedBy, OpenNative
  <2>4. native'[n].state \notin {"open", "snoozed"}
    BY <2>2, <2>3
  <2>. QED  BY <2>2, <2>4
<1>10. u.agent = "working" /\ u.call[n] = "ended"
       /\ \A m \in NativeCall \ {n} : u.call[m] = s.call[m]
  BY <1>1 DEF Ingests, AgentState
<1>11. ASSUME NEW m \in NativeCall  PROVE CardMatches(u, m)'
  <2>1. CASE m = n
    BY <1>9, <1>10, <2>1 DEF CardMatches
  <2>2. CASE m # n
    <3>1. s.call[m] = "pending" => Parallel
      BY <2>2 DEF Ingests, Sound, PendingIn
    <3>. QED  BY <1>6, <1>9, <1>10, <2>2, <3>1 DEF Ingests, Matches, CardMatches
  <2>. QED  BY <2>1, <2>2
<1>12. None # "terminal"
  BY SessionAssumption
<1>. QED  BY <1>2, <1>5, <1>6, <1>10, <1>11, <1>12 DEF Matches, BusyState

\* A prompt or a Stop resolves the cards there are and sets the session.
LEMMA CloseIngested ==
  ASSUME SessionInv, NEW s, NEW ev, NEW u, NEW turn, Ingests(s, ev, u, turn),
         PendingIn(s) = {}, u.call = s.call,
         \/ ev.kind = "prompt_submitted" /\ u.agent = "working"
         \/ /\ ev.kind \in EndsTurn /\ s.agent # "idle"
            /\ ev.background => ev.kind = "stopped"
            /\ u.agent = IF ev.background THEN "background" ELSE "idle"
  PROVE  Matches(u)'
<1>1. ev.kind \in ClosesSession /\ ~ExactEnd(ev) /\ ResolvesNative(ev)
      /\ ev.kind \notin {"native_requested", "auto_reviewed"}
  BY DEF EndsTurn, ClosesSession, ExactEnd, ResolvesNative
<1>2. session'.state = Projected(ev).state /\ session'.owner = Projected(ev).owner
  <2>1. session.state \in FinishedState => ev.kind = "prompt_submitted"
    BY DEF Ingests, Matches, AgentState, BusyState, FinishedState
  <2>2. NextView(ev) = Projected(ev)
    BY <1>1 DEF NextView, PreservesNative
  <2>. QED  BY <2>1, <2>2, RowFollows DEF Ingests, Ingested
<1>3. /\ Projected(ev).owner = None
      /\ u.agent = "working" => Projected(ev).state = "thinking"
      /\ u.agent = "background" => Projected(ev).state = "tool_running"
      /\ u.agent = "idle" => Projected(ev).state \in FinishedState
  BY DEF Projected, EndsTurn, FinishedState
<1>4. u.agent = "working" => Running' # {}
  BY TurnIsBegun DEF Ingests, Ingested, EndsTurn
<1>5. native' = ResolvedNative(NativeResolvedBy(ev, turn))
      /\ NativeResolvedBy(ev, turn) = OpenNative
  BY <1>1 DEF Ingests, Ingested, NativeAfter, NativeResolvedBy, OpenNative
<1>6. ASSUME NEW n \in NativeCall
      PROVE  /\ native'[n].state \notin {"open", "snoozed"}
             /\ native[n].state = "none" => native'[n].state = "none"
  <2>1. n \in NativeItem /\ native[n] \in NativeRow
    BY DEF NativeItem, SessionInv, SessionRowsTyped
  <2>2. CASE n \in OpenNative
    <3>1. native'[n] = [native[n] EXCEPT !.state = "resolved", !.expiresAt = None]
      BY <1>5, <2>1, <2>2 DEF ResolvedNative
    <3>2. native'[n].state = "resolved"
      BY <2>1, <3>1 DEF NativeRow
    <3>. QED  BY <2>2, <3>2 DEF OpenNative
  <2>3. CASE n \notin OpenNative
    <3>1. native'[n] = native[n]
      BY <1>5, <2>1, <2>3 DEF ResolvedNative
    <3>. QED  BY <2>1, <2>3, <3>1 DEF OpenNative
  <2>. QED  BY <2>2, <2>3
<1>7. ASSUME NEW n \in NativeCall  PROVE CardMatches(u, n)'
  <2>1. u.call[n] # "pending"
    BY DEF PendingIn
  <2>. QED  BY <1>6, <2>1 DEF Ingests, Matches, CardMatches
<1>8. None # "terminal"
  BY SessionAssumption
<1>. QED  BY <1>2, <1>3, <1>4, <1>7, <1>8 DEF Matches, BusyState

LEMMA MoveIngested ==
  ASSUME SessionInv, NEW s, NEW ev, NEW u, NEW turn, Ingests(s, ev, u, turn), Moves(s, ev, u)
  PROVE  Matches(u)'
<1>1. CASE /\ ev.kind = "prompt_submitted"
           /\ s.agent # "working" /\ u = [s EXCEPT !.agent = "working"]
  <2>1. PendingIn(s) = {} /\ u.call = s.call /\ u.agent = "working"
    BY <1>1 DEF Ingests, Sound, AgentState
  <2>. QED  BY <1>1, <2>1, CloseIngested
<1>2. CASE /\ ev.kind \in ToolProgress \cup {"incidental", "compacting", "auto_reviewed"}
           /\ ~ExactEnd(ev)
           /\ s.agent # "idle" /\ u = s
  BY <1>2, QuietIngested
<1>3. CASE /\ ev.kind = "native_requested" /\ ev.call \in NativeCall
           /\ s.agent = "working" /\ s.call[ev.call] = "idle"
           /\ PendingIn(s) = {} \/ Parallel
           /\ u = [s EXCEPT !.call[ev.call] = "pending"]
  BY <1>3, StartIngested
<1>4. CASE \E n \in NativeCall :
             /\ ExactEnd(ev) /\ ev.call \in {n, None}
             /\ s.call[n] = "pending" /\ u = [s EXCEPT !.call[n] = "ended"]
  BY <1>4, EndIngested
<1>5. CASE /\ ev.kind \in EndsTurn
           /\ ev.background => ev.kind = "stopped"
           /\ s.agent # "idle" /\ PendingIn(s) = {}
           /\ u = [s EXCEPT !.agent = IF ev.background THEN "background" ELSE "idle"]
  <2>1. u.call = s.call /\ u.agent = IF ev.background THEN "background" ELSE "idle"
    BY <1>5 DEF Ingests, AgentState
  <2>. QED  BY <1>5, <2>1, CloseIngested
<1>. QED  BY <1>1, <1>2, <1>3, <1>4, <1>5 DEF Moves

-----------------------------------------------------------------------------
(* The way of the events, when they are ingested as they happened *)

WayInv == MailInOrder /\ \E st : Way(st)

\* An event still to come goes to the end of the way.
LEMMA EmitKeepsWay ==
  ASSUME AgentInv, AgentInv', SessionInv, WayInv, NEW ev, Told(ev)
  PROVE  WayInv'
<1>1. PICK st : Way(st)
  BY DEF WayInv
<1>2. /\ mail' = Append(mail, ev) /\ UNCHANGED <<now, storeVars, sessionVars>>
      /\ ev \in SessionEvent /\ ev.at = now
      /\ Moves(Current, ev, Current')
  BY DEF Told, Emit
<1>3. /\ Len(mail') = Len(mail) + 1 /\ Len(mail) \in Nat /\ mail'[Len(mail')] = ev
      /\ \A i \in 1..Len(mail) : mail'[i] = mail[i]
  BY <1>2 DEF AgentInv
<1>4. PICK here : here = Current'
  OBVIOUS
<1>5. here \in AgentState
  BY <1>4 DEF AgentInv, Current, AgentState
<1>6. PICK to : to = [i \in 0..Len(mail') |-> IF i = Len(mail') THEN here ELSE st[i]]
  OBVIOUS
<1>7. /\ to \in [0..Len(mail') -> AgentState]
      /\ to[Len(mail')] = here
      /\ \A i \in 0..Len(mail) : to[i] = st[i]
  BY <1>1, <1>3, <1>5, <1>6 DEF Way
<1>8. \A i \in 1..Len(mail') : Moves(to[i - 1], mail'[i], to[i])
  <2>. SUFFICES ASSUME NEW i \in 1..Len(mail')
                PROVE  Moves(to[i - 1], mail'[i], to[i])
    OBVIOUS
  <2>1. CASE i = Len(mail')
    <3>1. i - 1 \in 0..Len(mail) /\ i - 1 = Len(mail)
      BY <1>3, <2>1
    <3>2. to[i - 1] = Current /\ mail'[i] = ev /\ to[i] = Current'
      BY <1>1, <1>3, <1>4, <1>7, <2>1, <3>1 DEF Way
    <3>. QED  BY <1>2, <3>2
  <2>2. CASE i \in 1..Len(mail)
    <3>1. i - 1 \in 0..Len(mail) /\ i \in 0..Len(mail)
      BY <1>3, <2>2
    <3>2. to[i - 1] = st[i - 1] /\ mail'[i] = mail[i] /\ to[i] = st[i]
      BY <1>3, <1>7, <2>2, <3>1
    <3>. QED  BY <1>1, <2>2, <3>2 DEF Way
  <2>. QED  BY <1>3, <2>1, <2>2
<1>9. Matches(st[0])' /\ Sound(st[0])
  BY <1>1, <1>2 DEF Way, Matches, CardMatches, Running, sessionVars
<1>10. to[0] = st[0]
  BY <1>3, <1>7
<1>11. Way(to)'
  BY <1>4, <1>7, <1>8, <1>9, <1>10 DEF Way
<1>12. MailInOrder'
  <2>1. session' = session /\ now' = now /\ session.last <= now /\ session.last \in Nat
    BY <1>2 DEF WayInv, MailInOrder, sessionVars, SessionInv, SessionRowsTyped, SessionRow
  <2>2. ASSUME NEW i \in 1..Len(mail')
        PROVE  /\ session'.last <= mail'[i].at /\ mail'[i].at <= now
               /\ mail'[i].at \in Nat
    <3>1. mail'[i].at \in Nat
      <4>1. mail' \in Seq(SessionEvent)
        BY DEF AgentInv
      <4>2. mail'[i] \in SessionEvent
        BY <4>1, ElementTyped
      <4>. QED  BY <4>2 DEF SessionEvent
    <3>2. CASE i = Len(mail')
      BY <1>2, <1>3, <2>1, <3>1, <3>2
    <3>3. CASE i \in 1..Len(mail)
      BY <1>3, <2>1, <3>1, <3>3 DEF WayInv, MailInOrder, AgentInv
    <3>. QED  BY <1>3, <3>2, <3>3
  <2>3. ASSUME NEW i \in 1..Len(mail'), NEW j \in 1..Len(mail'), i <= j
        PROVE  mail'[i].at <= mail'[j].at
    <3>1. CASE j = Len(mail')
      BY <1>2, <1>3, <2>2, <3>1
    <3>2. CASE j \in 1..Len(mail)
      <4>1. i \in 1..Len(mail)
        BY <1>3, <2>3, <3>2
      <4>. QED  BY <1>3, <2>3, <3>2, <4>1 DEF WayInv, MailInOrder
    <3>. QED  BY <1>3, <3>1, <3>2
  <2>. QED  BY <2>1, <2>2, <2>3 DEF MailInOrder
<1>. QED  BY <1>11, <1>12 DEF WayInv

\* The first of the mail arrives: the store shows the next state of the way.
LEMMA DeliverKeepsWay ==
  ASSUME AgentInv, AgentInv', SessionInv, WayInv, Deliver(1)
  PROVE  WayInv'
<1>1. PICK st : Way(st)
  BY DEF WayInv
<1>2. /\ 1 \in 1..Len(mail) /\ mail[1] \in SessionEvent /\ WellFormed(mail[1])
      /\ mail[1].at <= now /\ SessionIngest(mail[1])
      /\ mail' = RemoveAt(mail, 1) /\ UNCHANGED <<now, agent, call, tool>>
  BY DeliverIngests DEF Deliver
<1>3. /\ Len(mail') = Len(mail) - 1 /\ Len(mail) \in Nat /\ Len(mail) >= 1
      /\ \A j \in 1..Len(mail') : mail'[j] = mail[j + 1]
  <2>1. mail \in Seq(SessionEvent)
    BY DEF AgentInv
  <2>2. /\ Len(mail') = Len(mail) - 1
        /\ \A j \in 1..Len(mail') : mail'[j] = mail[IF j < 1 THEN j ELSE j + 1]
    BY <1>2, <2>1, RemovedAt
  <2>3. Len(mail) \in Nat /\ Len(mail) >= 1
    BY <1>2, <2>1
  <2>4. \A j \in 1..Len(mail') : ~(j < 1)
    BY <2>2, <2>3
  <2>. QED  BY <2>2, <2>3, <2>4
<1>4. PICK turn \in Turn \cup {None} : Ingested(mail[1], turn)
  BY <1>2 DEF SessionIngest
<1>5. PICK ev : ev = mail[1]
  OBVIOUS
<1>6. PICK s, u : s = st[0] /\ u = st[1]
  OBVIOUS
<1>7. s \in AgentState /\ u \in AgentState /\ Sound(s) /\ Matches(s) /\ Moves(s, ev, u)
  <2>1. 0 \in 0..Len(mail) /\ 1 \in 0..Len(mail) /\ 1 - 1 = 0
    BY <1>3
  <2>2. Moves(st[1 - 1], mail[1], st[1])
    BY <1>1, <1>2 DEF Way
  <2>. QED  BY <1>1, <1>5, <1>6, <2>1, <2>2 DEF Way
<1>8. ev \in SessionEvent /\ WellFormed(ev) /\ ev.at >= session.last /\ Ingested(ev, turn)
  <2>1. session.last <= mail[1].at
    BY <1>2 DEF WayInv, MailInOrder
  <2>2. session.last \in Nat /\ mail[1].at \in Nat
    BY <1>2 DEF SessionInv, SessionRowsTyped, SessionRow, SessionEvent
  <2>. QED  BY <1>2, <1>4, <1>5, <2>1, <2>2
<1>9. Matches(u)' /\ Sound(u)
  <2>1. Ingests(s, ev, u, turn)
    BY <1>7, <1>8 DEF Ingests
  <2>. QED  BY <1>7, <2>1, MoveIngested, MoveIsSound
<1>10. PICK to : to = [i \in 0..Len(mail') |-> st[i + 1]]
  OBVIOUS
<1>11. /\ to \in [0..Len(mail') -> AgentState]
       /\ \A i \in 0..Len(mail') : to[i] = st[i + 1]
  BY <1>1, <1>3, <1>10 DEF Way
<1>12. \A i \in 1..Len(mail') : Moves(to[i - 1], mail'[i], to[i])
  <2>. SUFFICES ASSUME NEW i \in 1..Len(mail')
                PROVE  Moves(to[i - 1], mail'[i], to[i])
    OBVIOUS
  <2>1. /\ i - 1 \in 0..Len(mail') /\ i \in 0..Len(mail') /\ (i - 1) + 1 = i
        /\ i + 1 \in 1..Len(mail) /\ (i + 1) - 1 = i
    BY <1>3
  <2>2. to[i - 1] = st[i] /\ mail'[i] = mail[i + 1] /\ to[i] = st[i + 1]
    BY <1>3, <1>11, <2>1
  <2>3. Moves(st[(i + 1) - 1], mail[i + 1], st[i + 1])
    BY <1>1, <2>1 DEF Way
  <2>. QED  BY <2>1, <2>2, <2>3
<1>13. to[0] = u /\ to[Len(mail')] = Current'
  <2>1. 0 \in 0..Len(mail') /\ Len(mail') \in 0..Len(mail') /\ Len(mail') + 1 = Len(mail)
        /\ 0 + 1 = 1
    BY <1>3
  <2>2. Current' = Current
    BY <1>2 DEF Current
  <2>. QED  BY <1>1, <1>6, <1>11, <2>1, <2>2 DEF Way
<1>14. Way(to)'
  BY <1>9, <1>11, <1>12, <1>13 DEF Way
<1>15. MailInOrder'
  <2>1. session' = SessionAfter(ev)
    BY <1>8 DEF Ingested
  <2>2. session'.last \in {session.last, ev.at}
    BY <2>1 DEF SessionAfter
  <2>3. session.last \in Nat /\ ev.at \in Nat /\ session.last <= now /\ ev.at <= now
    BY <1>2, <1>5 DEF WayInv, MailInOrder, SessionInv, SessionRowsTyped, SessionRow, SessionEvent
  <2>4. session'.last <= ev.at /\ session'.last <= now' /\ session'.last \in Nat
    BY <1>2, <1>8, <2>2, <2>3
  <2>5. ASSUME NEW i \in 1..Len(mail')
        PROVE  /\ i + 1 \in 1..Len(mail) /\ mail'[i] = mail[i + 1]
               /\ session'.last <= mail'[i].at
    <3>1. i + 1 \in 1..Len(mail) /\ 1 <= i + 1 /\ mail'[i] = mail[i + 1]
      BY <1>3
    <3>2. ev.at <= mail[i + 1].at
      BY <1>2, <1>5, <3>1 DEF WayInv, MailInOrder
    <3>3. mail[i + 1].at \in Nat
      <4>1. mail[i + 1] \in SessionEvent
        BY <3>1, ElementTyped DEF AgentInv
      <4>. QED  BY <4>1 DEF SessionEvent
    <3>. QED  BY <2>3, <2>4, <3>1, <3>2, <3>3
  <2>6. ASSUME NEW i \in 1..Len(mail'), NEW j \in 1..Len(mail'), i <= j
        PROVE  mail'[i].at <= mail'[j].at
    <3>1. i + 1 <= j + 1
      BY <1>3, <2>6
    <3>. QED  BY <2>5, <3>1 DEF WayInv, MailInOrder
  <2>. QED  BY <2>4, <2>5, <2>6 DEF MailInOrder
<1>. QED  BY <1>14, <1>15 DEF WayInv

\* A step that leaves the mail and the provider alone stays on the way.
LEMMA SameWay ==
  ASSUME WayInv, UNCHANGED <<agent, call, mail>>,
         \A s \in AgentState : Sound(s) /\ Matches(s) /\ (mail = <<>> => s = Current) =>
                                 Matches(s)',
         MailInOrder'
  PROVE  WayInv'
<1>1. PICK st : Way(st)
  BY DEF WayInv
<1>2. mail = <<>> => st[0] = Current
  BY <1>1 DEF Way
<1>3. Current' = Current
  BY DEF Current
<1>4. st[0] \in AgentState
  <2>1. 0 \in 0..Len(mail) \/ st[0] = st[Len(mail)]
    BY <1>1 DEF Way
  <2>2. Current \in AgentState \/ 0 \in 0..Len(mail)
    BY <1>1 DEF Way
  <2>. QED  BY <1>1, <2>1, <2>2 DEF Way
<1>5. Matches(st[0])'
  BY <1>1, <1>2, <1>4 DEF Way
<1>6. Way(st)'
  BY <1>1, <1>3, <1>5 DEF Way
<1>. QED  BY <1>6 DEF WayInv

\* A request of the provider's, which waits for it, comes when all before it
\* is ingested; its age is that of the hook that brings it.
LEMMA RequestKeepsWay ==
  ASSUME InOrder, AgentInv, SessionInv, WayInv, NEW r \in Request, HookRequests(r)
  PROVE  WayInv'
<1>1. /\ agent = "working" /\ mail = <<>> /\ ReceivedAt[r] <= now
      /\ UNCHANGED <<now, agent, call, mail>>
  BY DEF HookRequests, SessionIngestRequest, agentVars
<1>2. PICK turn \in Turn \cup {None} : Ingested(RequestEvent(r), turn)
  BY DEF HookRequests, SessionIngestRequest
<1>3. PICK ev : ev = RequestEvent(r)
  OBVIOUS
<1>4. /\ ev \in SessionEvent /\ ev.kind \in {"approval_requested", "question_requested"}
      /\ ev.call = None /\ ev.at = ReceivedAt[r] /\ Ingested(ev, turn)
  BY <1>2, <1>3, RequestEventTyped DEF RequestEvent
<1>5. ASSUME NEW s \in AgentState, Sound(s), Matches(s), s = Current
      PROVE  Matches(s)'
  <2>1. s.agent = "working"
    BY <1>1, <1>5 DEF Current
  <2>2. session.state \in BusyState /\ Running # {}
    BY <1>5, <2>1 DEF Matches
  <2>3. turns' = turns
    BY <1>4, <2>2, TurnIsKept DEF Ingested, EndsTurn
  <2>4. native' = native
    BY <1>4 DEF Ingested, NativeAfter, ResolvesNative, ExactEnd, ClosesSession
  <2>5. /\ NextView(ev).state \in BusyState
        /\ session.state = "awaiting_approval" /\ session.owner = "terminal" =>
             NextView(ev).state = "awaiting_approval" /\ NextView(ev).owner = "terminal"
        /\ session.owner # "terminal" => NextView(ev).owner # "terminal"
    <3>1. ~ExactEnd(ev)
      BY <1>4 DEF ExactEnd
    <3>. QED  BY <1>4, <2>2, <3>1, QuietView
  <2>6. \/ session'.state = session.state /\ session'.owner = session.owner
        \/ session'.state = NextView(ev).state /\ session'.owner = NextView(ev).owner
    BY <1>4 DEF Ingested, SessionAfter
  <2>7. /\ session'.state \in BusyState
        /\ session.state = "awaiting_approval" /\ session.owner = "terminal" =>
             session'.state = "awaiting_approval" /\ session'.owner = "terminal"
        /\ session.owner # "terminal" => session'.owner # "terminal"
    BY <2>2, <2>5, <2>6
  <2>. QED  BY <1>5, <2>1, <2>3, <2>4, <2>7, QuietKeepsMatch
<1>6. MailInOrder'
  <2>1. session'.last \in {session.last, ReceivedAt[r]}
    BY <1>4 DEF Ingested, SessionAfter
  <2>2. session'.last <= now'
    BY <1>1, <2>1 DEF WayInv, MailInOrder
  <2>3. Len(mail') = 0
    BY <1>1
  <2>. QED  BY <2>2, <2>3 DEF MailInOrder
<1>. QED  BY <1>1, <1>5, <1>6, SameWay

\* The user's actions and the clock leave the session row and the turns alone,
\* and no card that was not open becomes so.
LEMMA OthersKeepWay ==
  ASSUME AgentInv, SessionInv, WayInv,
         \/ \E c \in Command, n \in NativeItem, action \in {"snooze", "dismiss"} :
              UserActs(c, n, action)
         \/ HookReopenDue
         \/ \E r \in Request : HookExpires(r)
         \/ Tick /\ UNCHANGED <<storeVars, sessionVars, agentVars>>
         \/ UNCHANGED hookVars
  PROVE  WayInv'
<1>. DEFINE Fine == \A n \in NativeItem :
              /\ native'[n].turn = native[n].turn
              /\ native[n].state \notin {"open", "snoozed"} =>
                   native'[n].state = native[n].state
              /\ native[n].state \in {"open", "snoozed"} =>
                   native'[n].state \in {"open", "snoozed", "dismissed"}
<1>1. UNCHANGED <<session, turns, agent, call, mail>> /\ (now' = now \/ now' = now + 1)
  BY DEF UserActs, ActOnNative, HookReopenDue, SessionReopenDue, HookExpires, Tick, hookVars,
         sessionVars, agentVars
<1>2. Fine
  <2>1. native \in [NativeItem -> NativeRow]
    BY DEF SessionInv, SessionRowsTyped
  <2>2. ASSUME NEW c \in Command, NEW m \in NativeItem, NEW action \in {"snooze", "dismiss"},
               UserActs(c, m, action)
        PROVE  Fine
    <3>. SUFFICES ASSUME NEW n \in NativeItem
                  PROVE  /\ native'[n].turn = native[n].turn
                         /\ native[n].state \notin {"open", "snoozed"} =>
                              native'[n].state = native[n].state
                         /\ native[n].state \in {"open", "snoozed"} =>
                              native'[n].state \in {"open", "snoozed", "dismissed"}
      OBVIOUS
    <3>1. /\ m \in OpenNative
          /\ native' = [native EXCEPT
               ![m].state = CASE action = "ack" -> "resolved"
                              [] action = "snooze" -> "snoozed"
                              [] OTHER -> "dismissed",
               ![m].expiresAt = IF action = "snooze" THEN now + SnoozeDelay ELSE None]
      BY <2>2 DEF UserActs, ActOnNative
    <3>2. CASE n = m
      <4>1. native'[n].state \in {"snoozed", "dismissed"} /\ native'[n].turn = native[n].turn
        BY <2>1, <3>1, <3>2 DEF NativeRow
      <4>. QED  BY <3>1, <3>2, <4>1 DEF OpenNative
    <3>3. CASE n # m
      BY <2>1, <3>1, <3>3
    <3>. QED  BY <3>2, <3>3
  <2>3. CASE HookReopenDue
    <3>. SUFFICES ASSUME NEW n \in NativeItem
                  PROVE  /\ native'[n].turn = native[n].turn
                         /\ native[n].state \notin {"open", "snoozed"} =>
                              native'[n].state = native[n].state
                         /\ native[n].state \in {"open", "snoozed"} =>
                              native'[n].state \in {"open", "snoozed", "dismissed"}
      OBVIOUS
    <3>1. \/ native'[n] = native[n]
          \/ /\ native[n].state = "snoozed"
             /\ native'[n] = [native[n] EXCEPT !.state = "open", !.expiresAt = None]
      BY <2>3 DEF HookReopenDue, SessionReopenDue
    <3>. QED  BY <2>1, <3>1 DEF NativeRow
  <2>4. CASE UNCHANGED native
    BY <2>4
  <2>. HIDE DEF Fine
  <2>. QED  BY <2>2, <2>3, <2>4 DEF HookExpires, hookVars, sessionVars
<1>3. \A s \in AgentState : Matches(s) => Matches(s)'
  <2>. SUFFICES ASSUME NEW s \in AgentState, Matches(s)  PROVE Matches(s)'
    OBVIOUS
  <2>1. Running' = Running
    BY <1>1 DEF Running
  <2>2. ASSUME NEW n \in NativeCall  PROVE CardMatches(s, n)'
    <3>1. /\ native'[n].turn = native[n].turn
          /\ native[n].state \notin {"open", "snoozed"} =>
               native'[n].state = native[n].state
          /\ native[n].state \in {"open", "snoozed"} =>
               native'[n].state \in {"open", "snoozed", "dismissed"}
      BY <1>2 DEF NativeItem
    <3>. HIDE DEF Fine
    <3>2. CardMatches(s, n)
      BY DEF Matches
    <3>. QED  BY <1>1, <2>1, <3>1, <3>2 DEF CardMatches
  <2>. HIDE DEF Fine
  <2>. QED  BY <1>1, <2>1, <2>2 DEF Matches
<1>4. MailInOrder'
  <2>1. session.last \in Nat /\ now \in Nat
    BY DEF SessionInv, SessionRowsTyped, SessionRow
  <2>. HIDE DEF Fine
  <2>. QED  BY <1>1, <2>1 DEF WayInv, MailInOrder
<1>. HIDE DEF Fine
<1>. QED  BY <1>1, <1>3, <1>4, SameWay

LEMMA HookNextKeepsWay ==
  ASSUME InOrder, AgentInv, AgentInv', SessionInv, WayInv, [HookNext]_hookVars
  PROVE  WayInv'
<1>1. CASE AgentStep
  BY <1>1, AgentStepTells, EmitKeepsWay
<1>2. ASSUME NEW i \in 1..MaxEvents, Deliver(i)  PROVE WayInv'
  <2>1. i = 1
    BY <1>2, Zenon DEF Deliver
  <2>. QED  BY <1>2, <2>1, DeliverKeepsWay
<1>3. CASE \E r \in Request : HookRequests(r)
  BY <1>3, RequestKeepsWay
<1>4. CASE \/ \E c \in Command, n \in NativeItem, action \in {"snooze", "dismiss"} :
                UserActs(c, n, action)
           \/ HookReopenDue
           \/ \E r \in Request : HookExpires(r)
           \/ Tick /\ UNCHANGED <<storeVars, sessionVars, agentVars>>
           \/ UNCHANGED hookVars
  BY <1>4, OthersKeepWay
<1>. QED  BY <1>1, <1>2, <1>3, <1>4 DEF HookNext

LEMMA WayInvHolds == ASSUME InOrder PROVE HookSpec => []WayInv
<1>1. HookInit => WayInv
  <2>. SUFFICES ASSUME HookInit PROVE WayInv
    OBVIOUS
  <2>1. /\ mail = <<>> /\ Len(mail) = 0 /\ now = 0 /\ agent = "idle"
        /\ call = [n \in NativeCall |-> "idle"]
        /\ session = [state |-> "absent", owner |-> None, last |-> 0]
        /\ native = [n \in NativeItem |-> NoNative]
    BY DEF HookInit, SessionInit, StoreInit
  <2>2. Current \in AgentState /\ Current.agent = "idle" /\ PendingIn(Current) = {}
        /\ \A n \in NativeCall : Current.call[n] = "idle"
    BY <2>1 DEF Current, AgentState, PendingIn
  <2>3. \A n \in NativeCall : native[n].state = "none"
    BY <2>1 DEF NativeItem, NoNative
  <2>4. Sound(Current) /\ Matches(Current)
    BY <2>1, <2>2, <2>3, SessionAssumption DEF Sound, Matches, CardMatches
  <2>5. PICK here : here = Current
    OBVIOUS
  <2>6. PICK st : st = [i \in 0..0 |-> here]
    OBVIOUS
  <2>7. st \in [0..Len(mail) -> AgentState] /\ st[0] = here
    BY <2>1, <2>2, <2>5, <2>6
  <2>8. Way(st)
    BY <2>1, <2>4, <2>5, <2>7 DEF Way
  <2>. QED  BY <2>1, <2>8 DEF WayInv, MailInOrder
<1>2. WayInv /\ AgentInv /\ AgentInv' /\ SessionInv /\ [HookNext]_hookVars => WayInv'
  BY HookNextKeepsWay
<1>. QED  BY <1>1, <1>2, AgentInvHolds, HookImplementsSession, SessionInvHolds, PTL DEF HookSpec

-----------------------------------------------------------------------------
(* What the panel shows *)

LEMMA AllIngestedMatches ==
  ASSUME WayInv, mail = <<>>
  PROVE  Matches(Current)
BY DEF WayInv, Way

\* When the events come in order and prompts one at a time, a prompt of the
\* provider's own is shown as long as it is up.
THEOREM PendingCallIsShown ==
  ASSUME InOrder, ~Parallel PROVE HookSpec => []PendingCallShown
<1>1. WayInv => PendingCallShown
  <2>. SUFFICES ASSUME WayInv, mail = <<>>, NEW n \in Pending
                PROVE  /\ native[n].state \in {"open", "snoozed", "dismissed"}
                       /\ session.state = "awaiting_approval" /\ session.owner = "terminal"
    BY DEF PendingCallShown, AllIngested
  <2>1. n \in NativeCall /\ Current.call[n] = "pending"
    BY DEF Pending, Current
  <2>2. CardMatches(Current, n)
    BY <2>1, AllIngestedMatches DEF Matches
  <2>. QED  BY <2>1, <2>2 DEF CardMatches
<1>. QED  BY <1>1, WayInvHolds, PTL

\* When the events come in order, the card of a call that has ended is not
\* open, even where calls overlap, and the last of them ends the wait.
THEOREM EndedCallIsCleared ==
  ASSUME InOrder PROVE HookSpec => []EndedCallCleared
<1>1. WayInv => EndedCallCleared
  <2>. SUFFICES ASSUME WayInv, mail = <<>>
                PROVE  /\ \A n \in NativeCall : call[n] = "ended" => n \notin OpenNative
                       /\ Pending = {} => session.owner # "terminal"
    BY DEF EndedCallCleared, AllIngested
  <2>1. Current.call = call /\ PendingIn(Current) = Pending
    BY DEF Current, PendingIn, Pending
  <2>. QED  BY <2>1, AllIngestedMatches DEF Matches, CardMatches, OpenNative
<1>. QED  BY <1>1, WayInvHolds, PTL

\* When the events come in order, a provider that has stopped is shown so.
THEOREM StoppedAlwaysShown ==
  ASSUME InOrder PROVE HookSpec => []StoppedIsShown
<1>1. WayInv => StoppedIsShown
  BY AllIngestedMatches DEF StoppedIsShown, AllIngested, Matches, Current
<1>. QED  BY <1>1, WayInvHolds, PTL
=============================================================================
