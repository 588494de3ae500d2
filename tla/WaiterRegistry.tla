--------------------------- MODULE WaiterRegistry ---------------------------
(***************************************************************************)
(* runtime/src/waiter.rs: the in-memory registry of blocked hooks.         *)
(*                                                                         *)
(* Every operation takes the registry mutex once, so each is one action.   *)
(* A WaiterTicket is the receiving half of a channel whose sending half    *)
(* lives in the WaiterEntry; an entry is therefore represented by its      *)
(* ticket, and channel[t] is everything that was ever sent to ticket t.    *)
(* One request may be registered again under a new ticket.                 *)
(***************************************************************************)
EXTENDS Core

CONSTANTS
  Ticket,      \* blocking registrations: envelopes with request_id, deadline
  RequestOf,   \* [Ticket -> Request]
  Interactive  \* requests whose hook is a question

VARIABLES
  byRequest,     \* by_request: the live ticket of a request, or None
  byCorrelation, \* by_correlation: the request that owns a correlation key
  tickets,       \* tickets handed out since the registry was created
  channel        \* responses sent to each ticket, oldest first

regVars == <<byRequest, byCorrelation, tickets, channel>>

ASSUME TicketAssumption ==
  /\ None \notin Ticket
  /\ RequestOf \in [Ticket -> Request]
  /\ Interactive \subseteq Request

RegTypeOK ==
  /\ now \in Nat
  /\ byRequest \in [Request -> Ticket \cup {None}]
  /\ byCorrelation \in [Correlation -> Request \cup {None}]
  /\ tickets \subseteq Ticket
  /\ channel \in [Ticket -> Seq(Response)]

RegInit ==
  /\ now = 0
  /\ byRequest = [r \in Request |-> None]
  /\ byCorrelation = [k \in Correlation |-> None]
  /\ tickets = {}
  /\ channel = [t \in Ticket |-> <<>>]

-----------------------------------------------------------------------------
(* The helpers that run with the mutex held. *)

IsActive(r) == byRequest[r] # None

Expired == {r \in Request : IsActive(r) /\ now >= DeadlineAt[r]}

\* byRequest and byCorrelation after remove_locked of every request of R: a
\* correlation key goes only when the removed entry still owns it.
ByRequestWithout(R) ==
  [r \in Request |-> IF r \in R THEN None ELSE byRequest[r]]

\* Defect: remove_locked forgets the correlation key.
ByCorrelationKeptWithout(R) == byCorrelation

ByCorrelationWithout(R) ==
  [k \in Correlation |->
     IF \E r \in R : IsActive(r) /\ CorrelationOf[r] = k /\ byCorrelation[k] = r
     THEN None ELSE byCorrelation[k]]

\* channel after `response` was sent to the live tickets of the requests of R.
ChannelAfter(R, response) ==
  [t \in Ticket |-> IF \E r \in R : byRequest[r] = t
                    THEN Append(channel[t], response) ELSE channel[t]]

\* replaced_request_id of a registration of r: another request that owns the
\* same correlation key and has not just expired.
Replaced(r) ==
  {byCorrelation[CorrelationOf[r]]} \ ({None, r} \cup Expired)

-----------------------------------------------------------------------------
\* Defect: the duplicate is dropped from the maps but never answered.
RegisterDroppingDuplicate(t) ==
  LET r == RequestOf[t]
      gone == Expired \cup Replaced(r) \cup {r}
  IN /\ t \notin tickets
     /\ channel' = ChannelAfter(Expired \cup {r}, "pass_through")
     /\ byRequest' = [ByRequestWithout(gone) EXCEPT ![r] = t]
     /\ byCorrelation' = [ByCorrelationWithout(gone) EXCEPT ![CorrelationOf[r]] = r]
     /\ tickets' = tickets \cup {t}

\* register_at: expire what is due, pass the duplicate and any older entry
\* of the same request through, then insert the new entry.
Register(t) ==
  LET r == RequestOf[t]
      gone == Expired \cup Replaced(r) \cup {r}
  IN /\ t \notin tickets
     /\ channel' = ChannelAfter(gone, "pass_through")
     /\ byRequest' = [ByRequestWithout(gone) EXCEPT ![r] = t]
     /\ byCorrelation' = [ByCorrelationWithout(gone) EXCEPT ![CorrelationOf[r]] = r]
     /\ tickets' = tickets \cup {t}

\* resolve: remove the entry and send it its one response.
Resolve(r, response) ==
  /\ IsActive(r)
  /\ channel' = ChannelAfter({r}, response)
  /\ byRequest' = ByRequestWithout({r})
  /\ byCorrelation' = ByCorrelationWithout({r})
  /\ UNCHANGED tickets

\* Defect: the action's name is sent instead of its decision.
DecideByAction(r, decision) ==
  Resolve(r, IF decision = "allow" THEN "approve" ELSE "deny")

\* decide and pass_through resolve the entry with a response of their own.
Decide(r, decision) == Resolve(r, decision)

PassThrough(r) == Resolve(r, "pass_through")

\* answer: a submission that does not validate leaves the waiter in place
\* (InvalidAnswer, NotInteractive), so only valid ones are steps.
Answer(r) == r \in Interactive /\ Resolve(r, "answer")

\* Defect: the sweep removes expired entries and sends them nothing.
ExpireSilently ==
  /\ Expired # {}
  /\ byRequest' = ByRequestWithout(Expired)
  /\ byCorrelation' = ByCorrelationWithout(Expired)
  /\ UNCHANGED <<tickets, channel>>

\* expire_request_ids_at: one sweep over every entry.
Expire ==
  /\ Expired # {}
  /\ channel' = ChannelAfter(Expired, "pass_through")
  /\ byRequest' = ByRequestWithout(Expired)
  /\ byCorrelation' = ByCorrelationWithout(Expired)
  /\ UNCHANGED tickets

\* Drop for RegistryInner: every remaining waiter gets runtime_shutdown.
Shutdown ==
  /\ \E r \in Request : IsActive(r)
  /\ channel' = ChannelAfter(Request, "pass_through")
  /\ byRequest' = [r \in Request |-> None]
  /\ byCorrelation' = [k \in Correlation |-> None]
  /\ UNCHANGED tickets

\* The runtime process dies: its registry and its tickets die with it.
Restart ==
  /\ byRequest' = [r \in Request |-> None]
  /\ byCorrelation' = [k \in Correlation |-> None]
  /\ tickets' = {}
  /\ channel' = [t \in Ticket |-> <<>>]

RegStep ==
  \/ \E t \in Ticket : Register(t)
  \/ \E r \in Request, d \in Decision : Decide(r, d)
  \/ \E r \in Request : PassThrough(r)
  \/ \E r \in Request : Answer(r)
  \/ Expire
  \/ Shutdown
  \/ Restart

RegNext ==
  \/ RegStep /\ UNCHANGED now
  \/ Tick /\ UNCHANGED regVars

RegSpec == RegInit /\ [][RegNext]_<<now, regVars>>

\* The expiry thread of serve() calls expire_request_ids_at every 2 seconds.
RegFairSpec ==
  RegSpec /\ WF_<<now, regVars>>(Expire /\ UNCHANGED now)
          /\ WF_<<now, regVars>>(Tick /\ UNCHANGED regVars)

-----------------------------------------------------------------------------
(* Properties *)

Live(t) == t \in tickets /\ byRequest[RequestOf[t]] = t

\* The two maps describe one set of entries: a live request owns its
\* correlation key and an owned key leads to a live request.  remove_locked
\* deletes from both under a condition, so a wrong order would leave a key
\* that hides, or wrongly replaces, a later request (waiter.rs:268-274).
IndexConsistent ==
  /\ \A r \in Request : IsActive(r) =>
       /\ RequestOf[byRequest[r]] = r
       /\ byRequest[r] \in tickets
       /\ byCorrelation[CorrelationOf[r]] = r
  /\ \A k \in Correlation : byCorrelation[k] # None =>
       /\ IsActive(byCorrelation[k])
       /\ CorrelationOf[byCorrelation[k]] = k

\* "every waiter is request-keyed and receives exactly one outcome": a ticket
\* that is still in the registry has received nothing, one that left it has
\* received exactly one response, and nothing is ever sent to a ticket that
\* was not handed out.
ExactlyOneOutcome ==
  \A t \in Ticket :
    Len(channel[t]) = IF t \in tickets /\ ~Live(t) THEN 1 ELSE 0

\* No blocked hook is forgotten: whatever replaces it, every ticket receives
\* an outcome, because the sweep reaches it at the latest after its deadline,
\* unless its runtime dies before.
EveryTicketAnswered ==
  \A t \in Ticket : (t \in tickets) ~> (channel[t] # <<>> \/ t \notin tickets)
=============================================================================
