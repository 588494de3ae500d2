---------------------------- MODULE RequestProofs ---------------------------
(***************************************************************************)
(* Proofs about the two places a blocking request lives, for any number of *)
(* requests, tickets, commands, turns and tools, any deadlines and delays. *)
(*                                                                         *)
(* WaiterRegistry.  RegInv, the conjunction of the run's invariants, is    *)
(* inductive: who receives a response is decided by byRequest, and the     *)
(* correlation index decides which entry a registration removes, so        *)
(* neither part is inductive without the other.                            *)
(*                                                                         *)
(* ApprovalStore.  The invariant of the two tables is StoreInv.  One       *)
(* command wins because a claim needs an open item, an item is open only   *)
(* while nothing on it is in play, and it is reopened only by undoing the  *)
(* one command that was.                                                   *)
(***************************************************************************)
EXTENDS WaiterRegistry, ApprovalStore, TLAPS

-----------------------------------------------------------------------------
(* The registry *)

RegInv == RegTypeOK /\ IndexConsistent /\ ExactlyOneOutcome

\* The channels after a response to the live tickets of R: the tickets of R
\* that were live hold one response more, no other ticket is touched.
LEMMA ChannelAfterSends ==
  ASSUME RegInv, NEW R, R \subseteq Request,
         NEW response \in Response
  PROVE  /\ ChannelAfter(R, response) \in [Ticket -> Seq(Response)]
         /\ \A t \in Ticket :
              Len(ChannelAfter(R, response)[t]) =
                IF RequestOf[t] \in R /\ Live(t) THEN 1 ELSE Len(channel[t])
<1>1. ChannelAfter(R, response) \in [Ticket -> Seq(Response)]
  BY DEF RegInv, RegTypeOK, ChannelAfter
<1>2. ASSUME NEW t \in Ticket
      PROVE  Len(ChannelAfter(R, response)[t]) =
                IF RequestOf[t] \in R /\ Live(t) THEN 1 ELSE Len(channel[t])
  <2>1. channel[t] \in Seq(Response)
    BY DEF RegInv, RegTypeOK
  <2>2. RequestOf[t] \in Request
    BY TicketAssumption
  <2>3. CASE RequestOf[t] \in R /\ Live(t)
    <3>1. ChannelAfter(R, response)[t] = Append(channel[t], response)
      BY <2>3 DEF ChannelAfter, Live
    <3>2. Len(channel[t]) = 0
      BY <2>3 DEF RegInv, ExactlyOneOutcome, Live
    <3>. QED  BY <2>1, <2>3, <3>1, <3>2
  <2>4. CASE ~(RequestOf[t] \in R /\ Live(t))
    <3>1. ~ \E r \in R : byRequest[r] = t
      BY <2>4, TicketAssumption DEF RegInv, IndexConsistent, Live, IsActive
    <3>2. ChannelAfter(R, response)[t] = channel[t]
      BY <3>1 DEF ChannelAfter
    <3>. QED  BY <2>4, <3>2
  <2>. QED  BY <2>3, <2>4
<1>. QED  BY <1>1, <1>2

\* Removing a set of requests and answering their tickets, which is what a
\* decision, a pass-through, an answer, a sweep and a shutdown all do.
LEMMA RemovalKeepsInv ==
  ASSUME RegInv, NEW R, R \subseteq Request,
         NEW response \in Response,
         now' \in Nat, tickets' = tickets,
         channel' = ChannelAfter(R, response),
         byRequest' = ByRequestWithout(R),
         byCorrelation' = ByCorrelationWithout(R)
  PROVE  RegInv'
<1>1. RegTypeOK'
  BY ChannelAfterSends
     DEF RegInv, RegTypeOK, ByRequestWithout, ByCorrelationWithout
<1>2. ASSUME NEW r \in Request, byRequest'[r] # None
      PROVE  r \notin R /\ byRequest'[r] = byRequest[r] /\ byRequest[r] # None
  BY <1>2 DEF ByRequestWithout
<1>3. ASSUME NEW k \in Correlation, byCorrelation'[k] # None
      PROVE  /\ byCorrelation'[k] = byCorrelation[k]
             /\ byCorrelation[k] \in Request \ R
  <2>1. byCorrelation'[k] = byCorrelation[k]
    BY <1>3 DEF ByCorrelationWithout
  <2>2. byCorrelation[k] \in Request /\ IsActive(byCorrelation[k])
         /\ CorrelationOf[byCorrelation[k]] = k
    BY <1>3, <2>1 DEF RegInv, RegTypeOK, IndexConsistent
  <2>3. byCorrelation[k] \notin R
    BY <1>3, <2>2 DEF ByCorrelationWithout
  <2>. QED  BY <2>1, <2>2, <2>3
<1>4. IndexConsistent'
  <2>1. ASSUME NEW r \in Request, byRequest'[r] # None
        PROVE  /\ RequestOf[byRequest'[r]] = r
               /\ byRequest'[r] \in tickets'
               /\ byCorrelation'[CorrelationOf[r]] = r
    <3>1. r \notin R /\ byRequest'[r] = byRequest[r] /\ IsActive(r)
      BY <1>2, <2>1 DEF IsActive
    <3>2. CorrelationOf[r] \in Correlation
      BY CorrelationAssumption
    <3>3. byCorrelation[CorrelationOf[r]] = r
      BY <3>1 DEF RegInv, IndexConsistent
    <3>4. byCorrelation'[CorrelationOf[r]] = r
      BY <3>1, <3>2, <3>3 DEF ByCorrelationWithout
    <3>. QED  BY <3>1, <3>4 DEF RegInv, IndexConsistent
  <2>2. ASSUME NEW k \in Correlation, byCorrelation'[k] # None
        PROVE  /\ byRequest'[byCorrelation'[k]] # None
               /\ CorrelationOf[byCorrelation'[k]] = k
    <3>1. byCorrelation'[k] = byCorrelation[k] /\ byCorrelation[k] \in Request \ R
      BY <1>3, <2>2
    <3>2. byRequest[byCorrelation[k]] # None /\ CorrelationOf[byCorrelation[k]] = k
      BY <2>2, <3>1 DEF RegInv, IndexConsistent, IsActive
    <3>. QED  BY <3>1, <3>2 DEF ByRequestWithout
  <2>. QED  BY <2>1, <2>2 DEF IndexConsistent, IsActive
<1>5. ExactlyOneOutcome'
  <2> SUFFICES ASSUME NEW t \in Ticket
               PROVE  Len(channel'[t]) = IF t \in tickets' /\ ~(Live(t)') THEN 1 ELSE 0
    BY DEF ExactlyOneOutcome
  <2>1. Len(channel'[t]) = IF RequestOf[t] \in R /\ Live(t) THEN 1 ELSE Len(channel[t])
    BY ChannelAfterSends
  <2>2. RequestOf[t] \in Request
    BY TicketAssumption
  <2>3. Live(t)' <=> Live(t) /\ RequestOf[t] \notin R
    BY <2>2, TicketAssumption DEF Live, ByRequestWithout
  <2>4. Len(channel[t]) = IF t \in tickets /\ ~Live(t) THEN 1 ELSE 0
    BY DEF RegInv, ExactlyOneOutcome
  <2>. QED  BY <2>1, <2>3, <2>4 DEF Live
<1>. QED  BY <1>1, <1>4, <1>5 DEF RegInv

\* A registration removes what has expired, the duplicate that owns its
\* correlation key and any older entry of its own request, then takes both
\* map slots for a ticket nobody has sent to.
LEMMA RegisterKeepsInv ==
  ASSUME RegInv, NEW t \in Ticket, Register(t), now' = now
  PROVE  RegInv'
<1> DEFINE r == RequestOf[t]
           gone == Expired \cup Replaced(r) \cup {r}
<1>1. /\ r \in Request
      /\ CorrelationOf[r] \in Correlation
  BY TicketAssumption, CorrelationAssumption
<1>2. gone \subseteq Request
  BY <1>1 DEF Expired, Replaced, RegInv, RegTypeOK
<1>3. /\ t \notin tickets
      /\ channel' = ChannelAfter(gone, "pass_through")
      /\ byRequest' = [ByRequestWithout(gone) EXCEPT ![r] = t]
      /\ byCorrelation' = [ByCorrelationWithout(gone) EXCEPT ![CorrelationOf[r]] = r]
      /\ tickets' = tickets \cup {t}
  BY DEF Register
<1>4. "pass_through" \in Response
  BY DEF Response
<1> HIDE DEF gone
<1>5. \A q \in Request : byRequest'[q] =
        IF q = r THEN t ELSE IF q \in gone THEN None ELSE byRequest[q]
  BY <1>1, <1>3 DEF ByRequestWithout
<1>6. \A k \in Correlation : k # CorrelationOf[r] =>
        byCorrelation'[k] = ByCorrelationWithout(gone)[k]
  BY <1>3 DEF ByCorrelationWithout
<1>7. byCorrelation'[CorrelationOf[r]] = r
  BY <1>1, <1>3 DEF ByCorrelationWithout
<1>8. RegTypeOK'
  <2>1. channel' \in [Ticket -> Seq(Response)]
    BY <1>2, <1>3, <1>4, ChannelAfterSends
  <2>2. byRequest' \in [Request -> Ticket \cup {None}]
    BY <1>1, <1>3 DEF RegInv, RegTypeOK, ByRequestWithout
  <2>3. byCorrelation' \in [Correlation -> Request \cup {None}]
    BY <1>1, <1>3 DEF RegInv, RegTypeOK, ByCorrelationWithout
  <2>. QED  BY <1>3, <2>1, <2>2, <2>3 DEF RegInv, RegTypeOK
\* Another live request of the same key is the one replaced, or has expired.
<1>9. ASSUME NEW q \in Request, q # r, q \notin gone, byRequest[q] # None
      PROVE  CorrelationOf[q] # CorrelationOf[r]
  <2>1. byCorrelation[CorrelationOf[q]] = q
    BY <1>9 DEF RegInv, IndexConsistent, IsActive
  <2>. QED  BY <1>9, <2>1, NoneAssumption DEF gone, Replaced
<1>10. IndexConsistent'
  <2>1. ASSUME NEW q \in Request, byRequest'[q] # None
        PROVE  /\ RequestOf[byRequest'[q]] = q
               /\ byRequest'[q] \in tickets'
               /\ byCorrelation'[CorrelationOf[q]] = q
    <3>1. CASE q = r
      BY <1>3, <1>5, <1>7, <3>1
    <3>2. CASE q # r
      <4>1. q \notin gone /\ byRequest'[q] = byRequest[q] /\ byRequest[q] # None
        BY <1>5, <2>1, <3>2
      <4>2. CorrelationOf[q] # CorrelationOf[r] /\ CorrelationOf[q] \in Correlation
        BY <1>9, <3>2, <4>1, CorrelationAssumption
      <4>3. byCorrelation[CorrelationOf[q]] = q
        BY <4>1 DEF RegInv, IndexConsistent, IsActive
      <4>4. byCorrelation'[CorrelationOf[q]] = q
        BY <1>6, <4>1, <4>2, <4>3 DEF ByCorrelationWithout
      <4>. QED  BY <1>3, <4>1, <4>4 DEF RegInv, IndexConsistent, IsActive
    <3>. QED  BY <3>1, <3>2
  <2>2. ASSUME NEW k \in Correlation, byCorrelation'[k] # None
        PROVE  /\ byRequest'[byCorrelation'[k]] # None
               /\ CorrelationOf[byCorrelation'[k]] = k
    <3>1. CASE k = CorrelationOf[r]
      BY <1>1, <1>5, <1>7, <3>1, TicketAssumption
    <3>2. CASE k # CorrelationOf[r]
      <4>1. byCorrelation'[k] = byCorrelation[k] /\ byCorrelation[k] # None
        BY <1>6, <2>2, <3>2 DEF ByCorrelationWithout
      <4>2. /\ byCorrelation[k] \in Request
            /\ byRequest[byCorrelation[k]] # None
            /\ CorrelationOf[byCorrelation[k]] = k
        BY <4>1 DEF RegInv, RegTypeOK, IndexConsistent, IsActive
      <4>3. byCorrelation[k] \notin gone
        BY <1>6, <2>2, <3>2, <4>1, <4>2 DEF ByCorrelationWithout, IsActive
      <4>. QED  BY <1>5, <3>2, <4>1, <4>2, <4>3
    <3>. QED  BY <3>1, <3>2
  <2>. QED  BY <2>1, <2>2 DEF IndexConsistent, IsActive
<1>11. ExactlyOneOutcome'
  <2> SUFFICES ASSUME NEW u \in Ticket
               PROVE  Len(channel'[u]) = IF u \in tickets' /\ ~(Live(u)') THEN 1 ELSE 0
    BY DEF ExactlyOneOutcome
  <2>1. Len(channel'[u]) = IF RequestOf[u] \in gone /\ Live(u) THEN 1 ELSE Len(channel[u])
    BY <1>2, <1>3, <1>4, ChannelAfterSends
  <2>2. Len(channel[u]) = IF u \in tickets /\ ~Live(u) THEN 1 ELSE 0
    BY DEF RegInv, ExactlyOneOutcome
  <2>3. RequestOf[u] \in Request
    BY TicketAssumption
  <2>4. CASE u = t
    BY <1>1, <1>3, <1>5, <2>1, <2>2, <2>4 DEF Live
  <2>5. CASE u # t
    <3>1. u \in tickets' <=> u \in tickets
      BY <1>3, <2>5
    <3>2. r \in gone
      BY DEF gone
    <3>3. Live(u)' <=> Live(u) /\ RequestOf[u] \notin gone
      BY <1>5, <2>3, <2>5, <3>1, <3>2, TicketAssumption DEF Live
    <3>. QED  BY <2>1, <2>2, <3>1, <3>3 DEF Live
  <2>. QED  BY <2>4, <2>5
<1>. QED  BY <1>8, <1>10, <1>11 DEF RegInv

\* Shutdown is the removal of every request.
LEMMA ShutdownKeepsInv ==
  ASSUME RegInv, Shutdown, now' = now
  PROVE  RegInv'
<1>1. byRequest' = ByRequestWithout(Request)
  BY DEF Shutdown, ByRequestWithout
<1>2. byCorrelation' = ByCorrelationWithout(Request)
  BY DEF Shutdown, ByCorrelationWithout, RegInv, RegTypeOK, IndexConsistent
<1>3. "pass_through" \in Response
  BY DEF Response
<1>. QED  BY <1>1, <1>2, <1>3, RemovalKeepsInv DEF Shutdown, RegInv, RegTypeOK

\* Every step of the registry, or of the clock, keeps the invariant.
LEMMA RegNextKeepsInv ==
  RegInv /\ [RegNext]_<<now, regVars>> => RegInv'
<1> SUFFICES ASSUME RegInv, [RegNext]_<<now, regVars>>
             PROVE  RegInv'
  OBVIOUS
<1>1. ASSUME NEW r \in Request, NEW response \in Response,
             Resolve(r, response), now' = now
      PROVE  RegInv'
  BY <1>1, RemovalKeepsInv DEF Resolve, RegInv, RegTypeOK
<1>2. CASE RegStep /\ UNCHANGED now
  <2>1. ASSUME NEW t \in Ticket, Register(t)  PROVE RegInv'
    BY <1>2, <2>1, RegisterKeepsInv
  <2>2. ASSUME NEW r \in Request, NEW d \in Decision, Decide(r, d)  PROVE RegInv'
    BY <1>1, <1>2, <2>2 DEF Decide, Response
  <2>3. ASSUME NEW r \in Request, PassThrough(r)  PROVE RegInv'
    BY <1>1, <1>2, <2>3 DEF PassThrough, Response
  <2>4. ASSUME NEW r \in Request, Answer(r)  PROVE RegInv'
    BY <1>1, <1>2, <2>4 DEF Answer, Response
  <2>5. ASSUME Expire  PROVE RegInv'
    <3>1. Expired \subseteq Request /\ "pass_through" \in Response
      BY DEF Expired, Response
    <3>. QED  BY <1>2, <2>5, <3>1, RemovalKeepsInv DEF Expire, RegInv, RegTypeOK
  <2>6. ASSUME Shutdown  PROVE RegInv'
    BY <1>2, <2>6, ShutdownKeepsInv
  <2>7. ASSUME Restart  PROVE RegInv'
    BY <1>2, <2>7 DEF Restart, RegInv, RegTypeOK, IndexConsistent, ExactlyOneOutcome, Live, IsActive
  <2>. QED  BY <1>2, <2>1, <2>2, <2>3, <2>4, <2>5, <2>6, <2>7 DEF RegStep
<1>3. CASE Tick /\ UNCHANGED regVars
  BY <1>3 DEF Tick, regVars, RegInv, RegTypeOK, IndexConsistent, ExactlyOneOutcome, Live, IsActive
<1>4. CASE UNCHANGED <<now, regVars>>
  BY <1>4 DEF regVars, RegInv, RegTypeOK, IndexConsistent, ExactlyOneOutcome, Live, IsActive
<1>. QED  BY <1>2, <1>3, <1>4 DEF RegNext

LEMMA RegInitInv == RegInit => RegInv
  BY DEF RegInit, RegInv, RegTypeOK, IndexConsistent, ExactlyOneOutcome, Live, IsActive

\* The registry's type invariant.
THEOREM RegTypeCorrect == RegSpec => []RegTypeOK
<1>1. RegInv => RegTypeOK
  BY DEF RegInv
<1>. QED  BY <1>1, RegInitInv, RegNextKeepsInv, PTL DEF RegSpec

\* The request map and the correlation map always describe one set of waiters.
THEOREM IndexAlwaysConsistent == RegSpec => []IndexConsistent
<1>1. RegInv => IndexConsistent
  BY DEF RegInv
<1>. QED  BY <1>1, RegInitInv, RegNextKeepsInv, PTL DEF RegSpec

\* Every waiter receives exactly one outcome, when it leaves the registry.
THEOREM EveryWaiterGetsOneOutcome == RegSpec => []ExactlyOneOutcome
<1>1. RegInv => ExactlyOneOutcome
  BY DEF RegInv
<1>. QED  BY <1>1, RegInitInv, RegNextKeepsInv, PTL DEF RegSpec

-----------------------------------------------------------------------------
(* The items and the commands *)

\* What a command's state says about its other columns.
CommandRowsAgree ==
  \A c \in Command :
    /\ commands[c].state \notin {"none", "confirmed"} => commands[c].request \in Request
    /\ commands[c].state = "pending_commit" => commands[c].action \in ApprovalAction
    /\ commands[c].state \in {"none", "pending_commit", "undone"} => ~commands[c].sent
    /\ commands[c].state = "decision_sent" => commands[c].sent

\* An item that was not decided on has no resolution, and nothing in play.
Undecided(r) == attention[r].state \in {"none", "open", "snoozed"}

UndecidedItems ==
  \A r \in Request :
    /\ Undecided(r) \/ attention[r].state = "committing" => attention[r].resolution = None
    /\ Undecided(r) => \A c \in Command : commands[c].request = r => ~InPlay(c)

StoreInv ==
  /\ StoreTypeOK
  /\ CommandRowsAgree
  /\ UndecidedItems
  /\ OneWinner
  /\ ItemBackedByCommand
  /\ ConfirmedWasSent

-----------------------------------------------------------------------------
\* An item that was decided on by nobody, and everything that settles items:
\* expiry, reconciliation, provider evidence and a commit without a waiter give
\* the items of R a settled state and touch only unsettled commands of R.
Settles(R) ==
  /\ \A r \in Request :
       IF r \in R THEN attention'[r].state \in SettledState ELSE attention'[r] = attention[r]
  /\ \A c \in Command :
       \/ commands'[c] = commands[c]
       \/ /\ Unsettled(c, R)
          /\ commands'[c].request = commands[c].request
          /\ commands'[c].sent = commands[c].sent
          /\ commands'[c].action = commands[c].action
          /\ \/ commands'[c].state = "failed"
             \/ commands'[c].state = "confirmed" /\ commands[c].state = "decision_sent"

LEMMA SettlingKeepsInv ==
  ASSUME StoreInv, NEW R, StoreTypeOK', Settles(R)
  PROVE  StoreInv'
<1>1. CommandRowsAgree'
  BY DEF StoreInv, CommandRowsAgree, Settles, Unsettled, UnsettledState
<1>2. ASSUME NEW c \in Command
      PROVE  /\ commands'[c].request = commands[c].request
             /\ InPlay(c)' => InPlay(c)
  BY DEF Settles, InPlay, Won
<1>3. UndecidedItems'
  BY <1>2 DEF StoreInv, UndecidedItems, Undecided, Settles, SettledState
<1>4. OneWinner'
  BY <1>2 DEF StoreInv, OneWinner
<1>5. ItemBackedByCommand'
  <2> SUFFICES ASSUME NEW r \in Request, attention'[r].state \in {"committing", "decision_sent"}
               PROVE  attention'[r] = attention[r]
                      /\ \A c \in Command : commands[c].request = r => commands'[c] = commands[c]
    BY DEF StoreInv, ItemBackedByCommand
  <2>. QED  BY DEF Settles, SettledState, Unsettled
<1>6. ConfirmedWasSent'
  BY DEF StoreInv, ConfirmedWasSent, CommandRowsAgree, Settles
<1>. QED  BY <1>1, <1>3, <1>4, <1>5, <1>6 DEF StoreInv

\* ExpiredAttention settles the rows of R and leaves the others alone.
LEMMA ExpiredRows ==
  ASSUME StoreTypeOK, NEW R \in SUBSET Request
  PROVE  /\ ExpiredAttention(R) \in [Request -> AttentionRow]
         /\ \A r \in Request : IF r \in R THEN ExpiredAttention(R)[r].state \in SettledState
                                          ELSE ExpiredAttention(R)[r] = attention[r]
<1>1. ASSUME NEW r \in R
      PROVE  /\ ExpiredAttention(R)[r] \in AttentionRow
             /\ ExpiredAttention(R)[r].state \in SettledState
  <2>1. ExpiredAttention(R)[r] =
          [attention[r] EXCEPT !.state = "expired", !.resolution = "stale"]
    BY DEF ExpiredAttention
  <2>2. attention[r] \in AttentionRow /\ "expired" \in AttentionState /\ "stale" \in Resolution
    BY DEF StoreTypeOK, AttentionState, Resolution
  <2>. QED  BY <2>1, <2>2 DEF AttentionRow, SettledState
<1>2. ASSUME NEW r \in Request \ R
      PROVE  ExpiredAttention(R)[r] = attention[r]
  BY DEF ExpiredAttention
<1>3. ExpiredAttention(R) \in [Request -> AttentionRow]
  BY <1>1, <1>2 DEF ExpiredAttention, StoreTypeOK
<1>. QED  BY <1>1, <1>2, <1>3

\* So does ResolvedAttention.
LEMMA ResolvedRows ==
  ASSUME StoreTypeOK, NEW R \in SUBSET Request, NEW outcome \in Resolution
  PROVE  /\ ResolvedAttention(R, outcome) \in [Request -> AttentionRow]
         /\ \A r \in Request :
              IF r \in R THEN ResolvedAttention(R, outcome)[r].state \in SettledState
                         ELSE ResolvedAttention(R, outcome)[r] = attention[r]
<1>1. ASSUME NEW r \in R
      PROVE  /\ ResolvedAttention(R, outcome)[r] \in AttentionRow
             /\ ResolvedAttention(R, outcome)[r].state \in SettledState
  <2> DEFINE resolution == IF attention[r].resolution = None THEN outcome
                           ELSE attention[r].resolution
  <2>1. ResolvedAttention(R, outcome)[r] =
          [attention[r] EXCEPT !.state = "resolved", !.expiresAt = None,
                               !.resolution = resolution]
    BY DEF ResolvedAttention
  <2>2. attention[r] \in AttentionRow
    BY DEF StoreTypeOK
  <2>3. resolution \in Resolution /\ "resolved" \in AttentionState
    BY <2>2 DEF AttentionRow, AttentionState
  <2>. HIDE DEF resolution
  <2>. QED  BY <2>1, <2>2, <2>3 DEF AttentionRow, SettledState
<1>2. ASSUME NEW r \in Request \ R
      PROVE  ResolvedAttention(R, outcome)[r] = attention[r]
  BY DEF ResolvedAttention
<1>3. ResolvedAttention(R, outcome) \in [Request -> AttentionRow]
  BY <1>1, <1>2 DEF ResolvedAttention, StoreTypeOK
<1>. QED  BY <1>1, <1>2, <1>3

\* A sweep, a restart or a handler expires the items of R.
LEMMA ExpirySettles ==
  ASSUME StoreInv, NEW R \in SUBSET Request, UNCHANGED now,
         attention' = ExpiredAttention(R), commands' = FailedCommands(R)
  PROVE  StoreTypeOK' /\ Settles(R)
<1>1. StoreTypeOK'
  <2>1. attention' \in [Request -> AttentionRow]
    BY ExpiredRows DEF StoreInv
  <2>2. commands' \in [Command -> CommandRow]
    BY DEF StoreInv, StoreTypeOK, FailedCommands, CommandRow, CommandState
  <2>. QED  BY <2>1, <2>2 DEF StoreInv, StoreTypeOK
<1>2. Settles(R)
  <2>1. ASSUME NEW r \in Request
        PROVE  IF r \in R THEN attention'[r].state \in SettledState
                          ELSE attention'[r] = attention[r]
    BY ExpiredRows DEF StoreInv
  <2>2. ASSUME NEW c \in Command, Unsettled(c, R)
        PROVE  commands'[c] = [commands[c] EXCEPT !.state = "failed"]
    BY <2>2 DEF FailedCommands
  <2>3. ASSUME NEW c \in Command, ~Unsettled(c, R)
        PROVE  commands'[c] = commands[c]
    BY <2>3 DEF FailedCommands
  <2>. QED  BY <2>1, <2>2, <2>3 DEF Settles, StoreInv, StoreTypeOK, CommandRow
<1>. QED  BY <1>1, <1>2

LEMMA ExpiryKeepsInv ==
  ASSUME StoreInv, NEW R \in SUBSET Request, UNCHANGED now,
         attention' = ExpiredAttention(R), commands' = FailedCommands(R)
  PROVE  StoreInv'
BY ExpirySettles, SettlingKeepsInv

-----------------------------------------------------------------------------
\* A new item is open and no command names it yet.
LEMMA IngestRequestKeepsInv ==
  ASSUME StoreInv, NEW r \in Request, NEW turn \in Turn \cup {None}, IngestRequest(r, turn), UNCHANGED now
  PROVE  StoreInv'
<1>1. StoreTypeOK'
  BY TimeAssumption DEF StoreInv, StoreTypeOK, IngestRequest, AttentionRow, AttentionState,
     LiveState, Resolution
<1>2. ASSUME NEW q \in Request
      PROVE  \/ attention'[q] = attention[q]
             \/ /\ attention[q].state = "none" /\ attention'[q].state = "open"
                /\ attention'[q].resolution = None
  BY DEF IngestRequest, StoreInv, StoreTypeOK
<1>3. UNCHANGED commands
  BY DEF IngestRequest
<1>4. UndecidedItems'
  BY <1>2, <1>3 DEF StoreInv, UndecidedItems, Undecided, InPlay, Won
<1>5. ItemBackedByCommand'
  BY <1>2, <1>3 DEF StoreInv, ItemBackedByCommand
<1>6. CommandRowsAgree' /\ OneWinner' /\ ConfirmedWasSent'
  BY <1>3 DEF StoreInv, CommandRowsAgree, OneWinner, ConfirmedWasSent, InPlay, Won
<1>. QED  BY <1>1, <1>4, <1>5, <1>6 DEF StoreInv

\* A claim finds an open item, on which nothing is in play.
LEMMA ClaimKeepsInv ==
  ASSUME StoreInv, NEW c \in Command, NEW r \in Request, NEW action \in ApprovalAction,
         NEW at \in Nat, Claim(c, r, action, at), UNCHANGED now
  PROVE  StoreInv'
<1>1. CASE ~Claims(c, r, at)
  BY <1>1 DEF Claim, storeVars, StoreInv, StoreTypeOK, CommandRowsAgree, UndecidedItems,
     Undecided, OneWinner, InPlay, Won, ItemBackedByCommand, ConfirmedWasSent
<1>2. CASE Claims(c, r, at)
  <2>1. /\ commands[c].state = "none" /\ attention[r].state = "open"
        /\ \A d \in Command : commands[d].request = r => ~InPlay(d)
    BY <1>2 DEF Claims, Claimable, StoreInv, UndecidedItems, Undecided
  <2>2. /\ attention' = [attention EXCEPT ![r] = attention'[r]]
        /\ attention'[r] =
             [attention[r] EXCEPT
                !.state = IF action = "pass_through" THEN "passed_through" ELSE "committing",
                !.resolution = IF action = "pass_through" THEN "pass_through" ELSE None]
    BY <1>2 DEF Claim, StoreInv, StoreTypeOK
  <2>3. /\ attention'[r].state =
             (IF action = "pass_through" THEN "passed_through" ELSE "committing")
        /\ attention'[r].resolution =
             (IF action = "pass_through" THEN "pass_through" ELSE None)
        /\ attention'[r] \in AttentionRow
    <3>1. attention[r] \in AttentionRow
      BY DEF StoreInv, StoreTypeOK
    <3>2. /\ (IF action = "pass_through" THEN "passed_through" ELSE "committing") \in AttentionState
          /\ (IF action = "pass_through" THEN "pass_through" ELSE None) \in Resolution
      BY DEF AttentionState, LiveState, Resolution
    <3>. QED  BY <2>2, <3>1, <3>2 DEF AttentionRow
  <2>4. \A q \in Request : q # r => attention'[q] = attention[q]
    BY <2>2 DEF StoreInv, StoreTypeOK
  <2>5. commands'[c] =
          [state |-> IF action = "pass_through" THEN "passed_through" ELSE "pending_commit",
           request |-> r, createdAt |-> at, sent |-> FALSE, action |-> action]
    BY <1>2 DEF Claim, StoreInv, StoreTypeOK
  <2>6. \A d \in Command : d # c => commands'[d] = commands[d]
    BY <1>2 DEF Claim, StoreInv, StoreTypeOK
  <2>7. StoreTypeOK'
    <3>1. attention' \in [Request -> AttentionRow]
      BY <2>2, <2>3 DEF StoreInv, StoreTypeOK
    <3>2. commands'[c] \in CommandRow
      BY <2>5 DEF CommandRow, CommandState, UnsettledState
    <3>3. commands' \in [Command -> CommandRow]
      BY <1>2, <3>2 DEF Claim, StoreInv, StoreTypeOK
    <3>. QED  BY <3>1, <3>3 DEF StoreInv, StoreTypeOK
  <2>8. CommandRowsAgree'
    BY <2>5, <2>6 DEF StoreInv, CommandRowsAgree
  <2>9. \A d \in Command : d # c => (InPlay(d)' <=> InPlay(d))
    BY <2>6 DEF InPlay, Won
  <2>10. UndecidedItems'
    BY <2>3, <2>4, <2>5, <2>6, <2>9 DEF StoreInv, UndecidedItems, Undecided
  <2>11. OneWinner'
    BY <2>1, <2>5, <2>6, <2>9 DEF StoreInv, OneWinner
  <2>12. ItemBackedByCommand'
    BY <2>1, <2>3, <2>4, <2>5, <2>6 DEF StoreInv, ItemBackedByCommand
  <2>13. ConfirmedWasSent'
    BY <2>5, <2>6 DEF StoreInv, ConfirmedWasSent
  <2>. QED  BY <2>7, <2>8, <2>10, <2>11, <2>12, <2>13 DEF StoreInv
<1>. QED  BY <1>1, <1>2

\* The undone command was the only one in play, so its item reopens undecided.
LEMMA UndoKeepsInv ==
  ASSUME StoreInv, NEW c \in Command, Undo(c), UNCHANGED now
  PROVE  StoreInv'
<1> DEFINE r == commands[c].request
<1>1. /\ commands[c].state = "pending_commit" /\ ~commands[c].sent
      /\ r \in Request
      /\ \A d \in Command : d # c /\ commands[d].request = r => ~InPlay(d)
  BY DEF Undo, StoreInv, CommandRowsAgree, OneWinner, InPlay
<1>2. \A d \in Command : d # c => commands'[d] = commands[d]
  BY DEF Undo, StoreInv, StoreTypeOK
<1>3. /\ commands'[c].state = "undone"
      /\ commands'[c].request = r /\ commands'[c].sent = commands[c].sent
      /\ commands' \in [Command -> CommandRow]
  BY DEF Undo, StoreInv, StoreTypeOK, CommandRow, CommandState
<1>4. \A q \in Request :
        IF q = r /\ attention[q].state = "committing"
        THEN attention'[q].state = "open" /\ attention'[q].resolution = None
        ELSE attention'[q] = attention[q]
  BY DEF Undo, StoreInv, StoreTypeOK, AttentionRow
<1>5. attention' \in [Request -> AttentionRow]
  BY <1>1 DEF Undo, StoreInv, StoreTypeOK, AttentionRow, AttentionState, LiveState, Resolution
<1>6. StoreTypeOK'
  BY <1>3, <1>5 DEF StoreInv, StoreTypeOK
<1>7. CommandRowsAgree'
  BY <1>1, <1>2, <1>3 DEF StoreInv, CommandRowsAgree
<1>8. /\ \A d \in Command : d # c => (InPlay(d)' <=> InPlay(d))
      /\ ~InPlay(c)'
  BY <1>1, <1>2, <1>3 DEF InPlay, Won
<1>9. UndecidedItems'
  BY <1>1, <1>2, <1>3, <1>4, <1>8 DEF StoreInv, UndecidedItems, Undecided
<1>10. OneWinner'
  BY <1>2, <1>8 DEF StoreInv, OneWinner
<1>11. ItemBackedByCommand'
  BY <1>1, <1>2, <1>3, <1>4 DEF StoreInv, ItemBackedByCommand
<1>12. ConfirmedWasSent'
  BY <1>2, <1>3 DEF StoreInv, ConfirmedWasSent
<1>. QED  BY <1>6, <1>7, <1>9, <1>10, <1>11, <1>12 DEF StoreInv

\* A commit without a waiter settles the item and fails the command.
LEMMA CommitWithoutWaiterSettles ==
  ASSUME StoreInv, NEW c \in Command, NEW at \in Nat, Committable(c, at),
         Commit(c, at, FALSE), UNCHANGED now
  PROVE  StoreTypeOK' /\ Settles({commands[c].request})
<1> DEFINE r == commands[c].request
<1>1. commands[c].state = "pending_commit" /\ r \in Request
  BY DEF StoreInv, CommandRowsAgree, Committable
<1>2. /\ commands' = [commands EXCEPT ![c].state = "failed"]
      /\ attention' = ExpiredAttention({r})
  BY DEF Commit
<1>3. /\ commands'[c].state = "failed" /\ commands'[c].request = commands[c].request
      /\ commands'[c].sent = commands[c].sent /\ commands'[c].action = commands[c].action
      /\ commands' \in [Command -> CommandRow]
  BY <1>2 DEF StoreInv, StoreTypeOK, CommandRow, CommandState
<1>4. \A d \in Command : d # c => commands'[d] = commands[d]
  BY <1>2 DEF StoreInv, StoreTypeOK
<1>5. /\ attention' \in [Request -> AttentionRow]
      /\ \A q \in Request : IF q \in {r} THEN attention'[q].state \in SettledState
                                         ELSE attention'[q] = attention[q]
  BY <1>1, <1>2, ExpiredRows DEF StoreInv
<1>6. Settles({r})
  BY <1>1, <1>3, <1>4, <1>5 DEF Settles, Unsettled, UnsettledState
<1>. QED  BY <1>3, <1>5, <1>6 DEF StoreInv, StoreTypeOK

\* A commit with a waiter moves the item that was committing along with its
\* command; one without settles the item.
LEMMA CommitKeepsInv ==
  ASSUME StoreInv, NEW c \in Command, commands[c].state # "none", NEW at \in Nat,
         NEW active \in BOOLEAN, Commit(c, at, active), UNCHANGED now
  PROVE  StoreInv'
<1> DEFINE r == commands[c].request
<1>1. Committable(c, at) => r \in Request
  BY DEF StoreInv, CommandRowsAgree, Committable
<1>2. CASE ~Committable(c, at)
  BY <1>2 DEF Commit, storeVars, StoreInv, StoreTypeOK, CommandRowsAgree, UndecidedItems,
     Undecided, OneWinner, InPlay, Won, ItemBackedByCommand, ConfirmedWasSent
<1>3. CASE Committable(c, at) /\ ~active
  BY <1>3, CommitWithoutWaiterSettles, SettlingKeepsInv
<1>4. CASE Committable(c, at) /\ active
  <2>1. /\ commands[c].state = "pending_commit" /\ commands[c].action \in ApprovalAction
        /\ \A d \in Command : d # c /\ commands[d].request = r => ~InPlay(d)
    BY <1>4 DEF Committable, StoreInv, CommandRowsAgree, OneWinner, InPlay
  <2>2. \A d \in Command : d # c => commands'[d] = commands[d]
    BY <1>4 DEF Commit, StoreInv, StoreTypeOK
  <2>3. /\ commands'[c].state = "decision_sent" /\ commands'[c].sent
        /\ commands'[c].request = r /\ commands'[c].action = commands[c].action
        /\ commands' \in [Command -> CommandRow]
    BY <1>4 DEF Commit, StoreInv, StoreTypeOK, CommandRow, CommandState, UnsettledState
  <2>4. \A q \in Request :
          IF q = r /\ attention[q].state = "committing"
          THEN /\ attention'[q].state = "decision_sent"
               /\ attention'[q].resolution = commands[c].action
          ELSE attention'[q] = attention[q]
    BY <1>4 DEF Commit, StoreInv, StoreTypeOK, AttentionRow
  <2>5. attention' \in [Request -> AttentionRow]
    <3>1. commands[c].action \in Resolution
      BY <2>1 DEF ApprovalAction, Resolution
    <3>. QED  BY <1>1, <1>4, <3>1 DEF Commit, StoreInv, StoreTypeOK, AttentionRow,
                                      AttentionState, LiveState
  <2>6. StoreTypeOK'
    BY <2>3, <2>5 DEF StoreInv, StoreTypeOK
  <2>7. CommandRowsAgree'
    BY <1>1, <1>4, <2>2, <2>3 DEF StoreInv, CommandRowsAgree
  <2>8. \A d \in Command : InPlay(d)' <=> InPlay(d)
    BY <2>1, <2>2, <2>3 DEF InPlay, Won
  <2>9. UndecidedItems'
    BY <2>2, <2>3, <2>4, <2>8 DEF StoreInv, UndecidedItems, Undecided
  <2>10. OneWinner'
    BY <2>2, <2>3, <2>8 DEF StoreInv, OneWinner
  <2>11. ItemBackedByCommand'
    BY <1>1, <2>1, <2>2, <2>3, <2>4 DEF StoreInv, ItemBackedByCommand
  <2>12. ConfirmedWasSent'
    BY <2>2, <2>3 DEF StoreInv, ConfirmedWasSent
  <2>. QED  BY <2>6, <2>7, <2>9, <2>10, <2>11, <2>12 DEF StoreInv
<1>. QED  BY <1>2, <1>3, <1>4

\* Acting on a question: nothing is in play on it, before or after.
LEMMA ActOnAttentionKeepsInv ==
  ASSUME StoreInv, NEW c \in Command, NEW r \in Request, NEW action \in AttentionAction,
         ActOnAttention(c, r, action), UNCHANGED now
  PROVE  StoreInv'
<1>1. /\ commands[c].state = "none" /\ attention[r].state \in {"open", "snoozed"}
      /\ attention[r].resolution = None
  BY DEF ActOnAttention, Actionable, StoreInv, UndecidedItems, Undecided
<1>2. /\ attention[r] \in AttentionRow
      /\ now + SnoozeDelay \in Nat
  BY StoreAssumption DEF StoreInv, StoreTypeOK
<1>3. /\ attention'[r].state \in {"resolved", "snoozed", "dismissed"}
      /\ attention'[r].state = "snoozed" => attention'[r].resolution = None
      /\ attention'[r] \in AttentionRow
  <2>1. attention'[r] =
          CASE action = "ack" ->
                 [attention[r] EXCEPT !.state = "resolved", !.resolution = "ack",
                                      !.expiresAt = None]
            [] action = "snooze" ->
                 [attention[r] EXCEPT !.state = "snoozed", !.resolution = None,
                                      !.expiresAt = now + SnoozeDelay]
            [] OTHER ->
                 [attention[r] EXCEPT !.state = "dismissed", !.resolution = "user_dismissed",
                                      !.expiresAt = None]
    BY DEF ActOnAttention, StoreInv, StoreTypeOK
  <2>2. /\ {"resolved", "snoozed", "dismissed"} \subseteq AttentionState
        /\ {"ack", None, "user_dismissed"} \subseteq Resolution
    BY DEF AttentionState, Resolution
  <2>3. CASE action = "ack"
    BY <1>2, <2>1, <2>2, <2>3 DEF AttentionRow
  <2>4. CASE action = "snooze"
    BY <1>2, <2>1, <2>2, <2>4 DEF AttentionRow
  <2>5. CASE action = "dismiss"
    BY <1>2, <2>1, <2>2, <2>5 DEF AttentionRow
  <2>. QED  BY <2>3, <2>4, <2>5 DEF AttentionAction
<1>4. /\ \A q \in Request : q # r => attention'[q] = attention[q]
      /\ attention' \in [Request -> AttentionRow]
  BY <1>3 DEF ActOnAttention, StoreInv, StoreTypeOK
<1>5. commands'[c] = [state |-> "confirmed", request |-> r, createdAt |-> now, sent |-> FALSE,
                      action |-> action]
  BY DEF ActOnAttention, StoreInv, StoreTypeOK
<1>6. /\ \A d \in Command : d # c => commands'[d] = commands[d]
      /\ commands' \in [Command -> CommandRow]
  BY <1>5 DEF ActOnAttention, StoreInv, StoreTypeOK, CommandRow, CommandState
<1>7. StoreTypeOK'
  BY <1>4, <1>6 DEF StoreInv, StoreTypeOK
<1>8. CommandRowsAgree'
  BY <1>5, <1>6 DEF StoreInv, CommandRowsAgree
<1>9. /\ \A d \in Command : d # c => (InPlay(d)' <=> InPlay(d))
      /\ ~InPlay(c)'
  BY <1>5, <1>6 DEF InPlay, Won
<1>10. UndecidedItems'
  BY <1>1, <1>3, <1>4, <1>5, <1>6, <1>9 DEF StoreInv, UndecidedItems, Undecided
<1>11. OneWinner'
  BY <1>6, <1>9 DEF StoreInv, OneWinner
<1>12. ItemBackedByCommand'
  BY <1>1, <1>3, <1>4, <1>5, <1>6 DEF StoreInv, ItemBackedByCommand
<1>13. ConfirmedWasSent'
  BY <1>5, <1>6 DEF StoreInv, ConfirmedWasSent
<1>. QED  BY <1>7, <1>8, <1>10, <1>11, <1>12, <1>13 DEF StoreInv

\* A command on an item of no request is confirmed by itself.
LEMMA ActOnOtherKeepsInv ==
  ASSUME StoreInv, NEW c \in Command, NEW a \in AttentionAction, ActOnOther(c, a),
         UNCHANGED now
  PROVE  StoreInv'
<1>1. /\ commands'[c] = [state |-> "confirmed", request |-> None, createdAt |-> now,
                         sent |-> FALSE, action |-> a]
      /\ \A d \in Command : d # c => commands'[d] = commands[d]
      /\ UNCHANGED attention
  BY DEF ActOnOther, StoreInv, StoreTypeOK
<1>2. StoreTypeOK'
  <2>1. commands'[c] \in CommandRow
    BY <1>1 DEF CommandRow, CommandState, StoreInv, StoreTypeOK
  <2>. QED  BY <1>1, <2>1 DEF ActOnOther, StoreInv, StoreTypeOK
<1>3. commands[c].state = "none"
  BY DEF ActOnOther
<1>4. /\ \A d \in Command : d # c => (InPlay(d)' <=> InPlay(d))
      /\ ~InPlay(c)'
  BY <1>1 DEF InPlay, Won
<1>5. CommandRowsAgree' /\ ConfirmedWasSent'
  BY <1>1 DEF StoreInv, CommandRowsAgree, ConfirmedWasSent
<1>6. UndecidedItems' /\ OneWinner'
  BY <1>1, <1>4 DEF StoreInv, UndecidedItems, Undecided, OneWinner
<1>7. ItemBackedByCommand'
  BY <1>1, <1>3 DEF StoreInv, ItemBackedByCommand
<1>. QED  BY <1>2, <1>5, <1>6, <1>7 DEF StoreInv

\* A snoozed item reopens as undecided as it was.
LEMMA ReopenKeepsInv ==
  ASSUME StoreInv, ReopenDueSnoozed, UNCHANGED now
  PROVE  StoreInv'
<1>1. UNCHANGED commands
  BY DEF ReopenDueSnoozed
<1>2. ASSUME NEW r \in Request
      PROVE  /\ \/ attention'[r] = attention[r]
                \/ /\ attention[r].state = "snoozed" /\ attention'[r].state = "open"
                   /\ attention'[r].resolution = attention[r].resolution
             /\ attention'[r] \in AttentionRow
  <2>1. attention[r] \in AttentionRow
    BY DEF StoreInv, StoreTypeOK
  <2>2. CASE r \in DueSnoozed
    <3>1. attention'[r] = [attention[r] EXCEPT !.state = "open", !.expiresAt = None]
      BY <2>2 DEF ReopenDueSnoozed
    <3>2. "open" \in AttentionState
      BY DEF AttentionState, LiveState
    <3>3. attention[r].state = "snoozed"
      BY <2>2 DEF DueSnoozed
    <3>. QED  BY <2>1, <3>1, <3>2, <3>3 DEF AttentionRow
  <2>3. CASE r \notin DueSnoozed
    BY <2>1, <2>3 DEF ReopenDueSnoozed
  <2>. QED  BY <2>2, <2>3
<1>3. StoreTypeOK'
  <2>1. attention' \in [Request -> AttentionRow]
    BY <1>2 DEF ReopenDueSnoozed
  <2>. QED  BY <1>1, <2>1 DEF StoreInv, StoreTypeOK
<1>4. UndecidedItems'
  BY <1>1, <1>2 DEF StoreInv, UndecidedItems, Undecided, InPlay, Won
<1>5. ItemBackedByCommand'
  BY <1>1, <1>2 DEF StoreInv, ItemBackedByCommand
<1>6. CommandRowsAgree' /\ OneWinner' /\ ConfirmedWasSent'
  BY <1>1 DEF StoreInv, CommandRowsAgree, OneWinner, ConfirmedWasSent, InPlay, Won
<1>. QED  BY <1>3, <1>4, <1>5, <1>6 DEF StoreInv

\* A provider event resolves items that were live.
LEMMA HandledAreLive ==
  ASSUME NEW kind, NEW tool, NEW turn, NEW R \in Handled(kind, tool, turn)
  PROVE  R \subseteq {r \in Request : attention[r].state \in LiveState}
<1> DEFINE candidates == Candidates(kind, turn)
           concerned == {r \in candidates : Concerns(r, tool)}
<1>1. candidates \subseteq {r \in Request : attention[r].state \in LiveState}
  BY DEF Candidates, LiveApprovals
<1>2. CASE kind \notin ToolProgress
  BY <1>1, <1>2 DEF Handled
<1>3. CASE kind \in ToolProgress /\ concerned = {}
  BY <1>3 DEF Handled
<1>4. CASE kind \in ToolProgress /\ concerned # {}
  <2>1. R \in {{r} : r \in Newest(concerned)}
    BY <1>4 DEF Handled
  <2>2. Newest(concerned) \subseteq candidates
    BY DEF Newest
  <2>. QED  BY <1>1, <2>1, <2>2
<1>. QED  BY <1>2, <1>3, <1>4

\* What a provider event does to a row: an item of R with a decision was sent
\* it, by the only command in play, so a confirmation finds a sent command.
LEMMA IngestEventSettles ==
  ASSUME StoreInv, NEW kind \in EventKind, NEW tool, NEW turn, NEW R,
         IngestEvent(kind, tool, turn, R), UNCHANGED now
  PROVE  StoreTypeOK' /\ Settles(R) /\ \A r \in R : attention[r].state \in LiveState
<1>1. /\ R \subseteq Request
      /\ \A r \in R : attention[r].state \in LiveState
  BY HandledAreLive DEF IngestEvent
<1>2. /\ attention' \in [Request -> AttentionRow]
      /\ \A r \in Request : IF r \in R THEN attention'[r].state \in SettledState
                                         ELSE attention'[r] = attention[r]
  <2>1. Outcome(kind) \in Resolution
    BY DEF Outcome, Resolution
  <2>. QED  BY <1>1, <2>1, ResolvedRows DEF IngestEvent, StoreInv
<1>4. ASSUME NEW c \in Command, Unsettled(c, R),
             Confirms(kind, commands[c], attention[commands[c].request])
      PROVE  commands[c].state = "decision_sent"
  <2> DEFINE r == commands[c].request
  <2>1. r \in Request /\ attention[r].state \in LiveState
    BY <1>1, <1>4 DEF Unsettled
  <2>2. attention[r].resolution # None
    BY <1>4, StoreAssumption DEF Confirms, ApprovalAction
  <2>3. attention[r].state = "decision_sent"
    BY <2>1, <2>2 DEF StoreInv, UndecidedItems, Undecided, LiveState
  <2>4. PICK d \in Command : commands[d].request = r /\ commands[d].state = "decision_sent"
    BY <2>1, <2>3 DEF StoreInv, ItemBackedByCommand
  <2>5. InPlay(d) /\ InPlay(c)
    BY <1>4, <2>4 DEF StoreInv, CommandRowsAgree, InPlay, Won, Unsettled, UnsettledState
  <2>. QED  BY <2>4, <2>5 DEF StoreInv, OneWinner
<1>5. ASSUME NEW c \in Command, Unsettled(c, R)
      PROVE  /\ commands'[c] \in CommandRow
             /\ commands'[c].request = commands[c].request
             /\ commands'[c].sent = commands[c].sent
             /\ commands'[c].action = commands[c].action
             /\ \/ commands'[c] = commands[c]
                \/ commands'[c].state = "failed"
                \/ commands'[c].state = "confirmed" /\ commands[c].state = "decision_sent"
  <2> DEFINE state == CommandAfter(kind, commands[c], attention[commands[c].request])
  <2>1. commands'[c] = [commands[c] EXCEPT !.state = state]
    BY <1>5 DEF IngestEvent
  <2>2. commands[c] \in CommandRow
    BY DEF StoreInv, StoreTypeOK
  <2>3. \/ state = "confirmed" /\ commands[c].state = "decision_sent"
        \/ state = commands[c].state
        \/ state = "failed"
    BY <1>4, <1>5 DEF CommandAfter
  <2>4. state \in CommandState
    BY <2>2, <2>3 DEF CommandRow, CommandState
  <2>. HIDE DEF state
  <2>. QED  BY <2>1, <2>2, <2>3, <2>4 DEF CommandRow
<1>6. ASSUME NEW c \in Command, ~Unsettled(c, R)
      PROVE  commands'[c] = commands[c]
  BY <1>6 DEF IngestEvent
<1>7. commands' \in [Command -> CommandRow]
  <2>1. \A c \in Command : commands'[c] \in CommandRow
    BY <1>5, <1>6 DEF StoreInv, StoreTypeOK
  <2>. QED  BY <2>1 DEF IngestEvent
<1>8. StoreTypeOK'
  BY <1>2, <1>7 DEF StoreInv, StoreTypeOK
<1>9. Settles(R)
  BY <1>2, <1>5, <1>6 DEF Settles
<1>. QED  BY <1>1, <1>8, <1>9

LEMMA IngestEventKeepsInv ==
  ASSUME StoreInv, NEW kind \in EventKind, NEW tool, NEW turn, NEW R,
         IngestEvent(kind, tool, turn, R), UNCHANGED now
  PROVE  StoreInv'
BY IngestEventSettles, SettlingKeepsInv

\* The app-server's word that nothing waits: a confirmation finds a sent command
\* by its own condition.
LEMMA ClearKeepsInv ==
  ASSUME StoreInv, ClearApprovals, UNCHANGED now
  PROVE  StoreInv'
<1> DEFINE R == LiveApprovals
<1>1. R \subseteq Request
  BY DEF LiveApprovals
<1>2. /\ attention' \in [Request -> AttentionRow]
      /\ \A r \in Request : IF r \in R THEN attention'[r].state \in SettledState
                                         ELSE attention'[r] = attention[r]
  <2>1. "provider_handled" \in Resolution
    BY DEF Resolution
  <2>. QED  BY <1>1, <2>1, ResolvedRows DEF ClearApprovals, StoreInv
<1>3. ASSUME NEW c \in Command, Unsettled(c, R)
      PROVE  /\ commands'[c] \in CommandRow
             /\ commands'[c].request = commands[c].request
             /\ commands'[c].sent = commands[c].sent
             /\ commands'[c].action = commands[c].action
             /\ \/ commands'[c] = commands[c]
                \/ commands'[c].state = "failed"
                \/ commands'[c].state = "confirmed" /\ commands[c].state = "decision_sent"
  <2> DEFINE state == CommandAfterClear(commands[c], attention[commands[c].request])
  <2>1. commands'[c] = [commands[c] EXCEPT !.state = state]
    BY <1>3 DEF ClearApprovals
  <2>2. commands[c] \in CommandRow
    BY DEF StoreInv, StoreTypeOK
  <2>3. \/ state = "confirmed" /\ commands[c].state = "decision_sent"
        \/ state = commands[c].state
        \/ state = "failed"
    BY DEF CommandAfterClear
  <2>4. state \in CommandState
    BY <2>2, <2>3 DEF CommandRow, CommandState
  <2>. HIDE DEF state
  <2>. QED  BY <2>1, <2>2, <2>3, <2>4 DEF CommandRow
<1>4. ASSUME NEW c \in Command, ~Unsettled(c, R)
      PROVE  commands'[c] = commands[c]
  BY <1>4 DEF ClearApprovals
<1>5. commands' \in [Command -> CommandRow]
  <2>1. \A c \in Command : commands'[c] \in CommandRow
    BY <1>3, <1>4 DEF StoreInv, StoreTypeOK
  <2>. QED  BY <2>1 DEF ClearApprovals
<1>6. StoreTypeOK'
  BY <1>2, <1>5 DEF StoreInv, StoreTypeOK
<1>7. Settles(R)
  BY <1>2, <1>3, <1>4 DEF Settles
<1>. QED  BY <1>6, <1>7, SettlingKeepsInv

-----------------------------------------------------------------------------
LEMMA StoreInitInv == StoreInit => StoreInv
<1> SUFFICES ASSUME StoreInit PROVE StoreInv
  OBVIOUS
<1>1. StoreTypeOK
  BY DEF StoreInit, StoreTypeOK, NoAttention, NoCommand, AttentionRow, CommandRow,
     AttentionState, CommandState, Resolution
<1>. QED  BY <1>1 DEF StoreInit, StoreInv, NoAttention, NoCommand, CommandRowsAgree,
     UndecidedItems, Undecided, OneWinner, InPlay, Won, ItemBackedByCommand, ConfirmedWasSent

LEMMA StoreNextKeepsInv == StoreInv /\ [StoreNext]_<<now, storeVars>> => StoreInv'
<1> SUFFICES ASSUME StoreInv, [StoreNext]_<<now, storeVars>> PROVE StoreInv'
  OBVIOUS
<1>1. ASSUME NEW r \in Request, NEW turn \in Turn \cup {None}, IngestRequest(r, turn), UNCHANGED now
      PROVE  StoreInv'
  BY <1>1, IngestRequestKeepsInv
<1>2. ASSUME NEW kind \in EventKind, NEW tool \in Tool, NEW turn \in Turn \cup {None},
             NEW R, IngestEvent(kind, tool, turn, R), UNCHANGED now
      PROVE  StoreInv'
  BY <1>2, IngestEventKeepsInv
<1>3. ASSUME NEW c \in Command, NEW r \in Request, NEW a \in ApprovalAction,
             NEW at \in 0..now, Claim(c, r, a, at), UNCHANGED now
      PROVE  StoreInv'
  <2>1. at \in Nat
    BY DEF StoreInv, StoreTypeOK
  <2>. QED  BY <1>3, <2>1, ClaimKeepsInv
<1>4. ASSUME NEW c \in Command, Undo(c), UNCHANGED now
      PROVE  StoreInv'
  BY <1>4, UndoKeepsInv
<1>5. ASSUME NEW c \in Command, NEW active \in BOOLEAN, commands[c].state # "none",
             Commit(c, CommitDue(c), active), UNCHANGED now
      PROVE  StoreInv'
  <2>1. CommitDue(c) \in Nat
    BY TimeAssumption DEF CommitDue, StoreInv, StoreTypeOK, CommandRow
  <2>. QED  BY <1>5, <2>1, CommitKeepsInv
<1>6. ASSUME NEW c \in Command, NEW r \in Request, NEW a \in AttentionAction,
             ActOnAttention(c, r, a), UNCHANGED now
      PROVE  StoreInv'
  BY <1>6, ActOnAttentionKeepsInv
<1>7. ASSUME ReopenDueSnoozed, UNCHANGED now
      PROVE  StoreInv'
  BY <1>7, ReopenKeepsInv
<1>8. ASSUME NEW active \in SUBSET Request, ReconcileOrphans(active), UNCHANGED now
      PROVE  StoreInv'
  BY <1>8, ExpiryKeepsInv DEF ReconcileOrphans
<1>9. ASSUME UNCHANGED storeVars, now' \in Nat
      PROVE  StoreInv'
  BY <1>9 DEF storeVars, StoreInv, StoreTypeOK, CommandRowsAgree, UndecidedItems, Undecided,
     OneWinner, InPlay, Won, ItemBackedByCommand, ConfirmedWasSent
<1>10. ASSUME NEW r \in Request, ExpireApproval(r), UNCHANGED now
       PROVE  StoreInv'
  <2>1. now' \in Nat
    BY <1>10 DEF StoreInv, StoreTypeOK
  <2>. QED  BY <1>9, <1>10, <2>1, ExpiryKeepsInv DEF ExpireApproval
<1>11. ASSUME Tick, UNCHANGED storeVars
       PROVE  StoreInv'
  BY <1>9, <1>11 DEF Tick, StoreInv, StoreTypeOK
<1>12. CASE UNCHANGED <<now, storeVars>>
  BY <1>9, <1>12 DEF StoreInv, StoreTypeOK
<1>13. ASSUME ClearApprovals, UNCHANGED now
       PROVE  StoreInv'
  BY <1>13, ClearKeepsInv
<1>14. ASSUME NEW c \in Command, NEW a \in AttentionAction, ActOnOther(c, a), UNCHANGED now
       PROVE  StoreInv'
  BY <1>14, ActOnOtherKeepsInv
<1>. QED  BY <1>1, <1>2, <1>3, <1>4, <1>5, <1>6, <1>7, <1>8, <1>10, <1>11, <1>12, <1>13,
          <1>14 DEF StoreNext, StoreStep, DecisionStep

LEMMA StoreInvHolds == StoreSpec => []StoreInv
  BY StoreInitInv, StoreNextKeepsInv, PTL DEF StoreSpec

\* The rows keep their types: no transaction writes the state of one table
\* into the other, or a resolution that is none.
THEOREM StoreTypeCorrect == StoreSpec => []StoreTypeOK
<1>1. StoreInv => StoreTypeOK
  BY DEF StoreInv
<1>. QED  BY <1>1, StoreInvHolds, PTL

\* Approve, deny and pass-through of one request have one winner, however many
\* commands race, whatever clocks and activity they were decided on.
THEOREM CommandsHaveOneWinner == StoreSpec => []OneWinner
<1>1. StoreInv => OneWinner
  BY DEF StoreInv
<1>. QED  BY <1>1, StoreInvHolds, PTL

\* An item that is committing, or whose decision was sent, has that command.
THEOREM ItemsAreBacked == StoreSpec => []ItemBackedByCommand
<1>1. StoreInv => ItemBackedByCommand
  BY DEF StoreInv
<1>. QED  BY <1>1, StoreInvHolds, PTL

\* What was undone was not sent, and an open or snoozed item is undecided.
THEOREM OpenItemsAreUndecided == StoreSpec => []OpenMeansUndecided
<1>1. StoreInv => OpenMeansUndecided
  BY DEF StoreInv, OpenMeansUndecided, CommandRowsAgree, UndecidedItems, Undecided
<1>. QED  BY <1>1, StoreInvHolds, PTL

\* Provider evidence confirms only what was sent.
THEOREM ConfirmationsFollowSends == StoreSpec => []ConfirmedWasSent
<1>1. StoreInv => ConfirmedWasSent
  BY DEF StoreInv
<1>. QED  BY <1>1, StoreInvHolds, PTL

-----------------------------------------------------------------------------
\* The items each transaction may take out of a settled state: none.
KeepsSettled ==
  \A r \in Request : attention[r].state \in SettledState => attention'[r].state \in SettledState

LEMMA StepKeepsSettled ==
  ASSUME StoreTypeOK, CommandRowsAgree, StoreStep
  PROVE  KeepsSettled
<1>1. ASSUME NEW r \in Request, NEW turn \in Turn \cup {None}, IngestRequest(r, turn)
      PROVE  KeepsSettled
  BY <1>1 DEF IngestRequest, KeepsSettled, SettledState, StoreTypeOK
<1>2. ASSUME NEW kind \in EventKind, NEW tool \in Tool, NEW turn \in Turn \cup {None},
             NEW R, IngestEvent(kind, tool, turn, R)
      PROVE  KeepsSettled
  <2>1. ASSUME NEW r \in Request, attention[r].state \in SettledState
        PROVE  attention'[r] = attention[r]
    BY <1>2, <2>1, HandledAreLive DEF IngestEvent, ResolvedAttention, SettledState, LiveState
  <2>. QED  BY <2>1 DEF KeepsSettled
<1>3. ASSUME NEW c \in Command, NEW r \in Request, NEW a, NEW at, Claim(c, r, a, at)
      PROVE  KeepsSettled
  <2>1. ASSUME NEW q \in Request, attention[q].state \in SettledState
        PROVE  attention'[q] = attention[q]
    BY <1>3, <2>1 DEF Claim, Claims, Claimable, storeVars, SettledState, StoreTypeOK
  <2>. QED  BY <2>1 DEF KeepsSettled
<1>4. ASSUME NEW c \in Command, Undo(c)
      PROVE  KeepsSettled
  <2>1. ASSUME NEW q \in Request, attention[q].state \in SettledState
        PROVE  attention'[q] = attention[q]
    BY <1>4, <2>1 DEF Undo, SettledState, StoreTypeOK
  <2>. QED  BY <2>1 DEF KeepsSettled
<1>5. ASSUME NEW c \in Command, NEW active \in BOOLEAN, commands[c].state # "none",
             Commit(c, CommitDue(c), active)
      PROVE  KeepsSettled
  <2>1. Committable(c, CommitDue(c)) => commands[c].request \in Request
    BY DEF CommandRowsAgree, Committable
  <2>2. ASSUME NEW q \in Request, attention[q].state \in SettledState
        PROVE  attention'[q] = attention[q] \/ attention'[q].state \in SettledState
    <3>1. CASE ~Committable(c, CommitDue(c))
      BY <1>5, <3>1 DEF Commit, storeVars
    <3>2. CASE attention' = ExpiredAttention({commands[c].request})
               /\ Committable(c, CommitDue(c))
      BY <2>1, <3>2, ExpiredRows
    <3>3. CASE attention' # ExpiredAttention({commands[c].request})
      BY <1>5, <2>2, <3>3 DEF Commit, storeVars, SettledState, StoreTypeOK
    <3>. QED  BY <3>1, <3>2, <3>3
  <2>. QED  BY <2>2 DEF KeepsSettled
<1>6. ASSUME NEW c \in Command, NEW r \in Request, NEW a \in AttentionAction,
             ActOnAttention(c, r, a)
      PROVE  KeepsSettled
  <2>1. ASSUME NEW q \in Request, attention[q].state \in SettledState
        PROVE  attention'[q] = attention[q]
    BY <1>6, <2>1 DEF ActOnAttention, Actionable, SettledState, StoreTypeOK
  <2>. QED  BY <2>1 DEF KeepsSettled
<1>7. ASSUME ReopenDueSnoozed
      PROVE  KeepsSettled
  BY <1>7 DEF ReopenDueSnoozed, DueSnoozed, KeepsSettled, SettledState
<1>8. ASSUME NEW R \in SUBSET Request, attention' = ExpiredAttention(R)
      PROVE  KeepsSettled
  BY <1>8, ExpiredRows DEF KeepsSettled
<1>9. ASSUME NEW active \in SUBSET Request, ReconcileOrphans(active)
      PROVE  KeepsSettled
  BY <1>8, <1>9 DEF ReconcileOrphans
<1>10. ASSUME NEW r \in Request, ExpireApproval(r)
       PROVE  KeepsSettled
  <2>1. CASE attention[r].state \in LiveState
    BY <1>8, <1>10, <2>1 DEF ExpireApproval
  <2>2. CASE attention[r].state \notin LiveState
    BY <1>10, <2>2 DEF ExpireApproval, storeVars, KeepsSettled
  <2>. QED  BY <2>1, <2>2
<1>11. ASSUME ClearApprovals
       PROVE  KeepsSettled
  BY <1>11 DEF ClearApprovals, ResolvedAttention, LiveApprovals, KeepsSettled, SettledState,
     LiveState
<1>12. ASSUME NEW c \in Command, NEW a \in AttentionAction, ActOnOther(c, a)
       PROVE  KeepsSettled
  BY <1>12 DEF ActOnOther, KeepsSettled
<1>. QED  BY <1>1, <1>2, <1>3, <1>4, <1>5, <1>6, <1>7, <1>9, <1>10, <1>11, <1>12
          DEF StoreStep, DecisionStep

\* Nothing settled reopens, whichever stale click, undo, timer or event is late.
THEOREM SettledItemsStaySettled == StoreSpec => SettledNeverReopens
<1>1. StoreInv /\ [StoreNext]_<<now, storeVars>> =>
        [KeepsSettled]_<<now, storeVars>>
  <2>1. StoreInv /\ StoreStep => KeepsSettled
    BY StepKeepsSettled DEF StoreInv
  <2>2. UNCHANGED storeVars => KeepsSettled
    BY DEF storeVars, KeepsSettled
  <2>. QED  BY <2>1, <2>2 DEF StoreNext
<1>2. StoreSpec => [][KeepsSettled]_<<now, storeVars>>
  BY <1>1, StoreInvHolds, PTL DEF StoreSpec
<1>. QED  BY <1>2, PTL DEF SettledNeverReopens, KeepsSettled

=============================================================================
