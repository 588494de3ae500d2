------------------------ MODULE CodexConnectorProofs ------------------------
(***************************************************************************)
(* Proofs about CodexConnector, for any number of threads, panel clients,  *)
(* questions and calls.  CallsInv is about the calls: ids are fresh and    *)
(* held by one caller each, and what the app-server was asked under an id  *)
(* is what that caller asked.  RepliesInv is about the questions.          *)
(***************************************************************************)
EXTENDS CodexConnector, TLAPS

Call == [step : {"idle", "write", "wait", "returned"}, id : Nat, subject : Subject,
         got : Answer \cup {None}]

CallTypes ==
  /\ nextId \in Nat \ {0} /\ pending \subseteq Nat \ {0}
  /\ caller \in [Caller -> Call]
  /\ asked \subseteq Answer /\ answers \subseteq Answer

\* Every id in use was handed out, and 0 never is.
IdsWereTaken ==
  /\ \A id \in pending : id < nextId
  /\ \A a \in asked \cup answers : a.id # 0 /\ a.id < nextId
  /\ \A c \in Caller :
       caller[c].id < nextId /\ (caller[c].step = "write" => caller[c].id # 0)

OneCallerPerId ==
  \A c, d \in Caller : caller[c].id = caller[d].id /\ caller[c].id # 0 => c = d

\* Under the id of a call, only its subject was ever asked.
AskedForCaller ==
  \A a \in asked \cup answers, c \in Caller :
    caller[c].id = a.id => caller[c].subject = a.subject

\* PendingIsWaiting holds by OneCallerPerId, too: the entry of an id has one
\* call that can give it up.
CallsInv ==
  CallTypes /\ IdsWereTaken /\ OneCallerPerId /\ AskedForCaller
    /\ OwnAnswer /\ PendingIsWaiting

LEMMA CallsInit == Init => CallsInv
BY DEF Init, CallsInv, CallTypes, IdsWereTaken, OneCallerPerId, AskedForCaller, OwnAnswer,
       PendingIsWaiting, Call, Resting, Subject

LEMMA CallsUntouched ==
  ASSUME CallsInv, UNCHANGED <<asked, answers, nextId, pending, caller>>
  PROVE  CallsInv'
BY DEF CallsInv, CallTypes, IdsWereTaken, OneCallerPerId, AskedForCaller, OwnAnswer,
       PendingIsWaiting

\* A new call: its id is above every id in use.
LEMMA CallBeginsKeeps ==
  ASSUME CallsInv, NEW c \in Caller, NEW subject \in Subject, CallBegins(c, subject),
         UNCHANGED <<asked, answers>>
  PROVE  CallsInv'
<1>. DEFINE call == [step |-> "write", id |-> nextId, subject |-> subject, got |-> None]
<1>1. /\ nextId' = nextId + 1 /\ pending' = pending \cup {nextId}
      /\ caller' = [caller EXCEPT ![c] = call] /\ caller[c].step = "idle"
  BY DEF CallBegins
<1>2. nextId \in Nat \ {0} /\ caller \in [Caller -> Call] /\ call \in Call
  BY DEF CallsInv, CallTypes, Call
<1>3. caller'[c] = call /\ \A d \in Caller \ {c} : caller'[d] = caller[d]
  BY <1>1, <1>2
<1>4. CallTypes'
  <2>1. caller' \in [Caller -> Call]
    BY <1>1, <1>2
  <2>2. nextId + 1 \in Nat \ {0}
    BY <1>2
  <2>3. pending \cup {nextId} \subseteq Nat \ {0}
    BY <1>2 DEF CallsInv, CallTypes
  <2>. QED  BY <1>1, <2>1, <2>2, <2>3 DEF CallsInv, CallTypes
<1>5. \A d \in Caller : caller[d].id \in Nat /\ caller[d].id < nextId
  BY <1>2 DEF CallsInv, IdsWereTaken, Call
<1>6. \A a \in asked \cup answers : a.id \in Nat /\ a.id # 0 /\ a.id < nextId
  BY DEF CallsInv, CallTypes, IdsWereTaken, Answer
<1>7. \A id \in pending : id \in Nat /\ id < nextId
  BY DEF CallsInv, CallTypes, IdsWereTaken
<1>8. IdsWereTaken'
  <2>1. \A k \in Nat : k < nextId => k < nextId + 1
    BY <1>2
  <2>2. nextId < nextId + 1 /\ nextId # 0
    BY <1>2
  <2>3. \A id \in pending' : id < nextId'
    BY <1>1, <1>7, <2>1, <2>2
  <2>4. \A a \in asked' \cup answers' : a.id # 0 /\ a.id < nextId'
    BY <1>1, <1>6, <2>1
  <2>5. ASSUME NEW d \in Caller
        PROVE  caller'[d].id < nextId' /\ (caller'[d].step = "write" => caller'[d].id # 0)
    <3>1. CASE d = c
      BY <1>1, <1>3, <2>2, <3>1
    <3>2. CASE d # c
      BY <1>1, <1>3, <1>5, <2>1, <3>2 DEF CallsInv, IdsWereTaken
    <3>. QED  BY <3>1, <3>2
  <2>. QED  BY <2>3, <2>4, <2>5 DEF IdsWereTaken
<1>9. OneCallerPerId'
  BY <1>2, <1>3, <1>5 DEF CallsInv, OneCallerPerId
<1>10. AskedForCaller'
  BY <1>2, <1>3, <1>6 DEF CallsInv, AskedForCaller
<1>11. OwnAnswer'
  BY <1>3 DEF CallsInv, OwnAnswer
<1>12. PendingIsWaiting'
  BY <1>1, <1>3 DEF CallsInv, PendingIsWaiting
<1>. QED  BY <1>4, <1>8, <1>9, <1>10, <1>11, <1>12 DEF CallsInv

\* One call goes on under the id it has, or ends, and its entry goes or had
\* been given up before.
LEMMA OwnStepKeeps ==
  ASSUME CallsInv, NEW c \in Caller, NEW call \in Call, call.step # "write",
         caller' = [caller EXCEPT ![c] = call], nextId' = nextId,
         call.id = 0 \/ (call.id = caller[c].id /\ call.subject = caller[c].subject),
         call.got \in {None, Closed}
           \/ /\ call.got = caller[c].got /\ call.id = caller[c].id
              /\ call.subject = caller[c].subject,
         pending' \subseteq pending,
         caller[c].id \in pending' =>
           /\ call.id = caller[c].id /\ call.step \in {"write", "wait"}
           /\ call.got = None,
         asked' = asked \/ asked' = asked \cup {[id |-> caller[c].id,
                                   subject |-> caller[c].subject, ok |-> FALSE]},
         asked' # asked => caller[c].id # 0,
         answers' = answers
  PROVE  CallsInv'
<1>1. caller \in [Caller -> Call] /\ nextId \in Nat \ {0} /\ pending \subseteq Nat \ {0}
  BY DEF CallsInv, CallTypes
<1>2. caller'[c] = call /\ \A d \in Caller \ {c} : caller'[d] = caller[d]
  BY <1>1
<1>. DEFINE new == [id |-> caller[c].id, subject |-> caller[c].subject, ok |-> FALSE]
<1>3. new \in Answer /\ asked' \subseteq asked \cup {new}
  BY <1>1 DEF Call, Answer
<1>4. CallTypes'
  BY <1>1, <1>3 DEF CallsInv, CallTypes
<1>5. \A d \in Caller : caller[d].id \in Nat /\ caller[d].id < nextId
  BY <1>1 DEF CallsInv, IdsWereTaken, Call
<1>6. \A a \in asked' \cup answers' : a.id # 0 /\ a.id < nextId
  BY <1>3, <1>5 DEF CallsInv, IdsWereTaken
<1>7. IdsWereTaken'
  BY <1>1, <1>2, <1>5, <1>6 DEF CallsInv, IdsWereTaken
<1>8. OneCallerPerId'
  BY <1>2, <1>5 DEF CallsInv, OneCallerPerId
<1>9. AskedForCaller'
  <2>. SUFFICES ASSUME NEW a \in asked' \cup answers', NEW d \in Caller,
                       caller'[d].id = a.id
                PROVE  caller'[d].subject = a.subject
    BY DEF AskedForCaller
  <2>1. caller[d].id = a.id /\ caller'[d].subject = caller[d].subject
    BY <1>2, <1>6
  <2>2. CASE a \in asked \cup answers
    BY <2>1, <2>2 DEF CallsInv, AskedForCaller
  <2>3. CASE a = new
    BY <2>1, <2>3, <1>6 DEF CallsInv, OneCallerPerId
  <2>. QED  BY <1>3, <2>2, <2>3
<1>10. OwnAnswer'
  <2>. SUFFICES ASSUME NEW d \in Caller, caller'[d].got \notin {None, Closed}
                PROVE  /\ caller'[d].got.id = caller'[d].id
                       /\ caller'[d].got.subject = caller'[d].subject
    BY DEF OwnAnswer
  <2>1. CASE d # c
    BY <1>2, <2>1 DEF CallsInv, OwnAnswer
  <2>2. CASE d = c
    <3>1. /\ call.got = caller[c].got /\ call.id = caller[c].id
          /\ call.subject = caller[c].subject
      BY <1>2, <2>2
    <3>2. caller[c].got.id = caller[c].id /\ caller[c].got.subject = caller[c].subject
      BY <1>2, <2>2, <3>1 DEF CallsInv, OwnAnswer
    <3>. QED  BY <1>2, <2>2, <3>1, <3>2
  <2>. QED  BY <2>1, <2>2
<1>11. PendingIsWaiting'
  <2>. SUFFICES ASSUME NEW id \in pending'
                PROVE  \E d \in Caller :
                         /\ caller'[d].id = id /\ caller'[d].step \in {"write", "wait"}
                         /\ caller'[d].got = None
    BY DEF PendingIsWaiting
  <2>1. PICK d \in Caller : /\ caller[d].id = id /\ caller[d].step \in {"write", "wait"}
                            /\ caller[d].got = None
    BY DEF CallsInv, PendingIsWaiting
  <2>2. caller'[d].id = id /\ caller'[d].step \in {"write", "wait"} /\ caller'[d].got = None
    BY <1>2, <2>1
  <2>. QED  BY <2>2
<1>. QED  BY <1>4, <1>7, <1>8, <1>9, <1>10, <1>11 DEF CallsInv

-----------------------------------------------------------------------------
(* The steps of a call and of the reader *)

LEMMA CallerTyped ==
  ASSUME CallsInv, NEW c \in Caller
  PROVE  /\ caller \in [Caller -> Call] /\ caller[c] \in Call
         /\ caller[c] = [step |-> caller[c].step, id |-> caller[c].id,
                         subject |-> caller[c].subject, got |-> caller[c].got]
BY DEF CallsInv, CallTypes, Call

LEMMA NotPendingAgain ==
  ASSUME CallsInv, NEW c \in Caller,
         caller[c].step \notin {"write", "wait"} \/ caller[c].got # None
  PROVE  caller[c].id \notin pending
<1>. SUFFICES ASSUME caller[c].id \in pending PROVE FALSE
  OBVIOUS
<1>1. PICK d \in Caller : /\ caller[d].id = caller[c].id
                          /\ caller[d].step \in {"write", "wait"} /\ caller[d].got = None
  BY DEF CallsInv, PendingIsWaiting
<1>2. caller[c].id # 0
  BY DEF CallsInv, CallTypes
<1>. QED  BY <1>1, <1>2 DEF CallsInv, OneCallerPerId

LEMMA ClosedInCall == Closed \in Answer /\ Resting \in Call
BY DEF Closed, Answer, Subject, Resting, Call

LEMMA GivesUp ==
  ASSUME NEW call \in Call, NEW after,
         after = [call EXCEPT !.step = "returned", !.got = Closed]
  PROVE  after = [step |-> "returned", id |-> call.id, subject |-> call.subject,
                  got |-> Closed]
BY DEF Call

LEMMA CallStepKeeps ==
  ASSUME CallsInv, NEW c \in Caller, CallStep(c)
  PROVE  CallsInv'
<1>1. caller \in [Caller -> Call] /\ caller[c] \in Call
  BY CallerTyped
<1>. DEFINE Now(step, got) == [step |-> step, id |-> caller[c].id,
                               subject |-> caller[c].subject, got |-> got]
<1>2. ASSUME NEW step \in {"write", "wait", "returned"}, NEW got \in Answer \cup {None}
      PROVE  Now(step, got) \in Call
  BY <1>1, <1>2 DEF Call
<1>3. nextId \in Nat \ {0} /\ pending \subseteq Nat \ {0}
  BY DEF CallsInv, CallTypes
<1>4. CASE CallWrites(c)
  <2>1. CASE proxy = "up"
    <3>. DEFINE call == Now("wait", caller[c].got)
    <3>1. caller' = [caller EXCEPT ![c] = call]
      BY <1>1, <1>4, <2>1 DEF CallWrites, Moves, Call
    <3>2. call \in Call
      BY <1>1, <1>2 DEF Call
    <3>3. /\ UNCHANGED <<nextId, pending, answers>> /\ caller[c].step = "write"
          /\ asked' = asked \cup {[id |-> caller[c].id,
                                   subject |-> caller[c].subject, ok |-> FALSE]}
      BY <1>4, <2>1 DEF CallWrites
    <3>4. caller[c].id \in pending => caller[c].got = None
      BY NotPendingAgain
    <3>5. caller[c].id # 0
      BY <3>3 DEF CallsInv, IdsWereTaken
    <3>. QED  BY <3>1, <3>2, <3>3, <3>4, <3>5, OwnStepKeeps
  <2>2. CASE proxy # "up"
    <3>. DEFINE call == Now("returned", Closed)
    <3>1. caller' = [caller EXCEPT ![c] = call]
      BY <1>1, <1>4, <2>2 DEF CallWrites, Call
    <3>2. /\ UNCHANGED <<nextId, asked, answers>>
          /\ pending' = pending \ {caller[c].id}
      BY <1>4, <2>2 DEF CallWrites
    <3>3. call \in Call
      BY <1>2, ClosedInCall
    <3>. QED  BY <3>1, <3>2, <3>3, OwnStepKeeps
  <2>. QED  BY <2>1, <2>2
<1>5. CASE CallReceives(c)
  <2>. DEFINE call == Now("returned", caller[c].got)
  <2>1. caller' = [caller EXCEPT ![c] = call]
    <3>1. caller' = [caller EXCEPT ![c].step = "returned"]
      BY <1>5 DEF CallReceives, Moves
    <3>2. [caller[c] EXCEPT !.step = "returned"] = call
      BY <1>1 DEF Call
    <3>. QED  BY <3>1, <3>2, Zenon
  <2>2. call \in Call
    BY <1>1, <1>2 DEF Call
  <2>3. UNCHANGED <<nextId, pending, asked, answers>> /\ caller[c].got # None
    BY <1>5 DEF CallReceives, transport
  <2>4. caller[c].id \notin pending
    BY <2>3, NotPendingAgain
  <2>. QED  BY <2>1, <2>2, <2>3, <2>4, OwnStepKeeps
<1>6. CASE CallTimesOut(c)
  <2>. DEFINE call == Now("returned", Closed)
  <2>1. caller' = [caller EXCEPT ![c] = call]
    <3>1. caller' = [caller EXCEPT ![c].step = "returned", ![c].got = Closed]
      BY <1>6 DEF CallTimesOut
    <3>2. [caller[c] EXCEPT !.step = "returned", !.got = Closed] = call
      BY <1>1, GivesUp
    <3>. QED  BY <3>1, <3>2, Zenon
  <2>2. call \in Call
    BY <1>2, ClosedInCall
  <2>3. UNCHANGED <<nextId, asked, answers>> /\ pending' = pending \ {caller[c].id}
    BY <1>6 DEF CallTimesOut, transport
  <2>. QED  BY <2>1, <2>2, <2>3, OwnStepKeeps
<1>. QED  BY <1>4, <1>5, <1>6 DEF CallStep

\* A call that is over: its caller rests.
LEMMA RestsKeeps ==
  ASSUME CallsInv, NEW c \in Caller, Rests(c), Returned(c),
         UNCHANGED <<asked, answers, nextId, pending>>
  PROVE  CallsInv'
<1>1. caller[c].id \notin pending
  BY NotPendingAgain DEF Returned
<1>2. Resting.id = 0 /\ Resting.got = None
  BY DEF Resting
<1>3. Resting.step # "write"
  BY DEF Resting
<1>. QED  BY <1>1, <1>2, <1>3, ClosedInCall, OwnStepKeeps DEF Rests

\* The reader delivers a value to the calls that wait under some ids, whose
\* entries go: the answer to them, or Closed.
LEMMA DeliveryKeeps ==
  ASSUME CallsInv, NEW ids, NEW value \in Answer,
         caller' = Delivered(ids, value), pending' = pending \ ids,
         nextId' = nextId, asked' = asked, answers' \subseteq answers,
         value = Closed \/ \A c \in Caller : caller[c].id \in ids =>
           caller[c].id = value.id /\ caller[c].subject = value.subject
  PROVE  CallsInv'
<1>1. caller \in [Caller -> Call]
  BY DEF CallsInv, CallTypes
<1>2. ASSUME NEW c \in Caller
      PROVE  /\ caller'[c] \in Call /\ caller'[c].id = caller[c].id
             /\ caller'[c].step = caller[c].step /\ caller'[c].subject = caller[c].subject
             /\ caller'[c].got = caller[c].got
                  \/ (caller'[c].got = value /\ caller[c].id \in ids)
             /\ caller[c].id \notin ids => caller'[c] = caller[c]
  <2>1. CASE caller[c].id \in ids /\ caller[c].step \in {"write", "wait"}
    <3>1. caller'[c] = [caller[c] EXCEPT !.got = value]
      BY <2>1 DEF Delivered
    <3>2. caller[c] \in Call
      BY <1>1
    <3>. QED  BY <2>1, <3>1, <3>2 DEF Call
  <2>2. CASE ~(caller[c].id \in ids /\ caller[c].step \in {"write", "wait"})
    <3>1. caller'[c] = caller[c]
      BY <2>2 DEF Delivered
    <3>. QED  BY <1>1, <3>1
  <2>. QED  BY <2>1, <2>2
<1>3. CallTypes'
  <2>1. caller' \in [Caller -> Call]
    <3>1. caller' = [c \in Caller |-> caller'[c]]
      BY DEF Delivered
    <3>. QED  BY <1>2, <3>1
  <2>. QED  BY <2>1 DEF CallsInv, CallTypes
<1>4. IdsWereTaken'
  BY <1>2 DEF CallsInv, IdsWereTaken
<1>5. OneCallerPerId'
  BY <1>2 DEF CallsInv, OneCallerPerId
<1>6. AskedForCaller'
  BY <1>2 DEF CallsInv, AskedForCaller
<1>7. OwnAnswer'
  BY <1>2 DEF CallsInv, OwnAnswer
<1>8. PendingIsWaiting'
  <2>. SUFFICES ASSUME NEW id \in pending \ ids
                PROVE  \E d \in Caller :
                         /\ caller'[d].id = id /\ caller'[d].step \in {"write", "wait"}
                         /\ caller'[d].got = None
    BY DEF PendingIsWaiting
  <2>1. PICK d \in Caller : /\ caller[d].id = id /\ caller[d].step \in {"write", "wait"}
                            /\ caller[d].got = None
    BY DEF CallsInv, PendingIsWaiting
  <2>. QED  BY <1>2, <2>1
<1>. QED  BY <1>3, <1>4, <1>5, <1>6, <1>7, <1>8 DEF CallsInv

LEMMA ReaderKeeps ==
  ASSUME CallsInv, (\E a \in answers : CompleteResponse(a)) \/ ReaderEnds
  PROVE  CallsInv'
<1>1. ASSUME NEW a \in answers, CompleteResponse(a) PROVE CallsInv'
  <2>1. /\ answers' \subseteq answers /\ pending' = pending \ {a.id}
        /\ asked' = asked /\ nextId' = nextId
    BY <1>1 DEF CompleteResponse
  <2>2. CASE a.id \in pending
    <3>1. caller' = Delivered({a.id}, a)
      BY <1>1, <2>2 DEF CompleteResponse
    <3>2. a \in Answer
      BY DEF CallsInv, CallTypes
    <3>3. \A c \in Caller : caller[c].id \in {a.id} =>
            caller[c].id = a.id /\ caller[c].subject = a.subject
      BY DEF CallsInv, AskedForCaller
    <3>. QED  BY <2>1, <3>1, <3>2, <3>3, DeliveryKeeps
  <2>3. CASE a.id \notin pending
    <3>1. caller' = caller /\ pending' = pending
      BY <1>1, <2>1, <2>3 DEF CompleteResponse
    <3>. QED
      BY <2>1, <3>1
         DEF CallsInv, CallTypes, IdsWereTaken, OneCallerPerId, AskedForCaller, OwnAnswer,
             PendingIsWaiting
  <2>. QED  BY <2>2, <2>3
<1>2. CASE ReaderEnds
  <2>1. /\ caller' = Delivered(pending, Closed) /\ pending' = pending \ pending
        /\ nextId' = nextId /\ asked' = asked /\ answers' \subseteq answers
    BY <1>2 DEF ReaderEnds
  <2>. QED  BY <2>1, ClosedInCall, DeliveryKeeps
<1>. QED  BY <1>1, <1>2

\* The app-server answers under the id and about the subject it was asked.
LEMMA ServerKeeps ==
  ASSUME CallsInv, (\E a \in asked : ServerAnswers(a)) \/ ProxyDies
  PROVE  CallsInv'
<1>1. UNCHANGED <<nextId, pending, caller>>
  BY DEF ServerAnswers, ProxyDies, calls
<1>2. /\ asked' \subseteq asked /\ asked' \cup answers' \subseteq Answer
      /\ \A b \in asked' \cup answers' : \E a \in asked \cup answers :
            b.id = a.id /\ b.subject = a.subject
  <2>1. ASSUME NEW a \in asked, ServerAnswers(a)
        PROVE  \E ok \in BOOLEAN :
                 answers' \subseteq answers \cup {[a EXCEPT !.ok = ok]}
    BY <2>1 DEF ServerAnswers
  <2>2. ASSUME NEW a \in asked, NEW ok \in BOOLEAN
        PROVE  /\ [a EXCEPT !.ok = ok] \in Answer
               /\ [a EXCEPT !.ok = ok].id = a.id /\ [a EXCEPT !.ok = ok].subject = a.subject
    BY <2>2 DEF CallsInv, CallTypes, Answer
  <2>3. asked' \subseteq asked /\ (ProxyDies => answers' = answers)
    BY DEF ServerAnswers, ProxyDies
  <2>4. asked \subseteq Answer /\ answers \subseteq Answer
    BY DEF CallsInv, CallTypes
  <2>5. CASE ProxyDies
    BY <2>3, <2>4, <2>5
  <2>6. ASSUME NEW a \in asked, ServerAnswers(a)
        PROVE  /\ asked' \cup answers' \subseteq Answer
               /\ \A b \in asked' \cup answers' : \E d \in asked \cup answers :
                     b.id = d.id /\ b.subject = d.subject
    <3>1. PICK new \in Answer : /\ answers' \subseteq answers \cup {new}
                                /\ new.id = a.id /\ new.subject = a.subject
      BY <2>1, <2>2, <2>6
    <3>. QED  BY <2>3, <2>4, <3>1
  <2>. QED  BY <2>3, <2>5, <2>6
<1>3. CallTypes'
  BY <1>1, <1>2 DEF CallsInv, CallTypes
<1>4. IdsWereTaken'
  BY <1>1, <1>2 DEF CallsInv, IdsWereTaken
<1>5. AskedForCaller'
  BY <1>1, <1>2 DEF CallsInv, AskedForCaller
<1>6. OneCallerPerId' /\ OwnAnswer' /\ PendingIsWaiting'
  BY <1>1 DEF CallsInv, OneCallerPerId, OwnAnswer, PendingIsWaiting
<1>. QED  BY <1>3, <1>4, <1>5, <1>6 DEF CallsInv

-----------------------------------------------------------------------------
(* The manager's and the questions' variables *)

ManagerTypes ==
  /\ proxy \in {"up", "dead"} /\ reader \in BOOLEAN /\ resumed \subseteq Thread
  /\ phase \in {"initialize", "list", "resume", "up", "failed"}
  /\ connected \in BOOLEAN /\ handlers \subseteq Handler
  /\ left \cup managed \cup resumeFailed \cup setting \subseteq Thread
  /\ writer \in [Writer -> (SUBSET Thread) \cup {None}]

ItemTypes == row \in [Question -> ItemState] /\ skipped \subseteq Question

QuestionTypes ==
  /\ question \in [Question -> QuestionStep]
  /\ about \in [Question -> Thread \cup {None}]
  /\ waiter \in [Question -> {"none", "pending", "answered", "passed"}]
  /\ ItemTypes
  /\ reply \in [Question -> {"none", "answer", "error", "twice"}]
  /\ desk \in [Clerk -> Question \cup {None}]
  /\ \A q \in Question : question[q] # "none" => about[q] # None

\* A reply ends the handling of its question, and an answer is the waiter's.
RepliedIsDone ==
  \A q \in Question :
    /\ question[q] # "done" => reply[q] = "none"
    /\ question[q] \in {"registered", "ingested", "saving", "waiting"} => waiter[q] # "none"

QuestionsInv == ManagerTypes /\ QuestionTypes /\ RepliedIsDone /\ OneReply

LEMMA QuestionsInit == Init => QuestionsInv
BY DEF Init, QuestionsInv, ManagerTypes, QuestionTypes, ItemTypes, RepliedIsDone, OneReply,
       QuestionStep, ItemState

LEMMA ItemsUntouched == ItemTypes /\ UNCHANGED items => ItemTypes'
BY DEF ItemTypes, items

\* One item is settled, snoozed or opened.
LEMMA ItemMoves ==
  ASSUME ItemTypes, NEW q \in Question, NEW state \in ItemState,
         row' = [row EXCEPT ![q] = state], skipped' = skipped
  PROVE  ItemTypes'
BY DEF ItemTypes

LEMMA ExpiresKeeps ==
  ASSUME ItemTypes, NEW q \in Question, Expires(q)
  PROVE  ItemTypes'
BY DEF ItemTypes, Expires, ItemState

LEMMA QuestionsUntouched ==
  ASSUME QuestionsInv, ManagerTypes', UNCHANGED questions
  PROVE  QuestionsInv'
BY ItemsUntouched DEF QuestionsInv, QuestionTypes, RepliedIsDone, OneReply, questions

\* Everything else leaves the calls alone, or begins one, or takes note of
\* one that has returned.
LEMMA CallsNext == CallsInv /\ QuestionsInv /\ [ConnectorNext]_vars => CallsInv'
<1>. SUFFICES ASSUME CallsInv, QuestionsInv, [ConnectorNext]_vars PROVE CallsInv'
  OBVIOUS
<1>1. CASE UNCHANGED vars
  BY <1>1, CallsUntouched DEF vars, transport, calls
<1>2. ASSUME NEW q \in Question,
             \/ \E t \in Thread : ServerAsks(q, t)
             \/ RouteRequest(q) \/ HandlerStep(q) \/ QuestionThread(q) \/ SweepWaiter(q)
             \/ ActOnItem(q) \/ ReopenSnoozed(q)
             \/ \E p \in Panel : AnswerQuestion(p, q)
      PROVE  CallsInv'
  <2>1. CASE HandlerStep(q)
    BY <2>1, CallsUntouched
       DEF HandlerStep, Refuse, Register, IngestStores, IngestFails, Adopt, AdoptSaves,
           Saves, transport, calls
  <2>2. CASE QuestionThread(q)
    BY <2>2, CallsUntouched
       DEF QuestionThread, QuestionReceives, QuestionTimesOut, QuestionPasses,
           QuestionExpires, QuestionReplies, transport, calls
  <2>. QED
    BY <1>2, <2>1, <2>2, CallsUntouched
       DEF ServerAsks, RouteRequest, SweepWaiter, ActOnItem, ReopenSnoozed, AnswerQuestion,
           transport, calls
<1>3. ASSUME NEW h \in Handler, HandlerEnds(h) PROVE CallsInv'
  BY <1>3, CallsUntouched DEF HandlerEnds, transport, calls
<1>4. CASE DropInner \/ SweepItem
  BY <1>4, CallsUntouched DEF DropInner, SweepItem, transport, calls
<1>5. CASE StartStep
  <2>0. "start" \in Caller
    BY DEF Caller
  <2>1. CASE StartCalls
    <3>1. UNCHANGED <<asked, answers>>
      BY <2>1 DEF StartCalls, transport
    <3>2. PICK s : CallBegins("start", s) /\ (s \in {"initialize", "list"} \/ s \in left)
      BY <2>1 DEF StartCalls
    <3>. QED  BY <2>0, <3>1, <3>2, CallBeginsKeeps DEF Subject, QuestionsInv, ManagerTypes
  <2>2. CASE StartInitialized \/ StartListed \/ StartResumed
    BY <2>0, <2>2, RestsKeeps DEF StartInitialized, StartListed, StartResumed, transport
  <2>3. CASE SpawnHandlers
    BY <2>3, CallsUntouched DEF SpawnHandlers, transport, calls
  <2>. QED  BY <1>5, <2>1, <2>2, <2>3 DEF StartStep
<1>6. ASSUME NEW p \in Panel,
             \/ \E t \in Thread : Attach(p, t)
             \/ AttachApplies(p) \/ AttachSaves(p) \/ RecordAnswer(p)
      PROVE  CallsInv'
  <2>0. p \in Caller
    BY DEF Caller
  <2>1. ASSUME NEW t \in Thread, Attach(p, t) PROVE CallsInv'
    BY <2>0, <2>1, CallBeginsKeeps DEF Attach, transport, Subject
  <2>2. CASE AttachApplies(p)
    BY <2>0, <2>2, RestsKeeps DEF AttachApplies, transport
  <2>3. CASE AttachSaves(p) \/ RecordAnswer(p)
    BY <2>3, CallsUntouched DEF AttachSaves, Saves, RecordAnswer, transport, calls
  <2>. QED  BY <1>6, <2>1, <2>2, <2>3
<1>7. ASSUME NEW c \in Caller, CallStep(c) PROVE CallsInv'
  BY <1>7, CallStepKeeps
<1>. QED
  BY <1>1, <1>2, <1>3, <1>4, <1>5, <1>6, <1>7, ServerKeeps, ReaderKeeps DEF ConnectorNext

-----------------------------------------------------------------------------
(* The steps of a question *)

\* A step that writes a reply ends its question.
LEMMA RepliesKeep ==
  ASSUME QuestionsInv, NEW q \in Question, NEW what \in {"answer", "error"},
         ManagerTypes', Replies(q, what), question[q] # "done", question[q] # "none",
         UNCHANGED <<about, items, desk>>,
         waiter' = waiter \/ (what = "error" /\ PassedThrough(q)),
         what = "answer" => waiter[q] = "answered"
  PROVE  QuestionsInv'
<1>. USE DEF QuestionsInv, QuestionTypes
<1>1. question' = [question EXCEPT ![q] = "done"] /\ reply[q] = "none"
  BY DEF Replies, QuestionGoes, RepliedIsDone
<1>2. reply' = reply \/ reply' = [reply EXCEPT ![q] = what]
  BY <1>1 DEF Replies
<1>3. /\ waiter' \in [Question -> {"none", "pending", "answered", "passed"}]
      /\ \A p \in Question : waiter'[p] = waiter[p] \/ (waiter[p] = "pending"
                               /\ waiter'[p] = "passed" /\ p = q /\ what = "error")
  BY DEF PassedThrough
<1>4. QuestionTypes'
  <2>1. question' \in [Question -> QuestionStep]
    BY <1>1 DEF QuestionStep
  <2>2. reply' \in [Question -> {"none", "answer", "error", "twice"}]
    BY <1>2
  <2>3. \A p \in Question : question'[p] # "none" => about'[p] # None
    BY <1>1
  <2>. QED  BY <1>3, <2>1, <2>2, <2>3, ItemsUntouched
<1>5. RepliedIsDone'
  BY <1>1, <1>2, <1>3 DEF RepliedIsDone
<1>6. OneReply'
  BY <1>1, <1>2, <1>3 DEF OneReply
<1>. QED  BY <1>4, <1>5, <1>6

\* A step that writes none moves one question on.
LEMMA MovesKeep ==
  ASSUME QuestionsInv, NEW q \in Question, NEW step \in QuestionStep,
         ManagerTypes', QuestionGoes(q, step), question[q] # "done", step # "done",
         reply' = reply, UNCHANGED desk,
         ItemTypes',
         about' \in [Question -> Thread \cup {None}],
         \A p \in Question : about'[p] = about[p] \/ about'[p] # None,
         step # "none" => about'[q] # None,
         waiter' \in [Question -> {"none", "pending", "answered", "passed"}],
         \A p \in Question \ {q} : waiter'[p] = waiter[p],
         step \in {"registered", "ingested", "saving", "waiting"} => waiter'[q] # "none"
  PROVE  QuestionsInv'
<1>. USE DEF QuestionsInv, QuestionTypes
<1>1. question' = [question EXCEPT ![q] = step]
  BY DEF QuestionGoes
<1>2. QuestionTypes'
  <2>1. question' \in [Question -> QuestionStep]
    BY <1>1
  <2>2. \A p \in Question : question'[p] # "none" => about'[p] # None
    BY <1>1
  <2>. QED  BY <2>1, <2>2
<1>3. RepliedIsDone'
  BY <1>1 DEF RepliedIsDone
<1>4. OneReply'
  BY <1>1 DEF RepliedIsDone, OneReply
<1>. QED  BY <1>2, <1>3, <1>4

\* A click or the expiry thread decides a waiter that is pending, or settles
\* an item.
LEMMA ClerkKeeps ==
  ASSUME QuestionsInv, ManagerTypes', UNCHANGED <<question, about, reply>>,
         ItemTypes',
         desk' \in [Clerk -> Question \cup {None}],
         waiter' \in [Question -> {"none", "pending", "answered", "passed"}],
         \A p \in Question : waiter'[p] = waiter[p]
           \/ (waiter[p] = "pending" /\ waiter'[p] \in {"answered", "passed"})
  PROVE  QuestionsInv'
<1>. USE DEF QuestionsInv, QuestionTypes
<1>1. QuestionTypes'
  OBVIOUS
<1>2. RepliedIsDone'
  BY DEF RepliedIsDone
<1>3. OneReply'
  BY DEF OneReply
<1>. QED  BY <1>1, <1>2, <1>3

-----------------------------------------------------------------------------
(* The steps, by what they do to the questions *)

LEMMA SavesKeep ==
  ASSUME ManagerTypes, NEW w \in Writer, Saves(w), UNCHANGED <<proxy, reader, resumed>>
  PROVE  ManagerTypes'
BY DEF ManagerTypes, Saves

LEMMA ManagesKeep ==
  ASSUME ManagerTypes, NEW w \in Writer, NEW t \in Thread, Manages(w, t),
         UNCHANGED <<proxy, reader, resumed, phase, connected, left, handlers, setting>>
  PROVE  ManagerTypes'
BY DEF ManagerTypes, Manages

LEMMA ManagerUntouched ==
  ASSUME ManagerTypes, UNCHANGED <<proxy, reader, resumed, manager>>
  PROVE  ManagerTypes'
BY DEF ManagerTypes, manager

LEMMA HandlerKeeps ==
  ASSUME QuestionsInv, NEW q \in Question, HandlerStep(q)
  PROVE  QuestionsInv'
<1>. USE DEF QuestionsInv
<1>1. "handler" \in Writer
  BY DEF Writer
<1>2. CASE Refuse(q)
  BY <1>2, RepliesKeep, ManagerUntouched DEF Refuse, transport
<1>3. CASE Register(q)
  <2>1. /\ waiter' = [waiter EXCEPT ![q] = "pending"] /\ QuestionGoes(q, "registered")
        /\ question[q] = "queued" /\ UNCHANGED <<proxy, reader, resumed, manager>>
        /\ UNCHANGED <<about, items, reply, desk>>
    BY <1>3 DEF Register, transport
  <2>2. "registered" \in QuestionStep
    BY DEF QuestionStep
  <2>. QED  BY <2>1, <2>2, MovesKeep, ManagerUntouched, ItemsUntouched DEF QuestionTypes
<1>4. CASE IngestStores(q)
  <2>1. /\ row' = [row EXCEPT ![q] = "open"] /\ QuestionGoes(q, "ingested")
        /\ question[q] = "registered" /\ UNCHANGED <<proxy, reader, resumed, manager>>
        /\ UNCHANGED <<about, waiter, skipped, reply, desk>>
    BY <1>4 DEF IngestStores, Opens, transport
  <2>2. "ingested" \in QuestionStep
    BY DEF QuestionStep
  <2>3. ItemTypes'
    BY <2>1, ItemMoves DEF QuestionTypes, ItemState
  <2>. QED  BY <2>1, <2>2, <2>3, MovesKeep, ManagerUntouched DEF QuestionTypes, RepliedIsDone
<1>5. CASE IngestFails(q)
  BY <1>5, RepliesKeep, ManagerUntouched DEF IngestFails, transport
<1>6. CASE Adopt(q)
  <2>1. /\ Manages("handler", about[q]) /\ QuestionGoes(q, "saving")
        /\ question[q] = "ingested" /\ UNCHANGED <<about, waiter, items, reply, desk>>
        /\ UNCHANGED <<proxy, reader, resumed, phase, connected, left, handlers, setting>>
    BY <1>6 DEF Adopt, transport
  <2>2. about[q] \in Thread
    BY <2>1 DEF QuestionTypes
  <2>3. "saving" \in QuestionStep
    BY DEF QuestionStep
  <2>. QED
    BY <1>1, <2>1, <2>2, <2>3, MovesKeep, ManagesKeep, ItemsUntouched
       DEF QuestionTypes, RepliedIsDone
<1>7. CASE AdoptSaves(q)
  <2>1. /\ Saves("handler") /\ QuestionGoes(q, "waiting")
        /\ question[q] = "saving" /\ UNCHANGED <<about, waiter, items, reply, desk>>
        /\ UNCHANGED <<proxy, reader, resumed>>
    BY <1>7 DEF AdoptSaves, Saves, transport
  <2>2. "waiting" \in QuestionStep
    BY DEF QuestionStep
  <2>. QED  BY <1>1, <2>1, <2>2, MovesKeep, SavesKeep, ItemsUntouched
          DEF QuestionTypes, RepliedIsDone
<1>. QED  BY <1>2, <1>3, <1>4, <1>5, <1>6, <1>7 DEF HandlerStep

LEMMA QuestionThreadKeeps ==
  ASSUME QuestionsInv, NEW q \in Question, QuestionThread(q)
  PROVE  QuestionsInv'
<1>. USE DEF QuestionsInv
<1>. ManagerTypes'
  BY ManagerUntouched
     DEF QuestionThread, QuestionReceives, QuestionTimesOut, QuestionPasses,
         QuestionExpires, QuestionReplies, transport
<1>. {"passing", "expiring", "replying"} \subseteq QuestionStep
  BY DEF QuestionStep
<1>1. CASE QuestionReceives(q)
  <2>1. CASE waiter[q] = "answered"
    BY <1>1, <2>1, RepliesKeep DEF QuestionReceives
  <2>2. CASE waiter[q] # "answered"
    BY <1>1, <2>2, RepliesKeep DEF QuestionReceives
  <2>. QED  BY <2>1, <2>2
<1>2. CASE QuestionTimesOut(q)
  <2>1. /\ QuestionGoes(q, "passing") /\ question[q] = "waiting"
        /\ UNCHANGED <<about, waiter, items, reply, desk>>
    BY <1>2 DEF QuestionTimesOut
  <2>. QED  BY <2>1, MovesKeep, ItemsUntouched DEF QuestionTypes
<1>3. CASE QuestionPasses(q)
  <2>1. /\ QuestionGoes(q, "expiring") /\ question[q] = "passing"
        /\ UNCHANGED <<about, items, reply, desk>>
        /\ waiter' \in [Question -> {"none", "pending", "answered", "passed"}]
        /\ \A p \in Question \ {q} : waiter'[p] = waiter[p]
    BY <1>3 DEF QuestionPasses, PassedThrough, QuestionTypes
  <2>. QED  BY <2>1, MovesKeep, ItemsUntouched DEF QuestionTypes
<1>4. CASE QuestionExpires(q)
  <2>1. /\ QuestionGoes(q, "replying") /\ question[q] = "expiring"
        /\ UNCHANGED <<about, waiter, reply, desk>>
        /\ ItemTypes'
    BY <1>4, ExpiresKeeps DEF QuestionExpires, QuestionTypes
  <2>. QED  BY <2>1, MovesKeep, ItemsUntouched DEF QuestionTypes
<1>5. CASE QuestionReplies(q)
  BY <1>5, RepliesKeep DEF QuestionReplies
<1>. QED  BY <1>1, <1>2, <1>3, <1>4, <1>5 DEF QuestionThread

LEMMA ClerksKeep ==
  ASSUME QuestionsInv,
         \/ \E p \in Panel, q \in Question : AnswerQuestion(p, q)
         \/ \E p \in Panel : RecordAnswer(p)
         \/ \E q \in Question : SweepWaiter(q) \/ ActOnItem(q) \/ ReopenSnoozed(q)
         \/ SweepItem
  PROVE  QuestionsInv'
<1>. USE DEF QuestionsInv, QuestionTypes
<1>. Panel \subseteq Clerk /\ "expiry" \in Clerk
  BY DEF Clerk
<1>1. ManagerTypes'
  BY ManagerUntouched DEF AnswerQuestion, RecordAnswer, SweepWaiter, SweepItem, ActOnItem,
                          ReopenSnoozed, transport
<1>2. ASSUME NEW p \in Panel, NEW q \in Question, AnswerQuestion(p, q)
      PROVE  QuestionsInv'
  <2>1. CASE waiter[q] = "pending"
    BY <1>1, <1>2, <2>1, ClerkKeeps, ItemsUntouched DEF AnswerQuestion
  <2>2. CASE waiter[q] # "pending"
    BY <1>1, <1>2, <2>2, ClerkKeeps, ExpiresKeeps DEF AnswerQuestion
  <2>. QED  BY <2>1, <2>2
<1>3. ASSUME NEW p \in Panel, RecordAnswer(p) PROVE QuestionsInv'
  <2>1. ItemTypes'
    BY <1>3 DEF RecordAnswer, ItemTypes, ItemState
  <2>. QED  BY <1>1, <1>3, <2>1, ClerkKeeps DEF RecordAnswer
<1>4. ASSUME NEW q \in Question, SweepWaiter(q) PROVE QuestionsInv'
  BY <1>1, <1>4, ClerkKeeps, ItemsUntouched DEF SweepWaiter
<1>5. CASE SweepItem
  BY <1>1, <1>5, ClerkKeeps, ExpiresKeeps DEF SweepItem
<1>6. ASSUME NEW q \in Question, ActOnItem(q) \/ ReopenSnoozed(q) PROVE QuestionsInv'
  <2>1. PICK state \in ItemState : row' = [row EXCEPT ![q] = state]
    BY <1>6 DEF ActOnItem, ReopenSnoozed, ItemState
  <2>2. UNCHANGED <<question, about, waiter, skipped, reply, desk>>
    BY <1>6 DEF ActOnItem, ReopenSnoozed
  <2>. QED  BY <1>1, <2>1, <2>2, ClerkKeeps, ItemMoves
<1>. QED  BY <1>2, <1>3, <1>4, <1>5, <1>6

\* What a caller asks for: attach and the last phase of start name a thread.
CallersAsk ==
  /\ \A p \in Panel : caller[p].step # "idle" => caller[p].subject \in Thread
  /\ phase = "resume" /\ caller["start"].step # "idle" => caller["start"].subject \in Thread

ConnectorInv == CallsInv /\ QuestionsInv /\ CallersAsk

LEMMA AsksOn ==
  ASSUME ConnectorInv, phase' = phase,
         \A c \in Caller : caller'[c] = caller[c] \/ caller'[c].step = "idle"
           \/ (caller[c].step # "idle" /\ caller'[c].subject = caller[c].subject)
  PROVE  CallersAsk'
BY DEF ConnectorInv, CallersAsk, Caller

LEMMA CallersAskNext ==
  ASSUME ConnectorInv, [ConnectorNext]_vars
  PROVE  CallersAsk'
<1>0. caller \in [Caller -> Call] /\ left \subseteq Thread
  BY DEF ConnectorInv, CallsInv, CallTypes, QuestionsInv, ManagerTypes
<1>1. ASSUME UNCHANGED <<phase, caller>> PROVE CallersAsk'
  BY <1>1 DEF ConnectorInv, CallersAsk
<1>2. ASSUME NEW c \in Caller, CallStep(c) PROVE CallersAsk'
  <2>1. phase' = phase /\ caller[c].step # "idle"
    BY <1>2 DEF CallStep, CallWrites, CallReceives, CallTimesOut, manager
  <2>2. \A d \in Caller \ {c} : caller'[d] = caller[d]
    BY <1>0, <1>2 DEF CallStep, CallWrites, CallReceives, CallTimesOut, Moves
  <2>3. caller'[c].subject = caller[c].subject
    <3>1. caller[c] \in Call
      BY <1>0
    <3>. QED
      BY <1>0, <1>2, <3>1 DEF CallStep, CallWrites, CallReceives, CallTimesOut, Moves, Call
  <2>. QED  BY <2>1, <2>2, <2>3, AsksOn
<1>3. ASSUME NEW ids, NEW value, caller' = Delivered(ids, value), phase' = phase
      PROVE  CallersAsk'
  <2>. SUFFICES ASSUME NEW c \in Caller
                PROVE  caller'[c] = caller[c] \/ (caller[c].step # "idle"
                         /\ caller'[c].subject = caller[c].subject)
    BY <1>3, AsksOn
  <2>1. caller[c] \in Call
    BY <1>0
  <2>2. CASE caller[c].id \in ids /\ caller[c].step \in {"write", "wait"}
    <3>1. caller'[c] = [caller[c] EXCEPT !.got = value]
      BY <1>3, <2>2 DEF Delivered
    <3>. QED  BY <2>1, <2>2, <3>1 DEF Call
  <2>3. CASE ~(caller[c].id \in ids /\ caller[c].step \in {"write", "wait"})
    BY <1>3, <2>3 DEF Delivered
  <2>. QED  BY <2>2, <2>3
<1>4. CASE ReaderEnds
  BY <1>3, <1>4 DEF ReaderEnds, manager
<1>5. ASSUME NEW a \in answers, CompleteResponse(a) PROVE CallersAsk'
  BY <1>1, <1>3, <1>5 DEF CompleteResponse, manager
<1>6. CASE StartStep
  <2>0. "start" \in Caller /\ "start" \notin Panel /\ Panel \subseteq Caller
    BY ConnectorAssumption DEF Caller
  <2>1. CASE StartCalls
    <3>1. PICK s : CallBegins("start", s) /\ (phase = "resume" => s \in Thread)
      BY <1>0, <2>1 DEF StartCalls
    <3>2. /\ caller'["start"].subject = s /\ phase' = phase
          /\ \A p \in Panel : caller'[p] = caller[p]
      BY <1>0, <2>0, <2>1, <3>1 DEF StartCalls, CallBegins, manager
    <3>. QED  BY <3>1, <3>2 DEF CallersAsk, ConnectorInv
  <2>2. CASE StartInitialized \/ StartListed \/ StartResumed
    <3>1. /\ caller'["start"] = Resting /\ \A p \in Panel : caller'[p] = caller[p]
      BY <1>0, <2>0, <2>2 DEF StartInitialized, StartListed, StartResumed, Rests
    <3>. QED  BY <3>1 DEF CallersAsk, ConnectorInv, Resting
  <2>3. CASE SpawnHandlers
    BY <2>3 DEF SpawnHandlers, calls, CallersAsk, ConnectorInv
  <2>. QED  BY <1>6, <2>1, <2>2, <2>3 DEF StartStep
<1>7. ASSUME NEW p \in Panel, NEW t \in Thread, Attach(p, t) PROVE CallersAsk'
  <2>1. p \in Caller /\ p # "start"
    BY ConnectorAssumption DEF Caller
  <2>2. /\ caller'[p].subject = t /\ phase' = phase
        /\ \A c \in Caller \ {p} : caller'[c] = caller[c]
    BY <1>0, <1>7, <2>1 DEF Attach, CallBegins, manager
  <2>. QED  BY <2>1, <2>2 DEF CallersAsk, ConnectorInv, Caller
<1>8. ASSUME NEW p \in Panel, AttachApplies(p) PROVE CallersAsk'
  <2>1. p \in Caller
    BY DEF Caller
  <2>2. phase' = phase /\ caller' = [caller EXCEPT ![p] = Resting]
    BY <1>8 DEF AttachApplies, Rests
  <2>3. \A c \in Caller : caller'[c] = caller[c] \/ caller'[c].step = "idle"
    BY <1>0, <2>1, <2>2 DEF Resting
  <2>. QED  BY <2>2, <2>3, AsksOn
<1>9. ASSUME NEW q \in Question,
             \/ \E t \in Thread : ServerAsks(q, t)
             \/ RouteRequest(q) \/ HandlerStep(q) \/ QuestionThread(q) \/ SweepWaiter(q)
             \/ ActOnItem(q) \/ ReopenSnoozed(q)
             \/ \E p \in Panel : AnswerQuestion(p, q)
      PROVE  UNCHANGED <<phase, caller>>
  <2>1. CASE HandlerStep(q)
    BY <2>1 DEF HandlerStep, Refuse, Register, IngestStores, IngestFails, Adopt, AdoptSaves,
                Saves, calls, manager
  <2>2. CASE QuestionThread(q)
    BY <2>2 DEF QuestionThread, QuestionReceives, QuestionTimesOut, QuestionPasses,
                QuestionExpires, QuestionReplies, calls, manager
  <2>. QED
    BY <1>9, <2>1, <2>2 DEF ServerAsks, RouteRequest, SweepWaiter, ActOnItem,
                            ReopenSnoozed, AnswerQuestion, calls, manager
<1>10. ASSUME \/ \E a \in asked : ServerAnswers(a)
              \/ ProxyDies \/ DropInner \/ SweepItem
              \/ \E h \in Handler : HandlerEnds(h)
              \/ \E p \in Panel : AttachSaves(p) \/ RecordAnswer(p)
              \/ UNCHANGED vars
       PROVE  UNCHANGED <<phase, caller>>
  BY <1>10 DEF ServerAnswers, ProxyDies, DropInner, SweepItem, HandlerEnds, AttachSaves,
               Saves, RecordAnswer, calls, manager, vars
<1>. QED
  BY <1>1, <1>2, <1>4, <1>5, <1>6, <1>7, <1>8, <1>9, <1>10 DEF ConnectorNext

\* Nothing else touches a question that has reached the runtime.
LEMMA QuestionsNext == ConnectorInv /\ [ConnectorNext]_vars => QuestionsInv'
<1>. SUFFICES ASSUME ConnectorInv, [ConnectorNext]_vars PROVE QuestionsInv'
  OBVIOUS
<1>. QuestionsInv
  BY DEF ConnectorInv
<1>. USE DEF QuestionsInv
<1>1. CASE UNCHANGED vars
  BY <1>1, QuestionsUntouched, ManagerUntouched DEF vars, transport
<1>2. CASE (\E a \in asked : ServerAnswers(a)) \/ ProxyDies \/ ReaderEnds
             \/ \E a \in answers : CompleteResponse(a)
  <2>1. UNCHANGED <<manager, questions>>
    BY <1>2 DEF ServerAnswers, ProxyDies, ReaderEnds, CompleteResponse
  <2>2. proxy' \in {"up", "dead"} /\ reader' \in BOOLEAN /\ resumed' \subseteq Thread
    BY <1>2 DEF ServerAnswers, ProxyDies, ReaderEnds, CompleteResponse, ManagerTypes
  <2>. QED  BY <2>1, <2>2, QuestionsUntouched DEF ManagerTypes, manager
<1>3. ASSUME NEW c \in Caller, CallStep(c) PROVE QuestionsInv'
  BY <1>3, QuestionsUntouched, ManagerUntouched
     DEF CallStep, CallWrites, CallReceives, CallTimesOut, transport
<1>4. ASSUME NEW q \in Question, NEW t \in Thread, ServerAsks(q, t) PROVE QuestionsInv'
  <2>1. /\ QuestionGoes(q, "sent") /\ question[q] = "none"
        /\ UNCHANGED <<waiter, items, reply, desk>>
        /\ about' = [about EXCEPT ![q] = t] /\ UNCHANGED <<proxy, reader, resumed, manager>>
    BY <1>4 DEF ServerAsks, transport, QuestionGoes
  <2>2. "sent" \in QuestionStep /\ t # None
    BY ConnectorAssumption DEF QuestionStep
  <2>. QED  BY <2>1, <2>2, MovesKeep, ManagerUntouched, ItemsUntouched DEF QuestionTypes
<1>5. ASSUME NEW q \in Question, RouteRequest(q) PROVE QuestionsInv'
  <2>1. /\ QuestionGoes(q, "queued") /\ question[q] = "sent"
        /\ UNCHANGED <<about, waiter, items, reply, desk, proxy, reader, resumed, manager>>
    BY <1>5 DEF RouteRequest, transport
  <2>2. "queued" \in QuestionStep
    BY DEF QuestionStep
  <2>. QED  BY <2>1, <2>2, MovesKeep, ManagerUntouched, ItemsUntouched DEF QuestionTypes
<1>6. CASE StartStep
  <2>1. UNCHANGED <<proxy, reader, resumed, questions>>
    BY <1>6 DEF StartStep, StartCalls, StartInitialized, StartListed, StartResumed,
                SpawnHandlers, transport
  <2>2. CASE StartCalls \/ StartInitialized \/ StartListed \/ SpawnHandlers
    BY <2>1, <2>2, QuestionsUntouched
       DEF StartCalls, StartInitialized, StartListed, SpawnHandlers, ManagerTypes, manager
  <2>3. CASE StartResumed
    <3>1. caller["start"].subject \in Thread
      BY <2>3 DEF StartResumed, Returned, ConnectorInv, CallersAsk
    <3>. QED  BY <2>1, <2>3, <3>1, QuestionsUntouched DEF StartResumed, ManagerTypes
  <2>. QED  BY <1>6, <2>2, <2>3 DEF StartStep
<1>7. ASSUME NEW h \in Handler, HandlerEnds(h) PROVE QuestionsInv'
  BY <1>7, QuestionsUntouched DEF HandlerEnds, transport, ManagerTypes
<1>8. CASE DropInner
  BY <1>8, QuestionsUntouched DEF DropInner, manager, ManagerTypes
<1>9. ASSUME NEW p \in Panel,
             (\E t \in Thread : Attach(p, t)) \/ AttachApplies(p) \/ AttachSaves(p)
      PROVE  QuestionsInv'
  <2>0. p \in Writer
    BY DEF Writer
  <2>1. CASE \E t \in Thread : Attach(p, t)
    BY <2>1, QuestionsUntouched, ManagerUntouched DEF Attach, transport
  <2>2. CASE AttachApplies(p)
    <3>1. CASE Ok(p)
      <4>1. caller[p].subject \in Thread
        BY <2>2 DEF AttachApplies, Returned, ConnectorInv, CallersAsk
      <4>. QED
        BY <2>0, <2>2, <3>1, <4>1, QuestionsUntouched, ManagesKeep
           DEF AttachApplies, transport
    <3>2. CASE ~Ok(p)
      BY <2>2, <3>2, QuestionsUntouched DEF AttachApplies, transport, ManagerTypes
    <3>. QED  BY <3>1, <3>2
  <2>3. CASE AttachSaves(p)
    BY <2>0, <2>3, QuestionsUntouched, SavesKeep DEF AttachSaves, Saves, transport
  <2>. QED  BY <1>9, <2>1, <2>2, <2>3
<1>. QED
  BY <1>1, <1>2, <1>3, <1>4, <1>5, <1>6, <1>7, <1>8, <1>9, HandlerKeeps,
     QuestionThreadKeeps, ClerksKeep DEF ConnectorNext

LEMMA ConnectorInit == Init => ConnectorInv
BY CallsInit, QuestionsInit DEF Init, ConnectorInv, CallersAsk, Caller, Resting

LEMMA ConnectorNextKeeps == ConnectorInv /\ [ConnectorNext]_vars => ConnectorInv'
BY CallsNext, QuestionsNext, CallersAskNext DEF ConnectorInv

LEMMA ConnectorInvHolds == ConnectorSpec => []ConnectorInv
BY ConnectorInit, ConnectorNextKeeps, PTL DEF ConnectorSpec

\* However late an answer comes and whichever calls gave up before it, no call
\* takes the answer to another for its own.
THEOREM CallsGetOwnAnswers == ConnectorSpec => []OwnAnswer
<1>1. ConnectorInv => OwnAnswer
  BY DEF ConnectorInv, CallsInv
<1>. QED  BY <1>1, ConnectorInvHolds, PTL

\* The pending map holds a call that still waits for each of its entries: calls
\* that failed or timed out leave nothing behind.
THEOREM PendingCallsWait == ConnectorSpec => []PendingIsWaiting
<1>1. ConnectorInv => PendingIsWaiting
  BY DEF ConnectorInv, CallsInv
<1>. QED  BY <1>1, ConnectorInvHolds, PTL

\* One reply per question, an answer only if the user gave one.
THEOREM QuestionsGetOneReply == ConnectorSpec => []OneReply
<1>1. ConnectorInv => OneReply
  BY DEF ConnectorInv, QuestionsInv
<1>. QED  BY <1>1, ConnectorInvHolds, PTL

LEMMA IdsBounded ==
  ASSUME ConnectorInv, nextId <= MaxCalls + 1, [ConnectorNext]_vars
  PROVE  nextId' <= MaxCalls + 1
<1>1. ASSUME NEW c, NEW subject, CallBegins(c, subject) PROVE nextId' <= MaxCalls + 1
  BY <1>1, ConnectorAssumption DEF CallBegins, ConnectorInv, CallsInv, CallTypes
<1>2. ASSUME NEW q \in Question, HandlerStep(q) \/ QuestionThread(q) PROVE nextId' = nextId
  <2>1. CASE HandlerStep(q)
    BY <2>1 DEF HandlerStep, Refuse, Register, IngestStores, IngestFails, Adopt, AdoptSaves,
                Saves, calls
  <2>2. CASE QuestionThread(q)
    BY <2>2 DEF QuestionThread, QuestionReceives, QuestionTimesOut, QuestionPasses,
                QuestionExpires, QuestionReplies, calls
  <2>. QED  BY <1>2, <2>1, <2>2
<1>3. ASSUME NEW c \in Caller, CallStep(c) PROVE nextId' = nextId
  BY <1>3 DEF CallStep, CallWrites, CallReceives, CallTimesOut
<1>4. CASE StartStep
  <2>1. CASE StartCalls
    BY <1>1, <2>1 DEF StartCalls
  <2>2. CASE ~StartCalls
    BY <1>4, <2>2
       DEF StartStep, StartInitialized, StartListed, StartResumed, SpawnHandlers, calls
  <2>. QED  BY <2>1, <2>2
<1>5. ASSUME NEW p \in Panel, NEW t \in Thread, Attach(p, t) PROVE nextId' <= MaxCalls + 1
  BY <1>1, <1>5 DEF Attach
<1>6. ASSUME \/ \E a \in asked : ServerAnswers(a)
             \/ \E q \in Question, t \in Thread : ServerAsks(q, t)
             \/ \E a \in answers : CompleteResponse(a)
             \/ \E q \in Question : RouteRequest(q) \/ SweepWaiter(q) \/ ActOnItem(q)
                                       \/ ReopenSnoozed(q)
             \/ ProxyDies \/ ReaderEnds \/ DropInner \/ SweepItem
             \/ \E h \in Handler : HandlerEnds(h)
             \/ \E p \in Panel : AttachApplies(p) \/ AttachSaves(p) \/ RecordAnswer(p)
             \/ \E p \in Panel, q \in Question : AnswerQuestion(p, q)
             \/ UNCHANGED vars
      PROVE  nextId' = nextId
  BY <1>6 DEF ServerAnswers, ServerAsks, CompleteResponse, RouteRequest, SweepWaiter,
              ProxyDies, ReaderEnds, DropInner, SweepItem, HandlerEnds, AttachApplies,
              AttachSaves, Saves, RecordAnswer, AnswerQuestion, ActOnItem, ReopenSnoozed,
              calls, vars
<1>. QED  BY <1>2, <1>3, <1>4, <1>5, <1>6 DEF ConnectorNext

\* The connector, the manager and the questions keep their types.
THEOREM ConnectorTypeCorrect == ConnectorSpec => []ConnectorTypeOK
<1>. DEFINE Bounded == nextId <= MaxCalls + 1
<1>1. Init => Bounded
  BY ConnectorAssumption DEF Init
<1>2. ConnectorInv /\ Bounded /\ [ConnectorNext]_vars => Bounded'
  BY IdsBounded
<1>3. ConnectorInv /\ Bounded => ConnectorTypeOK
  <2>. SUFFICES ASSUME ConnectorInv, Bounded PROVE ConnectorTypeOK
    OBVIOUS
  <2>. USE DEF ConnectorInv
  <2>1. nextId \in 1 .. MaxCalls + 1
    BY ConnectorAssumption DEF CallsInv, CallTypes
  <2>2. \A k \in Nat : k < nextId => k <= MaxCalls
    BY <2>1, ConnectorAssumption
  <2>3. pending \subseteq 1 .. MaxCalls
    BY <2>2, ConnectorAssumption DEF CallsInv, CallTypes, IdsWereTaken
  <2>4. ASSUME NEW c \in Caller
        PROVE  caller[c] \in [step : {"idle", "write", "wait", "returned"},
                              id : 0 .. MaxCalls, subject : Subject,
                              got : Answer \cup {None}]
    <3>1. caller[c] \in Call /\ caller[c].id \in Nat /\ caller[c].id < nextId
      BY DEF CallsInv, CallTypes, IdsWereTaken, Call
    <3>2. caller[c].id \in 0 .. MaxCalls
      BY <2>2, <3>1, ConnectorAssumption
    <3>. QED  BY <3>1, <3>2 DEF Call
  <2>5. caller \in [Caller -> [step : {"idle", "write", "wait", "returned"},
                               id : 0 .. MaxCalls, subject : Subject,
                               got : Answer \cup {None}]]
    BY <2>4 DEF CallsInv, CallTypes
  <2>6. ASSUME NEW w \in Writer, writer[w] # None PROVE writer[w] \subseteq Thread
    BY <2>6 DEF QuestionsInv, ManagerTypes
  <2>7. ASSUME NEW q \in Question,
               question[q] \in {"registered", "ingested", "saving", "waiting"}
        PROVE  waiter[q] # "none" /\ about[q] # None
    BY <2>7 DEF QuestionsInv, QuestionTypes, RepliedIsDone
  <2>8. asked \cup answers \subseteq Answer
    BY DEF CallsInv, CallTypes
  <2>. QED
    BY <2>1, <2>3, <2>5, <2>6, <2>7, <2>8
       DEF ConnectorTypeOK, QuestionsInv, ManagerTypes, QuestionTypes, ItemTypes
<1>. QED  BY <1>1, <1>2, <1>3, ConnectorInvHolds, PTL DEF ConnectorSpec
=============================================================================
