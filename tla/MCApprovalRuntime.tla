-------------------------- MODULE MCApprovalRuntime -------------------------
(* Instances of the two runtimes for TLC.  Every request is registered under *)
(* its own ticket.                                                           *)
EXTENDS ClearRuntime, TLC

CONSTANTS r1, r2, c1, c2, e1, k1, k2, bash, turn1

OneRequest == {r1}
TwoRequests == {r1, r2}
OneCommand == {c1}
TwoCommands == {c1, c2}
OneEvent == {e1}
NoEvents == {}
AllCorrelations == {k1, k2}
OneTool == {bash}
OneTurn == {turn1}

OwnTicket == [t \in Ticket |-> t]
SameCorrelation == [r \in Request |-> k1]
OwnCorrelation == [r \in Request |-> IF r = r1 THEN k1 ELSE k2]
AllApprovals == [r \in Request |-> "approval"]
AllQuestions == [r \in Request |-> "question"]
TitleNamesTool == [r \in Request |-> {bash}]
ReceivedAtOnce == [r \in Request |-> 0]
DueAtTwo == [r \in Request |-> 2]
SecondReceivedLater == [r \in Request |-> IF r = r1 THEN 0 ELSE 1]

StoppedEvent == [e \in Event |-> "stopped"]
ToolStartedEvent == [e \in Event |-> "tool_started"]
EventTool == [e \in Event |-> bash]
EventOfNoCall == [e \in Event |-> None]
EventOfSecondCall == [e \in Event |-> r2]

CommandSymmetry == Permutations(Command)
=============================================================================
