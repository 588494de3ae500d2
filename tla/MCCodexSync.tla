---------------------------- MODULE MCCodexSync -----------------------------
(* Instance of CodexSync for TLC: one hook approval and one snapshot at a    *)
(* time beside the start and the reader of notifications.                    *)
EXTENDS CodexSync

CONSTANTS a1, k1, p1

MCRequest == {a1}
MCTool == {PermissionTool}
MCTurn == 1..MaxTurns
MCKindOf == [r \in MCRequest |-> "approval"]
MCTitleTools == [r \in MCRequest |-> {}]
MCReceivedAt == [r \in MCRequest |-> 0]
MCDeadlineAt == [r \in MCRequest |-> 1]
MCCorrelation == {k1}
MCCorrelationOf == [r \in MCRequest |-> k1]
MCRequestOf == [r \in MCRequest |-> r]
NoOne == {}
OneClient == {p1}
News == {"incidental"}
=============================================================================
