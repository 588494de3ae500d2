--------------------------- MODULE MCSessionStore ---------------------------
(* Instance of SessionStore for TLC: one approval, one native call and the   *)
(* synthetic card, one command, two turns.                                   *)
EXTENDS SessionStore

CONSTANTS a1, c1, bash, k1, n1

MCRequest == {a1}
MCCommand == {c1}
MCNativeCall == {n1}
MCTool == {bash, PermissionTool}
MCTurn == 1..MaxTurns
MCKindOf == [r \in MCRequest |-> "approval"]
MCTitleTools == [r \in MCRequest |-> {bash}]
MCReceivedAt == [r \in MCRequest |-> 0]
MCDeadlineAt == [r \in MCRequest |-> 1]
MCCorrelation == {k1}
MCCorrelationOf == [r \in MCRequest |-> k1]
=============================================================================
