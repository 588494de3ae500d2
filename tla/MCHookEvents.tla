---------------------------- MODULE MCHookEvents ----------------------------
(* Instance of HookEvents for TLC: one approval, one or two native calls.    *)
EXTENDS HookEvents

CONSTANTS a1, c1, bash, k1, n1, n2

MCRequest == {a1}
MCNoRequest == {}
MCCommand == {c1}
MCOneCall == {n1}
MCTwoCalls == {n1, n2}
MCNoCall == {}
MCTool == {bash, PermissionTool}
MCTurn == 1..MaxTurns
MCKindOf == [r \in Request |-> "approval"]
MCTitleTools == [r \in Request |-> {bash}]
MCReceivedAt == [r \in Request |-> 0]
MCDeadlineAt == [r \in Request |-> 1]
MCCorrelation == {k1}
MCCorrelationOf == [r \in Request |-> k1]
=============================================================================
