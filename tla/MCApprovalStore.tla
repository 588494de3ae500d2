--------------------------- MODULE MCApprovalStore --------------------------
(* Instance of ApprovalStore for TLC: two approvals of one tool received one *)
(* after the other, beside a question; two commands, an undo window and a    *)
(* snooze of one tick.  Turns are left to MCSessionStore.                    *)
EXTENDS ApprovalStore, TLC

CONSTANTS a1, a2, q1, c1, c2, bash, edit, k1

MCRequest == {a1, a2, q1}
MCCommand == {c1, c2}
MCTool == {bash, edit}
MCTurn == {}
MCKindOf == [r \in MCRequest |-> IF r = q1 THEN "question" ELSE "approval"]
MCTitleTools == [r \in MCRequest |-> {bash}]
MCReceivedAt == [r \in MCRequest |-> IF r = a2 THEN 1 ELSE 0]
MCDeadlineAt == [r \in MCRequest |-> 2]
MCCorrelationOf == [r \in MCRequest |-> k1]
MCCorrelation == {k1}

StoreSymmetry == Permutations(MCCommand)
=============================================================================
