-------------------------- MODULE MCWaiterRegistry --------------------------
(* Instance of WaiterRegistry for TLC: request r1 is registered twice, r2   *)
(* is a duplicate of r1 (same correlation key), r3 is a question.           *)
EXTENDS WaiterRegistry

CONSTANTS r1, r2, r3, t1, t2, t3, t4, k1, k2

MCRequest == {r1, r2, r3}
MCCorrelation == {k1, k2}
MCTicket == {t1, t2, t3, t4}
MCRequestOf == [t \in MCTicket |->
  CASE t \in {t1, t2} -> r1 [] t = t3 -> r2 [] OTHER -> r3]
MCCorrelationOf == [r \in MCRequest |-> IF r = r3 THEN k2 ELSE k1]
MCReceivedAt == [r \in MCRequest |-> 0]
MCDeadlineAt == [r \in MCRequest |-> IF r = r2 THEN 2 ELSE 1]
MCInteractive == {r3}
=============================================================================
