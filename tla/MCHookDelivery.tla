--------------------------- MODULE MCHookDelivery ---------------------------
(* Instance of HookDelivery for TLC: the notifications are 1, 2, 3 in the    *)
(* order in which their hooks received them.                                 *)
EXTENDS HookDelivery, TLC

ThreeNotes == {1, 2, 3}
TwoNotes == {1, 2}
OneRuntime == {1}
TwoRuntimes == {1, 2}
FirstNote == {1}
NoNotes == {}

\* The file of notification 2 exceeds the byte limit on its own.
SecondIsHeavy == {S \in SUBSET Note : 2 \in S}

\* Any two of the notifications do, but for the first two.
PairsAreHeavy == {S \in SUBSET Note : 3 \in S /\ Cardinality(S) > 1}
NoneHeavy == {}
=============================================================================
