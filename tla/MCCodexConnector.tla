-------------------------- MODULE MCCodexConnector --------------------------
(* Instance of CodexConnector for TLC. *)
EXTENDS CodexConnector, TLC

CONSTANTS thread1, thread2, panel1, question1

OneThread == {thread1}
TwoThreads == {thread1, thread2}
OnePanel == {panel1}
OneQuestion == {question1}
=============================================================================
