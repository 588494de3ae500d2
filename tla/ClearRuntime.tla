---------------------------- MODULE ClearRuntime -----------------------------
(***************************************************************************)
(* The runtime of ApprovalRuntime while the user may clear all data:       *)
(* clear_data of server/src/server.rs has the writer thread replace the    *)
(* database by a fresh one.  What the process holds in memory stays:       *)
(* blocked hooks and their waiters, handlers between two steps, decisions  *)
(* whose undo window is running.  All of them go on to use ids of rows     *)
(* that are no more.                                                       *)
(***************************************************************************)
EXTENDS ApprovalRuntime

\* reset_database, one message of the writer thread.  Clearing what is empty
\* is left out: it changes nothing.
ClearData ==
  /\ up
  /\ storeVars # <<[r \in Request |-> NoAttention], [c \in Command |-> NoCommand]>>
  /\ attention' = [r \in Request |-> NoAttention]
  /\ commands' = [c \in Command |-> NoCommand]
  /\ UNCHANGED <<now, regVars, up, crashes, threadVars>>

ClearNext == RuntimeNext \/ ClearData

\* The user owes no clearing, and the threads' duties stay as they are.
ClearFairSpec == RuntimeInit /\ [][ClearNext]_vars /\ Fairness
=============================================================================
