---------------------------- MODULE EventLedger -----------------------------
(***************************************************************************)
(* What the delivery of notifications promises, whatever the hook          *)
(* processes, the spool and the runtime do: a notification is applied to   *)
(* the store at most once ("offline spool replay exactly once",            *)
(* docs/M1_VERIFICATION.md:51), and one that was given up never comes back.*)
(***************************************************************************)
EXTENDS Naturals

CONSTANT Note   \* notifications: hook events that want no reply

VARIABLES
  fate,    \* [Note -> "pending", "applied" or "lost"]
  effects  \* [Note -> how often it took effect]

ledger == <<fate, effects>>

Init ==
  /\ fate = [n \in Note |-> "pending"]
  /\ effects = [n \in Note |-> 0]

Apply(n) ==
  /\ fate[n] = "pending"
  /\ fate' = [fate EXCEPT ![n] = "applied"]
  /\ effects' = [effects EXCEPT ![n] = 1]

\* Several notifications go at once when the process that holds them dies.
Lose(N) ==
  /\ \A n \in N : fate[n] = "pending"
  /\ fate' = [n \in Note |-> IF n \in N THEN "lost" ELSE fate[n]]
  /\ UNCHANGED effects

Next ==
  \/ \E n \in Note : Apply(n)
  \/ \E N \in SUBSET Note : Lose(N)

Spec == Init /\ [][Next]_ledger
=============================================================================
