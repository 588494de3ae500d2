---------------------------- MODULE HookDelivery ----------------------------
(***************************************************************************)
(* How a notification (a hook event that wants no reply) reaches the       *)
(* store: run_hook of app/src/main.rs sends it over the bridge socket and, *)
(* when that fails, appends it to the spool directory, which serve drains  *)
(* when a runtime starts, before it binds the socket.                      *)
(*                                                                         *)
(* The hook processes are many and short, one per notification; they share *)
(* the directory with each other and with the runtime and take no lock.    *)
(* Each file system call is a step.  Runtimes are started at any time, two *)
(* at once too, and die at any step.                                       *)
(*                                                                         *)
(* The sizes of the files are told apart only by Heavy, the sets of        *)
(* entries that exceed the byte limit.  Files that are no notification are *)
(* left out: append never writes one.                                      *)
(***************************************************************************)
EXTENDS Naturals, FiniteSets, FiniteSetsExt

CONSTANTS
  Note,      \* notifications, each the time its hook received it
  Runtime,   \* runtime processes, numbered
  None,
  Poison,    \* notifications that parse_hook refuses: no session_id
  Old,       \* notifications older than the retention of events
  MaxFiles,  \* max_files of the spool
  Heavy,     \* sets of notifications whose files exceed max_bytes together
  MaxFailures  \* bound: how often a write to the socket or the store fails

ASSUME DeliveryAssumption ==
  /\ Note \subseteq Nat /\ Runtime \subseteq Nat
  /\ None \notin Note \cup Runtime
  /\ Poison \subseteq Note /\ Old \subseteq Note
  /\ MaxFiles \in Nat \ {0} /\ MaxFailures \in Nat

\* A file more never makes the spool lighter, and no file weighs nothing.
ASSUME HeavyAssumption ==
  /\ Heavy \subseteq SUBSET Note /\ {} \notin Heavy
  /\ \A S \in Heavy : \A T \in SUBSET Note : S \subseteq T => T \in Heavy

VARIABLES
  spool,   \* notifications with a file in the spool directory
  hook,    \* [Note -> its hook process: step and the entries it listed]
  socket,  \* the runtime that listens at the socket path, or None
  lock,    \* the runtime that holds runtime.lock, or None
  rt,      \* [Runtime -> step, entries still to drain, the one in hand]
  inbox,   \* [Runtime -> notifications written to its socket, not yet ingested]
  stored,  \* notifications with a row in the events table
  effects, \* history: [Note -> how often its ingestion took effect]
  missed,  \* history: [Note -> what others pruned of the list its hook prunes by]
  failures \* how often a write has failed

vars == <<spool, hook, socket, lock, rt, inbox, stored, effects, missed, failures>>

HookStep == {"send", "append", "list", "measure", "prune", "done"}
RuntimeStep == {"down", "list", "drain", "ingest", "remove", "bind", "serving"}

Down == [step |-> "down", list |-> {}, file |-> None]

DeliveryTypeOK ==
  /\ spool \subseteq Note
  /\ hook \in [Note -> [step : HookStep, list : SUBSET Note]]
  /\ socket \in Runtime \cup {None}
  /\ lock \in Runtime \cup {None}
  /\ rt \in [Runtime -> [step : RuntimeStep, list : SUBSET Note, file : Note \cup {None}]]
  /\ \A r \in Runtime : rt[r].step \in {"ingest", "remove"} <=> rt[r].file # None
  /\ inbox \in [Runtime -> SUBSET Note]
  /\ stored \subseteq Note \ Poison
  /\ effects \in [Note -> Nat]
  /\ missed \in [Note -> SUBSET Note]
  /\ failures \in 0 .. MaxFailures

Init ==
  /\ spool = {}
  /\ hook = [n \in Note |-> [step |-> "send", list |-> {}]]
  /\ socket = None /\ lock = None
  /\ rt = [r \in Runtime |-> Down]
  /\ inbox = [r \in Runtime |-> {}]
  /\ stored = {}
  /\ effects = [n \in Note |-> 0]
  /\ missed = [n \in Note |-> {}]
  /\ failures = 0

Fails == failures < MaxFailures /\ failures' = failures + 1

-----------------------------------------------------------------------------
(* The hook process of a notification *)

Listening == socket # None

HookGoes(n, step, list) == hook' = [hook EXCEPT ![n] = [step |-> step, list |-> list]]
HookDone(n) == HookGoes(n, "done", {})

\* The runtime reads the whole notification, at the latest at the end of the
\* connection.
Written(n) == inbox' = [inbox EXCEPT ![socket] = @ \cup {n}]

\* BridgeClient::send: a notification is written and not waited for.  It goes
\* to the spool when nobody listens and when the write fails or times out,
\* which it may after the listener has got all of it.
Send(n) ==
  /\ hook[n].step = "send"
  /\ \/ Listening /\ Written(n) /\ UNCHANGED failures /\ HookDone(n)
     \/ Listening /\ Fails /\ (Written(n) \/ UNCHANGED inbox) /\ HookGoes(n, "append", {})
     \/ ~Listening /\ UNCHANGED <<inbox, failures>> /\ HookGoes(n, "append", {})
  /\ UNCHANGED <<spool, socket, lock, rt, stored, effects, missed>>

\* append: a temporary file, synced and renamed, so the file is there whole.
Append(n) ==
  /\ hook[n].step = "append"
  /\ spool' = spool \cup {n}
  /\ HookGoes(n, "list", {})
  /\ UNCHANGED <<socket, lock, rt, inbox, stored, effects, missed, failures>>

\* prune: list the entries ...
ListEntries(n) ==
  /\ hook[n].step = "list"
  /\ HookGoes(n, "measure", spool)
  /\ UNCHANGED <<spool, socket, lock, rt, inbox, stored, effects, missed, failures>>

\* Too many files or too many bytes.
TooMuch(list) == Cardinality(list) > MaxFiles \/ list \in Heavy

\* ... add their sizes up, which ends prune if one has gone ...
Measure(n) ==
  /\ hook[n].step = "measure"
  /\ IF hook[n].list \subseteq spool /\ TooMuch(hook[n].list)
     THEN HookGoes(n, "prune", hook[n].list)
     ELSE HookDone(n)
  /\ UNCHANGED <<spool, socket, lock, rt, inbox, stored, effects, missed, failures>>

\* What a hook that prunes still lists and has not seen go.
NoteMissed ==
  missed' = [n \in Note |-> IF hook'[n].step = "prune"
                            THEN (missed[n] \cup (spool \ spool')) \cap hook'[n].list
                            ELSE {}]

\* Defect: prune removes the newest entry.
PruneNewest(n) ==
  LET newest == Max(hook[n].list)
      left == hook[n].list \ {newest}
  IN /\ hook[n].step = "prune"
     /\ spool' = spool \ {newest}
     /\ IF newest \in spool /\ TooMuch(left)
        THEN HookGoes(n, "prune", left) ELSE HookDone(n)
     /\ NoteMissed
     /\ UNCHANGED <<socket, lock, rt, inbox, stored, effects, failures>>

\* ... and remove the oldest while there are too many: an entry that has gone
\* is an error that ends prune.
PruneOldest(n) ==
  LET oldest == Min(hook[n].list)
      left == hook[n].list \ {oldest}
  IN /\ hook[n].step = "prune"
     /\ spool' = spool \ {oldest}
     /\ IF oldest \in spool /\ TooMuch(left)
        THEN HookGoes(n, "prune", left) ELSE HookDone(n)
     /\ NoteMissed
     /\ UNCHANGED <<socket, lock, rt, inbox, stored, effects, failures>>

\* The provider kills a hook that takes too long.
HookDies(n) ==
  /\ hook[n].step # "done"
  /\ HookDone(n) /\ missed' = [missed EXCEPT ![n] = {}]
  /\ UNCHANGED <<spool, socket, lock, rt, inbox, stored, effects, failures>>

HookStepOf(n) ==
  Send(n) \/ Append(n) \/ ListEntries(n) \/ Measure(n) \/ PruneOldest(n)

-----------------------------------------------------------------------------
(* The runtime *)

\* Defect: the lock excludes nobody.
AcquireAny(r) == lock' = r

\* RuntimeInstanceGuard::acquire: flock without waiting; a second runtime
\* gets AlreadyRunning and exits.
AcquireInstance(r) == lock = None /\ lock' = r

\* The start of serve up to the drain: the lock, then prune_events.  The
\* processes are alike, so the first that is not running is the one started.
Start(r) ==
  /\ rt[r].step = "down"
  /\ \A q \in Runtime : q < r => rt[q].step # "down"
  /\ AcquireInstance(r)
  /\ stored' = stored \ Old
  /\ rt' = [rt EXCEPT ![r].step = "list"]
  /\ UNCHANGED <<spool, hook, socket, inbox, effects, missed, failures>>

\* drain lists the entries once.
ListSpool(r) ==
  /\ rt[r].step = "list"
  /\ rt' = [rt EXCEPT ![r] = [step |-> "drain", list |-> spool, file |-> None]]
  /\ UNCHANGED <<spool, hook, socket, lock, inbox, stored, effects, missed, failures>>

Gives(r) == rt' = [rt EXCEPT ![r] = [step |-> "bind", list |-> {}, file |-> None]]

\* Read the oldest entry: one that a hook has pruned is an error that ends
\* drain, and serve goes on.
ReadEntry(r) ==
  /\ rt[r].step = "drain"
  /\ IF rt[r].list # {} /\ Min(rt[r].list) \in spool
     THEN rt' = [rt EXCEPT ![r].step = "ingest", ![r].file = Min(rt[r].list)]
     ELSE Gives(r)
  /\ UNCHANGED <<spool, hook, socket, lock, inbox, stored, effects, missed, failures>>

\* Defect: an event is applied again although its row is there.
IngestAgain(n) ==
  /\ stored' = stored \cup {n}
  /\ effects' = [effects EXCEPT ![n] = @ + 1]

\* ingest of a valid notification: nothing happens if its id has a row.
Ingest(n) ==
  /\ stored' = stored \cup {n}
  /\ effects' = [effects EXCEPT ![n] = IF n \in stored THEN @ ELSE @ + 1]

\* Defect: the file goes before its event is ingested.
DrainRemoving(r) ==
  LET n == rt[r].file IN
  /\ rt[r].step = "ingest"
  /\ spool' = spool \ {n}
  /\ rt' = [rt EXCEPT ![r].step = "remove"]
  /\ UNCHANGED <<hook, socket, lock, inbox, stored, effects, missed, failures>>

Taken(n) == n \notin Poison /\ Ingest(n) /\ UNCHANGED failures

\* The store refuses the notification, or its transaction fails: the database
\* is busy, the disk full.
Refused(n) ==
  /\ IF n \in Poison THEN UNCHANGED failures ELSE Fails
  /\ UNCHANGED <<stored, effects>>

\* A notification the store does not take ends drain and keeps its file.
DrainIngest(r) ==
  LET n == rt[r].file IN
  /\ rt[r].step = "ingest"
  /\ \/ Taken(n) /\ rt' = [rt EXCEPT ![r].step = "remove"]
     \/ Refused(n) /\ Gives(r)
  /\ UNCHANGED <<spool, hook, socket, lock, inbox, missed>>

\* Defect: drain stops after the first entry.
DrainOne(r) ==
  /\ rt[r].step = "remove"
  /\ UNCHANGED spool
  /\ Gives(r)
  /\ UNCHANGED <<hook, socket, lock, inbox, stored, effects, missed, failures>>

DrainRemove(r) ==
  LET n == rt[r].file IN
  /\ rt[r].step = "remove"
  /\ spool' = spool \ {n}
  /\ IF n \in spool
     THEN rt' = [rt EXCEPT ![r] = [step |-> "drain", list |-> @.list \ {n}, file |-> None]]
     ELSE Gives(r)
  /\ UNCHANGED <<hook, socket, lock, inbox, stored, effects, missed, failures>>

\* BridgeListener::bind takes the path over, whoever left it.
Bind(r) ==
  /\ rt[r].step = "bind"
  /\ socket' = r
  /\ rt' = [rt EXCEPT ![r].step = "serving"]
  /\ UNCHANGED <<spool, hook, lock, inbox, stored, effects, missed, failures>>

\* A connection's thread reads a notification and ingests it, in any order;
\* one that the store does not take is dropped.
Receive(r, n) ==
  /\ rt[r].step = "serving" /\ n \in inbox[r]
  /\ inbox' = [inbox EXCEPT ![r] = @ \ {n}]
  /\ Taken(n) \/ Refused(n)
  /\ UNCHANGED <<spool, hook, socket, lock, rt, missed>>

\* serve never returns: a runtime ends by being killed, at any step.  Nobody
\* listens at the socket file it leaves, what was written to it is gone.
Die(r) ==
  /\ rt[r].step # "down"
  /\ rt' = [rt EXCEPT ![r] = Down]
  /\ inbox' = [inbox EXCEPT ![r] = {}]
  /\ lock' = IF lock = r THEN None ELSE lock
  /\ socket' = IF socket = r THEN None ELSE socket
  /\ UNCHANGED <<spool, hook, stored, effects, missed, failures>>

StartStep(r) ==
  \/ ListSpool(r) \/ ReadEntry(r) \/ DrainIngest(r) \/ DrainRemove(r) \/ Bind(r)

Next ==
  \/ \E n \in Note : HookStepOf(n) \/ HookDies(n)
  \/ \E r \in Runtime : Start(r) \/ StartStep(r) \/ Die(r)
  \/ \E r \in Runtime, n \in Note : Receive(r, n)

DeliverySpec == Init /\ [][Next]_vars

\* Processes that are not killed go on.  A hook takes finitely many steps, and
\* one runtime at a time is up, so it is enough that some hook and some runtime
\* goes on.
DeliveryFairSpec ==
  /\ DeliverySpec
  /\ WF_vars(\E n \in Note : HookStepOf(n))
  /\ WF_vars(\E r \in Runtime : StartStep(r))

-----------------------------------------------------------------------------
(* Properties *)

\* Where a notification that has not been applied may still come from.
InFlight(n) ==
  \/ hook[n].step \in {"send", "append"}
  \/ n \in spool
  \/ \E r \in Runtime : n \in inbox[r] \/ (rt[r].file = n /\ rt[r].step = "ingest")

Fate == [n \in Note |-> IF effects[n] > 0 THEN "applied"
                        ELSE IF InFlight(n) THEN "pending" ELSE "lost"]

Ledger == INSTANCE EventLedger WITH fate <- Fate

\* The delivery implements the ledger: at most one effect per notification
\* through every crash between an ingestion and the removal of its file, and
\* nothing comes back that was lost (spool.rs:113).
ImplementsLedger == Ledger!Spec

\* The runtime never takes an entry out of the spool whose event has no row:
\* a crash at any step costs no spooled notification (spool.rs:120).
RuntimeRemovesOnlyStored ==
  [][\A r \in Runtime : rt'[r] # rt[r] => spool \ spool' \subseteq stored']_vars

\* "Runtime is single-instance" (docs/V1_ACCEPTANCE.md:58): a runtime that
\* serves is the one the socket leads to, so no hook talks to a runtime that
\* another has displaced.
ServingOwnsSocket ==
  \A r \in Runtime : rt[r].step = "serving" => socket = r

\* The newest that are spooled or stored, back to an entry that hook n removes.
\* What other hooks have pruned of its list since it measured counts too: two
\* that prune by different lists may both make room for the same notification.
DownTo(n, gone) == {m \in spool \cup stored \cup missed[n] : m >= gone}

\* Pruning costs only the oldest, and none that is among the newest "500 files
\* and 5 MB" (docs/M1_VERIFICATION.md:28), however old the list is that a hook
\* prunes by and whatever others pruned or drained meanwhile.
PrunedForNewer ==
  [][\A n \in Note : hook'[n] # hook[n] =>
       \A gone \in spool \ spool' : TooMuch(DownTo(n, gone))]_vars

\* Where MaxFiles files never exceed the byte limit, what others have pruned
\* does not count: an entry goes for MaxFiles newer ones spooled or stored.
SmallFiles == \A S \in Heavy : IsFiniteSet(S) => Cardinality(S) > MaxFiles

PrunedForKept ==
  [][\A n \in Note : hook'[n] # hook[n] =>
       \A gone \in spool \ spool' :
         Cardinality({m \in spool' \cup stored : m > gone}) >= MaxFiles]_vars

StartsAgain ==
  []<>(\E r \in Runtime : rt[r].step = "list") /\ []<>Listening

\* "replayed" (docs/V1_ACCEPTANCE.md:58): when runtimes come and go and reach
\* the end of their start again and again, the spool is empty in the end,
\* whatever hooks append and prune beside the drain.
SpooledIsReplayed == StartsAgain => <>[](spool = {})

\* The same of every notification that the store would take.
ValidIsReplayed ==
  StartsAgain => \A n \in Note \ Poison : n \in spool ~> n \notin spool

\* "limited to 500 files and 5 MB" (docs/M1_VERIFICATION.md:28), once no hook
\* is at it.
SpoolBounded ==
  (\A n \in Note : hook[n].step = "done") => ~TooMuch(spool)
=============================================================================
