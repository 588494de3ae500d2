------------------------- MODULE HookDeliveryProofs -------------------------
(***************************************************************************)
(* Proofs about HookDelivery, for any number of notifications, runtimes    *)
(* and spooled files.  DeliveryInv says which runtime may be anywhere in   *)
(* its start, LedgerInv adds the count of effects, and PruneInv what a     *)
(* hook's stale list still implies about the spool of now.  The last two,  *)
(* and KeptInv, need that no event outlives its row: that Old is empty.    *)
(***************************************************************************)
EXTENDS HookDelivery, FiniteSetTheorems, WellFoundedInduction, TLAPS

\* Only the runtime that holds the lock is anywhere past its start.
OneUp == \A r \in Runtime : rt[r].step # "down" => lock = r

\* The socket leads to a runtime that serves, and every such is led to.
Listener ==
  /\ socket # None => rt[socket].step = "serving"
  /\ \A r \in Runtime : rt[r].step = "serving" => socket = r

\* An entry that a runtime is about to remove has been ingested.
RemovesIngested ==
  \A r \in Runtime : rt[r].step = "remove" => rt[r].file \in stored

DeliveryInv == DeliveryTypeOK /\ OneUp /\ Listener /\ RemovesIngested

LEMMA DeliveryInit == Init => DeliveryInv
BY DeliveryAssumption
   DEF Init, DeliveryInv, DeliveryTypeOK, OneUp, Listener, RemovesIngested, Down,
       HookStep, RuntimeStep

\* The steps of a hook leave the runtimes alone.
LEMMA HookKeepsInv ==
  ASSUME DeliveryInv, NEW n \in Note, HookStepOf(n) \/ HookDies(n)
  PROVE  DeliveryInv'
<1>1. CASE Send(n)
  <2>1. PICK step \in {"append", "done"} : HookGoes(n, step, {})
    BY <1>1 DEF Send, HookDone
  <2>2. /\ UNCHANGED <<spool, socket, lock, rt, stored, effects, missed>>
        /\ UNCHANGED inbox \/ (Listening /\ Written(n))
        /\ UNCHANGED failures \/ Fails
    BY <1>1 DEF Send
  <2>3. inbox' \in [Runtime -> SUBSET Note]
    BY <2>2 DEF Written, Listening, DeliveryInv, DeliveryTypeOK
  <2>4. failures' \in 0 .. MaxFailures
    BY <2>2, DeliveryAssumption DEF Fails, DeliveryInv, DeliveryTypeOK
  <2>5. hook' \in [Note -> [step : HookStep, list : SUBSET Note]]
    BY <2>1 DEF HookGoes, HookStep, DeliveryInv, DeliveryTypeOK
  <2>. QED
    BY <2>2, <2>3, <2>4, <2>5
       DEF DeliveryInv, DeliveryTypeOK, OneUp, Listener, RemovesIngested
<1>2. CASE Append(n)
  BY <1>2, DeliveryAssumption
     DEF DeliveryInv, DeliveryTypeOK, OneUp, Listener, RemovesIngested, Append,
         HookGoes, HookStep, RuntimeStep
<1>3. CASE ListEntries(n)
  BY <1>3, DeliveryAssumption
     DEF DeliveryInv, DeliveryTypeOK, OneUp, Listener, RemovesIngested, ListEntries,
         HookGoes, HookStep, RuntimeStep
<1>4. CASE Measure(n)
  BY <1>4, DeliveryAssumption
     DEF DeliveryInv, DeliveryTypeOK, OneUp, Listener, RemovesIngested, Measure, HookDone,
         HookGoes, HookStep, RuntimeStep
<1>5. CASE PruneOldest(n)
  <2>1. PICK left \in SUBSET Note, step \in HookStep : HookGoes(n, step, left)
    <3>1. hook[n].list \ {Min(hook[n].list)} \in SUBSET Note
      BY DEF DeliveryInv, DeliveryTypeOK
    <3>. QED  BY <1>5, <3>1 DEF PruneOldest, HookDone, HookStep
  <2>2. /\ spool' \subseteq spool
        /\ UNCHANGED <<socket, lock, rt, inbox, stored, effects, failures>>
    BY <1>5 DEF PruneOldest
  <2>3. hook' \in [Note -> [step : HookStep, list : SUBSET Note]]
    BY <2>1 DEF HookGoes, DeliveryInv, DeliveryTypeOK
  <2>4. missed' \in [Note -> SUBSET Note]
    BY <1>5, <2>3 DEF PruneOldest, NoteMissed
  <2>. QED
    BY <2>2, <2>3, <2>4
       DEF DeliveryInv, DeliveryTypeOK, OneUp, Listener, RemovesIngested
<1>6. CASE HookDies(n)
  BY <1>6, DeliveryAssumption
     DEF DeliveryInv, DeliveryTypeOK, OneUp, Listener, RemovesIngested, HookDies,
         HookDone, HookGoes, HookStep, RuntimeStep
<1>. QED  BY <1>1, <1>2, <1>3, <1>4, <1>5, <1>6 DEF HookStepOf

LEMMA TakesInHand ==
  ASSUME NEW was \in [step : RuntimeStep, list : SUBSET Note, file : Note \cup {None}],
         NEW file, NEW after, after = [was EXCEPT !.step = "ingest", !.file = file]
  PROVE  after = [step |-> "ingest", list |-> was.list, file |-> file]
OBVIOUS

\* What the store does to the variables it changes.
LEMMA StoreKeepsTypes ==
  ASSUME DeliveryTypeOK, NEW n \in Note, Taken(n) \/ Refused(n)
  PROVE  /\ stored \subseteq stored' /\ stored' \subseteq Note \ Poison
         /\ effects' \in [Note -> Nat] /\ failures' \in 0 .. MaxFailures
<1>1. CASE Taken(n)
  <2>1. effects[n] + 1 \in Nat
    BY DEF DeliveryTypeOK
  <2>. QED  BY <1>1, <2>1 DEF DeliveryTypeOK, Taken, Ingest
<1>2. CASE Refused(n)
  <2>1. failures' \in 0 .. MaxFailures
    BY <1>2, DeliveryAssumption DEF DeliveryTypeOK, Refused, Fails
  <2>. QED  BY <1>2, <2>1 DEF DeliveryTypeOK, Refused
<1>. QED  BY <1>1, <1>2

\* A step of one runtime: what it may change about the others.
LEMMA RuntimeKeepsInv ==
  ASSUME DeliveryInv, NEW r \in Runtime, Start(r) \/ StartStep(r) \/ Die(r)
  PROVE  DeliveryInv'
<1>. USE DeliveryAssumption DEF DeliveryInv, DeliveryTypeOK, OneUp, Listener,
           RemovesIngested, RuntimeStep, Down
<1>1. CASE Start(r)
  BY <1>1 DEF Start, AcquireInstance
<1>2. CASE ListSpool(r)
  <2>1. /\ rt' = [rt EXCEPT ![r] = [step |-> "drain", list |-> spool, file |-> None]]
        /\ rt[r].step = "list"
        /\ UNCHANGED <<spool, hook, socket, lock, inbox, stored, effects, missed, failures>>
    BY <1>2 DEF ListSpool
  <2>2. DeliveryTypeOK'
    BY <2>1
  <2>3. OneUp' /\ Listener' /\ RemovesIngested'
    BY <2>1
  <2>. QED  BY <2>2, <2>3
<1>3. CASE ReadEntry(r)
  <2>0. /\ rt[r].step = "drain"
        /\ UNCHANGED <<spool, hook, socket, lock, inbox, stored, effects, missed, failures>>
    BY <1>3 DEF ReadEntry
  <2>1. CASE rt[r].list # {} /\ Min(rt[r].list) \in spool
    <3>1. PICK m \in Note :
            rt' = [rt EXCEPT ![r] = [step |-> "ingest", list |-> rt[r].list, file |-> m]]
      <4>1. rt' = [rt EXCEPT ![r].step = "ingest", ![r].file = Min(rt[r].list)]
        BY <1>3, <2>1 DEF ReadEntry
      <4>2. rt[r] \in [step : RuntimeStep, list : SUBSET Note, file : Note \cup {None}]
        OBVIOUS
      <4>3. [rt[r] EXCEPT !.step = "ingest", !.file = Min(rt[r].list)]
              = [step |-> "ingest", list |-> rt[r].list, file |-> Min(rt[r].list)]
        BY <4>2, TakesInHand
      <4>4. Min(rt[r].list) \in Note
        BY <2>1
      <4>. QED  BY <4>1, <4>3, <4>4, Zenon
    <3>2. DeliveryTypeOK'
      BY <2>0, <3>1
    <3>3. OneUp' /\ Listener' /\ RemovesIngested'
      BY <2>0, <3>1
    <3>. QED  BY <3>2, <3>3
  <2>2. CASE ~(rt[r].list # {} /\ Min(rt[r].list) \in spool)
    <3>1. rt' = [rt EXCEPT ![r] = [step |-> "bind", list |-> {}, file |-> None]]
      BY <1>3, <2>2 DEF ReadEntry, Gives
    <3>2. DeliveryTypeOK'
      BY <2>0, <3>1
    <3>3. OneUp' /\ Listener' /\ RemovesIngested'
      BY <2>0, <3>1
    <3>. QED  BY <3>2, <3>3
  <2>. QED  BY <2>1, <2>2
<1>4. CASE DrainIngest(r)
  <2>1. /\ rt[r].file \in Note /\ rt[r].step # "down" /\ rt[r].step # "serving"
        /\ Taken(rt[r].file) \/ Refused(rt[r].file)
        /\ UNCHANGED <<spool, hook, socket, lock, inbox, missed>>
    BY <1>4 DEF DrainIngest
  <2>2. /\ stored \subseteq stored' /\ stored' \subseteq Note \ Poison
        /\ effects' \in [Note -> Nat] /\ failures' \in 0 .. MaxFailures
    BY <2>1, StoreKeepsTypes
  <2>3. CASE Refused(rt[r].file) /\ Gives(r)
    <3>1. rt' = [rt EXCEPT ![r] = [step |-> "bind", list |-> {}, file |-> None]]
      BY <2>3 DEF Gives
    <3>2. DeliveryTypeOK'
      BY <2>1, <2>2, <3>1
    <3>3. OneUp' /\ Listener' /\ RemovesIngested'
      BY <2>1, <2>2, <3>1
    <3>. QED  BY <3>2, <3>3
  <2>4. CASE Taken(rt[r].file) /\ rt' = [rt EXCEPT ![r].step = "remove"]
    <3>1. DeliveryTypeOK'
      <4>1. rt' \in [Runtime -> [step : RuntimeStep, list : SUBSET Note,
                                 file : Note \cup {None}]]
        BY <2>4
      <4>2. \A q \in Runtime :
              rt'[q].step \in {"ingest", "remove"} <=> rt'[q].file # None
        BY <2>1, <2>4
      <4>. QED  BY <2>1, <2>2, <4>1, <4>2
    <3>2. OneUp' /\ Listener'
      BY <2>1, <2>4
    <3>3. RemovesIngested'
      BY <2>1, <2>4 DEF Taken, Ingest
    <3>. QED  BY <3>1, <3>2, <3>3
  <2>. QED  BY <1>4, <2>3, <2>4 DEF DrainIngest
<1>5. CASE DrainRemove(r)
  <2>1. /\ spool' \subseteq spool
        /\ UNCHANGED <<hook, socket, lock, inbox, stored, effects, missed, failures>>
    BY <1>5 DEF DrainRemove
  <2>2. PICK next \in [step : {"drain", "bind"}, list : SUBSET Note, file : {None}] :
          rt' = [rt EXCEPT ![r] = next]
    <3>1. rt[r].list \ {rt[r].file} \in SUBSET Note
      OBVIOUS
    <3>. QED  BY <1>5, <3>1 DEF DrainRemove, Gives
  <2>3. rt[r].step # "down" /\ rt[r].step # "serving"
    BY <1>5 DEF DrainRemove
  <2>4. DeliveryTypeOK'
    BY <2>1, <2>2
  <2>5. OneUp' /\ Listener' /\ RemovesIngested'
    BY <2>1, <2>2, <2>3
  <2>. QED  BY <2>4, <2>5
<1>6. CASE Bind(r)
  BY <1>6 DEF Bind
<1>7. CASE Die(r)
  BY <1>7 DEF Die
<1>. QED  BY <1>1, <1>2, <1>3, <1>4, <1>5, <1>6, <1>7 DEF StartStep

LEMMA ReceiveKeepsInv ==
  ASSUME DeliveryInv, NEW r \in Runtime, NEW n \in Note, Receive(r, n)
  PROVE  DeliveryInv'
<1>1. inbox' \in [Runtime -> SUBSET Note]
  BY DEF DeliveryInv, DeliveryTypeOK, Receive
<1>2. /\ stored \subseteq stored' /\ stored' \subseteq Note \ Poison
      /\ effects' \in [Note -> Nat] /\ failures' \in 0 .. MaxFailures
  BY StoreKeepsTypes DEF DeliveryInv, Receive
<1>3. UNCHANGED <<spool, hook, socket, lock, rt, missed>>
  BY DEF Receive
<1>. QED
  BY <1>1, <1>2, <1>3
     DEF DeliveryInv, DeliveryTypeOK, OneUp, Listener, RemovesIngested

LEMMA DeliveryNext == DeliveryInv /\ [Next]_vars => DeliveryInv'
<1>. SUFFICES ASSUME DeliveryInv, [Next]_vars PROVE DeliveryInv'
  OBVIOUS
<1>1. CASE UNCHANGED vars
  BY <1>1 DEF vars, DeliveryInv, DeliveryTypeOK, OneUp, Listener, RemovesIngested
<1>. QED  BY <1>1, HookKeepsInv, RuntimeKeepsInv, ReceiveKeepsInv DEF Next

LEMMA DeliveryInvHolds == DeliverySpec => []DeliveryInv
BY DeliveryInit, DeliveryNext, PTL DEF DeliverySpec

\* Every variable keeps its type: what is drained was spooled, what is stored
\* is a notification the store takes.
THEOREM DeliveryTypeCorrect == DeliverySpec => []DeliveryTypeOK
BY DeliveryInvHolds, PTL DEF DeliveryInv

\* The lock makes a runtime that serves the one the socket leads to, whatever
\* started beside it and died when.
THEOREM ServersOwnTheSocket == DeliverySpec => []ServingOwnsSocket
<1>1. DeliveryInv => ServingOwnsSocket
  BY DEF DeliveryInv, Listener, ServingOwnsSocket
<1>. QED  BY <1>1, DeliveryInvHolds, PTL

LEMMA RemovalStep ==
  ASSUME DeliveryInv, [Next]_vars
  PROVE  \A r \in Runtime : rt'[r] # rt[r] => spool \ spool' \subseteq stored'
<1>1. ASSUME NEW n \in Note, HookStepOf(n) \/ HookDies(n) PROVE rt' = rt
  BY <1>1 DEF HookStepOf, HookDies, Send, Append, ListEntries, Measure, PruneOldest
<1>2. ASSUME NEW r \in Runtime, Start(r) \/ StartStep(r) \/ Die(r)
      PROVE  spool \ spool' \subseteq stored'
  <2>1. CASE DrainRemove(r)
    BY <2>1 DEF DrainRemove, DeliveryInv, RemovesIngested
  <2>. QED  BY <1>2, <2>1 DEF StartStep, Start, Die, ListSpool, ReadEntry, DrainIngest, Bind
<1>3. ASSUME NEW r \in Runtime, NEW n \in Note, Receive(r, n) PROVE rt' = rt
  BY <1>3 DEF Receive
<1>. QED  BY <1>1, <1>2, <1>3 DEF Next, vars

\* No entry leaves the spool through a runtime before its event has a row.
THEOREM SpoolLosesOnlyStored == DeliverySpec => RuntimeRemovesOnlyStored
<1>1. DeliveryInv /\ [Next]_vars =>
        [\A r \in Runtime : rt'[r] # rt[r] => spool \ spool' \subseteq stored']_vars
  BY RemovalStep
<1>. QED  BY <1>1, DeliveryInvHolds, PTL DEF DeliverySpec, RuntimeRemovesOnlyStored

-----------------------------------------------------------------------------
(* The ledger: a row is what keeps an event from taking effect again *)

Counted == \A n \in Note : effects[n] = IF n \in stored THEN 1 ELSE 0

LedgerInv == DeliveryInv /\ Counted

LEMMA LedgerInvNext ==
  ASSUME Old = {}, LedgerInv, [Next]_vars
  PROVE  LedgerInv'
<1>1. DeliveryInv'
  BY DeliveryNext DEF LedgerInv
<1>2. ASSUME NEW n \in Note, Ingest(n) PROVE Counted'
  BY <1>2 DEF LedgerInv, Counted, DeliveryInv, DeliveryTypeOK, Ingest
<1>3. ASSUME UNCHANGED <<stored, effects>> PROVE Counted'
  BY <1>3 DEF LedgerInv, Counted
<1>4. UNCHANGED <<stored, effects>> \/ \E n \in Note : Ingest(n)
  <2>1. ASSUME NEW n \in Note, HookStepOf(n) \/ HookDies(n)
        PROVE  UNCHANGED <<stored, effects>>
    BY <2>1 DEF HookStepOf, HookDies, Send, Append, ListEntries, Measure, PruneOldest
  <2>2. ASSUME NEW r \in Runtime, Start(r) \/ StartStep(r) \/ Die(r)
        PROVE  UNCHANGED <<stored, effects>> \/ \E n \in Note : Ingest(n)
    <3>1. CASE DrainIngest(r)
      <4>1. rt[r].file \in Note
        BY <3>1 DEF DrainIngest, LedgerInv, DeliveryInv, DeliveryTypeOK
      <4>. QED  BY <3>1, <4>1 DEF DrainIngest, Taken, Refused
    <3>2. CASE Start(r)
      BY <3>2 DEF Start
    <3>. QED
      BY <2>2, <3>1, <3>2 DEF StartStep, Die, ListSpool, ReadEntry, DrainRemove, Bind
  <2>3. ASSUME NEW r \in Runtime, NEW n \in Note, Receive(r, n)
        PROVE  UNCHANGED <<stored, effects>> \/ Ingest(n)
    BY <2>3 DEF Receive, Taken, Refused
  <2>. QED  BY <2>1, <2>2, <2>3 DEF Next, vars
<1>. QED  BY <1>1, <1>2, <1>3, <1>4 DEF LedgerInv

\* A step that applies nothing and puts nothing in flight that had gone: what
\* it drops is lost, which the ledger allows.
LEMMA LosingStep ==
  ASSUME LedgerInv, effects' = effects,
         \A n \in Note : effects[n] = 0 /\ InFlight(n)' => InFlight(n)
  PROVE  Ledger!Next
<1>. DEFINE N == {n \in Note : Fate[n] = "pending" /\ Fate'[n] = "lost"}
<1>1. \A n \in Note : effects[n] \in Nat
  BY DEF LedgerInv, DeliveryInv, DeliveryTypeOK
<1>2. Fate' = [n \in Note |-> IF n \in N THEN "lost" ELSE Fate[n]]
  BY <1>1 DEF Fate
<1>3. \A n \in N : Fate[n] = "pending"
  OBVIOUS
<1>4. N \in SUBSET Note
  OBVIOUS
<1>5. Ledger!Lose(N)
  BY <1>2, <1>3 DEF Ledger!Lose
<1>. QED  BY <1>4, <1>5 DEF Ledger!Next

\* An ingestion of an event in flight that leaves every other where it was.
LEMMA ApplyingStep ==
  ASSUME LedgerInv, NEW n \in Note, Ingest(n), InFlight(n),
         \A m \in Note \ {n} : InFlight(m)' <=> InFlight(m)
  PROVE  Ledger!Next
<1>1. CASE n \in stored
  <2>1. effects' = effects
    BY <1>1 DEF Ingest, LedgerInv, DeliveryInv, DeliveryTypeOK
  <2>. QED  BY <2>1, LosingStep
<1>2. CASE n \notin stored
  <2>1. effects[n] = 0 /\ effects' = [effects EXCEPT ![n] = 1]
    <3>1. effects[n] = 0 /\ 0 + 1 = 1
      BY <1>2 DEF LedgerInv, Counted
    <3>. QED  BY <1>2, <3>1 DEF Ingest
  <2>2. Fate[n] = "pending"
    BY <2>1 DEF Fate
  <2>3. Fate' = [Fate EXCEPT ![n] = "applied"]
    <3>1. \A m \in Note \ {n} : effects'[m] = effects[m] /\ Fate'[m] = Fate[m]
      BY <2>1 DEF Fate, LedgerInv, DeliveryInv, DeliveryTypeOK
    <3>2. effects'[n] > 0
      BY <2>1 DEF LedgerInv, DeliveryInv, DeliveryTypeOK
    <3>3. Fate'[n] = "applied"
      BY <3>2 DEF Fate
    <3>. QED  BY <3>1, <3>3 DEF Fate
  <2>. QED  BY <2>1, <2>2, <2>3 DEF Ledger!Next, Ledger!Apply
<1>. QED  BY <1>1, <1>2

LEMMA HookStepIsLedgerStep ==
  ASSUME LedgerInv, NEW n \in Note, HookStepOf(n) \/ HookDies(n)
  PROVE  Ledger!Next
<1>. USE DEF InFlight, LedgerInv, DeliveryInv, DeliveryTypeOK, HookStep
<1>1. effects' = effects
  BY DEF HookStepOf, HookDies, Send, Append, ListEntries, Measure, PruneOldest
<1>. SUFFICES ASSUME NEW m \in Note, InFlight(m)' PROVE InFlight(m)
  BY <1>1, LosingStep
<1>2. CASE Send(n)
  <2>1. /\ hook[n].step = "send" /\ UNCHANGED <<spool, rt>>
        /\ UNCHANGED inbox \/ (Listening /\ Written(n))
    BY <1>2 DEF Send
  <2>2. \A r \in Runtime : inbox'[r] \subseteq inbox[r] \cup {n}
    BY <2>1 DEF Written
  <2>3. \A k \in Note \ {n} : hook'[k] = hook[k]
    BY <1>2 DEF Send, HookDone, HookGoes
  <2>. QED  BY <2>1, <2>2, <2>3
<1>3. CASE Append(n)
  BY <1>3 DEF Append, HookGoes
<1>4. CASE ListEntries(n)
  BY <1>4 DEF ListEntries, HookGoes
<1>5. CASE Measure(n)
  BY <1>5 DEF Measure, HookDone, HookGoes
<1>6. CASE PruneOldest(n)
  <2>1. PICK left \in SUBSET Note, step \in {"prune", "done"} : HookGoes(n, step, left)
    <3>1. hook[n].list \ {Min(hook[n].list)} \in SUBSET Note
      OBVIOUS
    <3>. QED  BY <1>6, <3>1 DEF PruneOldest, HookDone
  <2>2. spool' \subseteq spool /\ UNCHANGED <<rt, inbox>>
    BY <1>6 DEF PruneOldest
  <2>. QED  BY <2>1, <2>2 DEF HookGoes
<1>7. CASE HookDies(n)
  BY <1>7 DEF HookDies, HookDone, HookGoes
<1>. QED  BY <1>2, <1>3, <1>4, <1>5, <1>6, <1>7 DEF HookStepOf

LEMMA RuntimeStepIsLedgerStep ==
  ASSUME LedgerInv, NEW r \in Runtime, Start(r) \/ StartStep(r) \/ Die(r)
  PROVE  Ledger!Next
<1>. USE DEF InFlight, LedgerInv, DeliveryInv, DeliveryTypeOK, RuntimeStep
<1>1. ASSUME effects' = effects, \A m \in Note : InFlight(m)' => InFlight(m)
      PROVE  Ledger!Next
  BY <1>1, LosingStep
<1>2. CASE Start(r)
  <2>1. effects' = effects /\ UNCHANGED <<hook, spool, inbox>>
    BY <1>2 DEF Start
  <2>2. rt' = [rt EXCEPT ![r].step = "list"]
    BY <1>2 DEF Start
  <2>. QED  BY <1>1, <2>1, <2>2
<1>3. CASE ListSpool(r)
  BY <1>1, <1>3 DEF ListSpool
<1>4. CASE ReadEntry(r)
  <2>1. effects' = effects /\ UNCHANGED <<hook, spool, inbox>>
    BY <1>4 DEF ReadEntry
  <2>2. CASE rt[r].list # {} /\ Min(rt[r].list) \in spool
    <3>1. rt' = [rt EXCEPT ![r].step = "ingest", ![r].file = Min(rt[r].list)]
      BY <1>4, <2>2 DEF ReadEntry
    <3>2. \A q \in Runtime \ {r} : rt'[q] = rt[q]
      BY <3>1
    <3>3. rt'[r].file = Min(rt[r].list)
      BY <3>1
    <3>. QED  BY <1>1, <2>1, <2>2, <3>2, <3>3
  <2>3. CASE ~(rt[r].list # {} /\ Min(rt[r].list) \in spool)
    <3>1. Gives(r)
      BY <1>4, <2>3 DEF ReadEntry
    <3>. QED  BY <1>1, <2>1, <3>1 DEF Gives
  <2>. QED  BY <2>2, <2>3
<1>5. CASE DrainIngest(r)
  <2>1. rt[r].step = "ingest" /\ rt[r].file \in Note /\ UNCHANGED <<hook, spool, inbox>>
    BY <1>5 DEF DrainIngest
  <2>2. CASE Refused(rt[r].file) /\ Gives(r)
    <3>1. effects' = effects
      BY <2>2 DEF Refused
    <3>. QED  BY <1>1, <2>1, <2>2, <3>1 DEF Gives
  <2>3. CASE Taken(rt[r].file) /\ rt' = [rt EXCEPT ![r].step = "remove"]
    <3>1. Ingest(rt[r].file)
      BY <2>3 DEF Taken
    <3>2. \A q \in Runtime \ {r} : rt'[q] = rt[q]
      BY <2>3
    <3>3. InFlight(rt[r].file)
      BY <2>1
    <3>4. rt'[r].step # "ingest"
      BY <2>3
    <3>5. \A m \in Note \ {rt[r].file} : InFlight(m)' <=> InFlight(m)
      BY <2>1, <3>2, <3>4
    <3>. QED  BY <2>1, <3>1, <3>3, <3>5, ApplyingStep
  <2>. QED  BY <1>5, <2>2, <2>3 DEF DrainIngest
<1>6. CASE DrainRemove(r)
  <2>1. effects' = effects /\ spool' \subseteq spool /\ UNCHANGED <<hook, inbox>>
    BY <1>6 DEF DrainRemove
  <2>2. PICK next \in [step : {"drain", "bind"}, list : SUBSET Note, file : {None}] :
          rt' = [rt EXCEPT ![r] = next]
    <3>1. rt[r].list \ {rt[r].file} \in SUBSET Note
      OBVIOUS
    <3>. QED  BY <1>6, <3>1 DEF DrainRemove, Gives
  <2>. QED  BY <1>1, <2>1, <2>2
<1>7. CASE Bind(r)
  BY <1>1, <1>7 DEF Bind
<1>8. CASE Die(r)
  BY <1>1, <1>8 DEF Die, Down
<1>. QED  BY <1>2, <1>3, <1>4, <1>5, <1>6, <1>7, <1>8 DEF StartStep

LEMMA ReceiveIsLedgerStep ==
  ASSUME LedgerInv, NEW r \in Runtime, NEW n \in Note, Receive(r, n)
  PROVE  Ledger!Next
<1>. USE DEF InFlight, LedgerInv, DeliveryInv, DeliveryTypeOK
<1>1. InFlight(n)
  BY DEF Receive
<1>2. \A m \in Note \ {n} : InFlight(m)' <=> InFlight(m)
  BY DEF Receive
<1>3. CASE Refused(n)
  <2>1. \A m \in Note : InFlight(m)' => InFlight(m)
    BY <1>1, <1>2
  <2>2. effects' = effects
    BY <1>3 DEF Refused
  <2>. QED  BY <2>1, <2>2, LosingStep
<1>4. CASE Taken(n)
  BY <1>1, <1>2, <1>4, ApplyingStep DEF Taken
<1>. QED  BY <1>3, <1>4 DEF Receive

\* A notification takes effect at most once, and what was lost stays lost,
\* through hooks that die, a spool that prunes and runtimes that crash between
\* an ingestion and the removal of its file.
THEOREM DeliveryImplementsLedger ==
  ASSUME Old = {}
  PROVE  DeliverySpec => ImplementsLedger
<1>1. Init => Ledger!Init
  BY DEF Init, Ledger!Init, Fate, InFlight
<1>2. Init => LedgerInv
  BY DeliveryInit DEF Init, LedgerInv, Counted
<1>3. LedgerInv /\ [Next]_vars => LedgerInv'
  BY LedgerInvNext
<1>4. LedgerInv /\ [Next]_vars => [Ledger!Next]_(Ledger!ledger)
  <2>1. ASSUME UNCHANGED vars PROVE UNCHANGED Ledger!ledger
    BY <2>1 DEF vars, Ledger!ledger, Fate, InFlight
  <2>. QED
    BY <2>1, HookStepIsLedgerStep, RuntimeStepIsLedgerStep, ReceiveIsLedgerStep DEF Next
<1>. QED
  BY <1>1, <1>2, <1>3, <1>4, PTL DEF DeliverySpec, ImplementsLedger, Ledger!Spec

-----------------------------------------------------------------------------
(* Pruning: a stale list is still right about what it may remove *)

\* All of its list that a hook still prunes by is spooled or stored, or was
\* until another hook pruned it.
Known(n) == spool \cup stored \cup missed[n]

PruneInv ==
  /\ DeliveryInv
  /\ IsFiniteSet(spool) /\ IsFiniteSet(stored)
  /\ \A n \in Note : IsFiniteSet(hook[n].list) /\ IsFiniteSet(missed[n])
  /\ \A n \in Note : hook[n].step = "prune" =>
       TooMuch(hook[n].list) /\ hook[n].list \subseteq Known(n)

LEMMA TooMuchGrows ==
  ASSUME NEW S \in SUBSET Note, NEW T \in SUBSET Note, S \subseteq T, IsFiniteSet(T)
  PROVE  TooMuch(S) => TooMuch(T)
<1>1. IsFiniteSet(S) /\ Cardinality(S) <= Cardinality(T)
  BY FS_Subset
<1>2. Cardinality(S) \in Nat /\ Cardinality(T) \in Nat
  BY <1>1, FS_CardinalityType
<1>. QED  BY <1>1, <1>2, DeliveryAssumption, HeavyAssumption DEF TooMuch


\* The least of a set of naturals, by the well-foundedness of the subsets
\* 0 .. m of its members.
LEMMA MinOfNaturals ==
  ASSUME NEW S \in SUBSET Nat, S # {}
  PROVE  \E m \in S : m = Min(S) /\ \A x \in S : m <= x
<1>. DEFINE Below == {0 .. m : m \in S}
<1>1. \A m \in S : 0 .. m \in FiniteSubsetsOf(Nat)
  BY FS_Interval DEF FiniteSubsetsOf
<1>2. PICK T \in Below : \A U \in Below : ~ (<<U, T>> \in StrictSubsetOrdering(Nat))
  <2>1. Below \subseteq FiniteSubsetsOf(Nat) /\ Below # {}
    BY <1>1
  <2>. QED  BY <2>1, WFMin, FS_StrictSubsetOrderingWellFounded
<1>3. PICK m \in S : T = 0 .. m
  OBVIOUS
<1>4. ASSUME NEW x \in S PROVE m <= x
  <2>1. ~ (<<0 .. x, 0 .. m>> \in StrictSubsetOrdering(Nat))
    BY <1>2, <1>3
  <2>2. ~ (0 .. x \subseteq 0 .. m /\ 0 .. x # 0 .. m)
    BY <2>1 DEF StrictSubsetOrdering
  <2>3. x \in Nat /\ m \in Nat
    OBVIOUS
  <2>4. CASE x < m
    <3>1. 0 .. x \subseteq 0 .. m /\ m \in 0 .. m /\ m \notin 0 .. x
      BY <2>3, <2>4
    <3>. QED  BY <2>2, <3>1
  <2>. QED  BY <2>3, <2>4
<1>5. Min(S) \in S /\ \A x \in S : Min(S) <= x
  BY <1>4 DEF Min
<1>. QED  BY <1>5

\* What a hook removes is the least of its list.
LEMMA PrunesLeast ==
  ASSUME PruneInv, NEW n \in Note, hook[n].step = "prune"
  PROVE  \E oldest \in hook[n].list :
           oldest = Min(hook[n].list) /\ \A x \in hook[n].list : oldest <= x
<1>1. hook[n].list \in SUBSET Nat
  BY DeliveryAssumption DEF PruneInv, DeliveryInv, DeliveryTypeOK
<1>2. hook[n].list # {}
  <2>1. ~ TooMuch({})
    BY FS_EmptySet, DeliveryAssumption, HeavyAssumption DEF TooMuch
  <2>. QED  BY <2>1 DEF PruneInv
<1>. QED  BY <1>1, <1>2, MinOfNaturals

\* A step that takes nothing out of spool and store together, and brings no
\* hook to a list it did not prune by but what is spooled.
Growing ==
  /\ IsFiniteSet(spool') /\ IsFiniteSet(stored')
  /\ spool \cup stored \subseteq spool' \cup stored'
  /\ \A n \in Note : IsFiniteSet(hook'[n].list) /\ IsFiniteSet(missed'[n])
  /\ \A n \in Note : hook'[n].step = "prune" =>
       /\ TooMuch(hook'[n].list)
       /\ \/ hook[n].step = "prune" /\ hook'[n] = hook[n] /\ missed'[n] = missed[n]
          \/ hook'[n].list \subseteq spool

\* What pruning by hook n does: the oldest goes, and no list grows.
Prunes(n, oldest) ==
  /\ hook[n].step = "prune" /\ oldest \in hook[n].list
  /\ oldest = Min(hook[n].list) /\ \A x \in hook[n].list : oldest <= x
  /\ spool' = spool \ {oldest} /\ stored' = stored
  /\ IsFiniteSet(spool') /\ IsFiniteSet(stored')
  /\ \A k \in Note : /\ hook'[k].list \subseteq hook[k].list
                     /\ IsFiniteSet(hook'[k].list) /\ IsFiniteSet(missed'[k])
                     /\ hook'[k].step = "prune" =>
                          /\ hook[k].step = "prune" /\ TooMuch(hook'[k].list)
                          /\ missed'[k] = (missed[k] \cup (spool \ spool'))
                                            \cap hook'[k].list

LEMMA PruningStep ==
  ASSUME PruneInv, NEW n \in Note, PruneOldest(n)
  PROVE  \E oldest \in Note : Prunes(n, oldest)
<1>0. PICK oldest \in hook[n].list :
         oldest = Min(hook[n].list) /\ \A x \in hook[n].list : oldest <= x
  BY PrunesLeast DEF PruneOldest
<1>. DEFINE left == hook[n].list \ {oldest}
<1>1. /\ hook[n].step = "prune" /\ spool' = spool \ {oldest} /\ stored' = stored
      /\ NoteMissed
      /\ \/ HookGoes(n, "prune", left) /\ TooMuch(left)
         \/ HookGoes(n, "done", {})
  BY <1>0 DEF PruneOldest, HookDone
<1>2. IsFiniteSet(spool') /\ IsFiniteSet(stored')
  BY <1>1, FS_RemoveElement DEF PruneInv
<1>3. IsFiniteSet(left) /\ left \subseteq hook[n].list
  BY FS_RemoveElement DEF PruneInv
<1>4. ASSUME NEW k \in Note
      PROVE  /\ hook'[k].list \subseteq hook[k].list /\ IsFiniteSet(hook'[k].list)
             /\ hook'[k].step = "prune" => hook[k].step = "prune"
             /\ hook'[k].step = "prune" => TooMuch(hook'[k].list)
  <2>1. CASE k # n
    <3>1. hook'[k] = hook[k]
      BY <1>1, <2>1 DEF HookGoes, PruneInv, DeliveryInv, DeliveryTypeOK
    <3>. QED  BY <3>1 DEF PruneInv
  <2>2. CASE k = n
    <3>1. CASE HookGoes(n, "prune", left) /\ TooMuch(left)
      <4>1. hook'[n] = [step |-> "prune", list |-> left]
        BY <3>1 DEF HookGoes, PruneInv, DeliveryInv, DeliveryTypeOK
      <4>. QED  BY <1>1, <1>3, <2>2, <3>1, <4>1
    <3>2. CASE HookGoes(n, "done", {})
      <4>1. hook'[n] = [step |-> "done", list |-> {}]
        BY <3>2 DEF HookGoes, PruneInv, DeliveryInv, DeliveryTypeOK
      <4>. QED  BY <2>2, <4>1, FS_EmptySet
    <3>. QED  BY <1>1, <3>1, <3>2
  <2>. QED  BY <2>1, <2>2
<1>5. ASSUME NEW k \in Note
      PROVE  /\ IsFiniteSet(missed'[k])
             /\ hook'[k].step = "prune" =>
                  missed'[k] = (missed[k] \cup (spool \ spool')) \cap hook'[k].list
  <2>1. missed'[k] = IF hook'[k].step = "prune"
                     THEN (missed[k] \cup (spool \ spool')) \cap hook'[k].list ELSE {}
    BY <1>1 DEF NoteMissed
  <2>2. missed'[k] \subseteq hook'[k].list
    BY <2>1
  <2>. QED  BY <1>4, <2>1, <2>2, FS_Subset
<1>6. oldest \in Note
  BY DEF PruneInv, DeliveryInv, DeliveryTypeOK
<1>. QED  BY <1>0, <1>1, <1>2, <1>4, <1>5, <1>6 DEF Prunes

\* Every step prunes or is a growing one.
LEMMA StepPrunesOrGrows ==
  ASSUME Old = {}, PruneInv, [Next]_vars
  PROVE  Growing \/ \E n \in Note : PruneOldest(n)
<1>1. ASSUME NEW n \in Note, HookStepOf(n) \/ HookDies(n), ~PruneOldest(n)
      PROVE  Growing
  <2>1. stored' = stored /\ (spool' = spool \/ spool' = spool \cup {n})
    BY <1>1 DEF HookStepOf, HookDies, Send, Append, ListEntries, Measure
  <2>2. IsFiniteSet(spool') /\ IsFiniteSet(stored')
    BY <2>1, FS_AddElement DEF PruneInv
  <2>3. PICK step, list : /\ HookGoes(n, step, list) /\ IsFiniteSet(list)
                          /\ step = "prune" => TooMuch(list) /\ list \subseteq spool
    <3>. IsFiniteSet({}) /\ IsFiniteSet(spool) /\ IsFiniteSet(hook[n].list)
      BY FS_EmptySet DEF PruneInv
    <3>1. CASE Measure(n)
      BY <3>1 DEF Measure, HookDone
    <3>2. CASE ListEntries(n)
      BY <3>2 DEF ListEntries
    <3>3. CASE Send(n)
      BY <3>3 DEF Send, HookDone
    <3>4. CASE Append(n)
      BY <3>4 DEF Append
    <3>5. CASE HookDies(n)
      BY <3>5 DEF HookDies, HookDone
    <3>. QED  BY <1>1, <3>1, <3>2, <3>3, <3>4, <3>5 DEF HookStepOf
  <2>4. \A k \in Note : k # n => hook'[k] = hook[k]
    BY <2>3 DEF HookGoes, PruneInv, DeliveryInv, DeliveryTypeOK
  <2>5. hook'[n].step = step /\ hook'[n].list = list
    BY <2>3 DEF HookGoes, PruneInv, DeliveryInv, DeliveryTypeOK
  <2>6. missed' = missed \/ missed' = [missed EXCEPT ![n] = {}]
    BY <1>1 DEF HookStepOf, HookDies, Send, Append, ListEntries, Measure
  <2>7. \A k \in Note : /\ IsFiniteSet(missed'[k])
                        /\ k # n => missed'[k] = missed[k]
    BY <2>6, FS_EmptySet DEF PruneInv, DeliveryInv, DeliveryTypeOK
  <2>8. \A k \in Note : IsFiniteSet(hook'[k].list)
    BY <2>3, <2>4, <2>5 DEF PruneInv
  <2>9. ASSUME NEW k \in Note, hook'[k].step = "prune"
        PROVE  /\ TooMuch(hook'[k].list)
               /\ \/ hook[k].step = "prune" /\ hook'[k] = hook[k] /\ missed'[k] = missed[k]
                  \/ hook'[k].list \subseteq spool
    <3>1. CASE k = n
      BY <2>3, <2>5, <2>9, <3>1
    <3>2. CASE k # n
      BY <2>4, <2>7, <2>9, <3>2 DEF PruneInv
    <3>. QED  BY <3>1, <3>2
  <2>. QED  BY <2>1, <2>2, <2>7, <2>8, <2>9 DEF Growing
<1>2. ASSUME hook' = hook, missed' = missed, spool \cup stored \subseteq spool' \cup stored',
             IsFiniteSet(spool'), IsFiniteSet(stored')
      PROVE  Growing
  BY <1>2 DEF Growing, PruneInv
<1>3. ASSUME NEW r \in Runtime, Start(r) \/ StartStep(r) \/ Die(r)
      PROVE  Growing
  <2>1. hook' = hook /\ missed' = missed
    BY <1>3 DEF Start, StartStep, Die, ListSpool, ReadEntry, DrainIngest, DrainRemove, Bind
  <2>2. CASE DrainRemove(r)
    BY <1>2, <2>1, <2>2, FS_RemoveElement
       DEF DrainRemove, PruneInv, DeliveryInv, RemovesIngested
  <2>3. CASE DrainIngest(r)
    <3>1. spool' = spool /\ (stored' = stored \/ stored' = stored \cup {rt[r].file})
      BY <2>3 DEF DrainIngest, Taken, Refused, Ingest
    <3>. QED  BY <1>2, <2>1, <3>1, FS_AddElement DEF PruneInv
  <2>4. CASE spool' = spool /\ stored' = stored
    BY <1>2, <2>1, <2>4 DEF PruneInv
  <2>. QED
    BY <1>3, <2>2, <2>3, <2>4 DEF StartStep, Start, Die, ListSpool, ReadEntry, Bind
<1>4. ASSUME NEW r \in Runtime, NEW n \in Note, Receive(r, n)
      PROVE  Growing
  <2>1. /\ hook' = hook /\ missed' = missed /\ spool' = spool
        /\ stored' = stored \/ stored' = stored \cup {n}
    BY <1>4 DEF Receive, Taken, Refused, Ingest
  <2>. QED  BY <1>2, <2>1, FS_AddElement DEF PruneInv
<1>5. CASE UNCHANGED vars
  BY <1>2, <1>5 DEF vars, PruneInv
<1>. QED  BY <1>1, <1>3, <1>4, <1>5 DEF Next

LEMMA PruneInvNext ==
  ASSUME Old = {}, PruneInv, [Next]_vars
  PROVE  PruneInv'
<1>1. DeliveryInv'
  BY DeliveryNext DEF PruneInv
<1>2. CASE Growing
  <2>1. ASSUME NEW n \in Note, hook'[n].step = "prune" PROVE hook'[n].list \subseteq Known(n)'
    BY <1>2, <2>1 DEF Growing, PruneInv, Known
  <2>. QED  BY <1>1, <1>2, <2>1 DEF Growing, PruneInv
<1>3. ASSUME NEW n \in Note, NEW oldest \in Note, Prunes(n, oldest) PROVE PruneInv'
  <2>1. ASSUME NEW k \in Note, hook'[k].step = "prune"
        PROVE  hook'[k].list \subseteq Known(k)'
    <3>1. /\ hook[k].step = "prune" /\ hook'[k].list \subseteq hook[k].list
          /\ missed'[k] = (missed[k] \cup (spool \ spool')) \cap hook'[k].list
          /\ stored' = stored
      BY <1>3, <2>1 DEF Prunes
    <3>2. hook[k].list \subseteq spool \cup stored \cup missed[k]
      BY <3>1 DEF PruneInv, Known
    <3>3. hook'[k].list \subseteq spool' \cup stored' \cup missed'[k]
      BY <3>1, <3>2
    <3>. QED  BY <3>3 DEF Known
  <2>2. /\ IsFiniteSet(spool') /\ IsFiniteSet(stored')
        /\ \A k \in Note : /\ IsFiniteSet(hook'[k].list) /\ IsFiniteSet(missed'[k])
                           /\ hook'[k].step = "prune" => TooMuch(hook'[k].list)
    BY <1>3 DEF Prunes
  <2>. QED  BY <1>1, <2>1, <2>2 DEF PruneInv
<1>. QED  BY <1>2, <1>3, StepPrunesOrGrows, PruningStep

\* Only a prune takes an entry out in a step of a hook.
LEMMA HookRemovesByPruning ==
  ASSUME [Next]_vars, NEW n \in Note, hook'[n] # hook[n], NEW gone \in spool \ spool',
         hook \in [Note -> [step : HookStep, list : SUBSET Note]]
  PROVE  PruneOldest(n)
<1>1. ASSUME NEW k \in Note, HookStepOf(k) \/ HookDies(k) PROVE PruneOldest(n)
  <2>1. PruneOldest(k)
    BY <1>1 DEF HookStepOf, HookDies, Send, Append, ListEntries, Measure
  <2>2. \E step, list : HookGoes(k, step, list)
    BY <2>1 DEF PruneOldest, HookDone
  <2>3. k = n
    BY <2>2 DEF HookGoes
  <2>. QED  BY <2>1, <2>3
<1>2. ASSUME NEW r \in Runtime, Start(r) \/ StartStep(r) \/ Die(r)
      PROVE  hook' = hook
  BY <1>2 DEF Start, StartStep, Die, ListSpool, ReadEntry, DrainIngest, DrainRemove, Bind
<1>3. ASSUME NEW r \in Runtime, NEW k \in Note, Receive(r, k)
      PROVE  hook' = hook
  BY <1>3 DEF Receive
<1>. QED  BY <1>1, <1>2, <1>3 DEF Next, vars

LEMMA PruneInvInit == Init => PruneInv
<1>. SUFFICES ASSUME Init PROVE PruneInv
  OBVIOUS
<1>1. \A n \in Note : hook[n].step = "send" /\ hook[n].list = {} /\ missed[n] = {}
  BY DEF Init
<1>. QED  BY <1>1, DeliveryInit, FS_EmptySet DEF Init, PruneInv

LEMMA PrunedStep ==
  ASSUME PruneInv, [Next]_vars, NEW n \in Note, hook'[n] # hook[n],
         NEW gone \in spool \ spool'
  PROVE  TooMuch(DownTo(n, gone))
<1>1. PruneOldest(n)
  BY HookRemovesByPruning DEF PruneInv, DeliveryInv, DeliveryTypeOK
<1>2. PICK oldest \in Note : Prunes(n, oldest)
  BY <1>1, PruningStep
<1>3. gone = oldest
  BY <1>2 DEF Prunes
<1>4. hook[n].list \subseteq DownTo(n, gone)
  BY <1>2, <1>3, DeliveryAssumption
     DEF Prunes, PruneInv, DeliveryInv, DeliveryTypeOK, Known, DownTo
<1>5. hook[n].list \in SUBSET Note /\ DownTo(n, gone) \in SUBSET Note
  BY DEF PruneInv, DeliveryInv, DeliveryTypeOK, DownTo
<1>6. IsFiniteSet(DownTo(n, gone))
  <2>1. IsFiniteSet(spool \cup stored)
    BY FS_Union DEF PruneInv
  <2>2. IsFiniteSet(spool \cup stored \cup missed[n])
    BY <2>1, FS_Union DEF PruneInv
  <2>. QED  BY <2>2, FS_Subset DEF DownTo
<1>. QED  BY <1>2, <1>4, <1>5, <1>6, TooMuchGrows DEF Prunes, PruneInv

\* However old the list a hook prunes by, the entry it removes is not among the
\* newest that the limits on files and on bytes leave room for.
THEOREM PruningCostsTheOldest ==
  ASSUME Old = {}
  PROVE  DeliverySpec => PrunedForNewer
<1>1. PruneInv /\ [Next]_vars => PruneInv'
  BY PruneInvNext
<1>2. PruneInv /\ [Next]_vars =>
        [\A n \in Note : hook'[n] # hook[n] =>
           \A gone \in spool \ spool' : TooMuch(DownTo(n, gone))]_vars
  BY PrunedStep
<1>. QED  BY <1>1, <1>2, PruneInvInit, PTL DEF DeliverySpec, PrunedForNewer

-----------------------------------------------------------------------------
(* Where the file limit is the one that bites, what was pruned by others    *)
(* need not be counted.                                                     *)

Newer(S, x) == {m \in S : m > x}

\* What a hook's list promises of an entry x it may still remove: if x is not
\* among the MaxFiles newest of the list, it is not among the MaxFiles newest
\* of what is spooled or stored now.
ListHolds(n) ==
  \A x \in Note : Cardinality(Newer(hook[n].list, x)) >= MaxFiles =>
                  Cardinality(Newer(spool \cup stored, x)) >= MaxFiles

KeptInv == PruneInv /\ \A n \in Note : hook[n].step = "prune" => ListHolds(n)

LEMMA NewerGrows ==
  ASSUME NEW S, NEW T, S \subseteq T, IsFiniteSet(T), NEW x
  PROVE  Cardinality(Newer(S, x)) >= MaxFiles => Cardinality(Newer(T, x)) >= MaxFiles
<1>1. IsFiniteSet(Newer(T, x)) /\ Cardinality(Newer(T, x)) \in Nat
  BY FS_Subset, FS_CardinalityType DEF Newer
<1>2. IsFiniteSet(Newer(S, x)) /\ Cardinality(Newer(S, x)) \in Nat
  BY FS_Subset, FS_CardinalityType DEF Newer
<1>3. Newer(S, x) \in SUBSET Newer(T, x)
  BY DEF Newer
<1>4. Cardinality(Newer(S, x)) <= Cardinality(Newer(T, x))
  BY <1>1, <1>3, FS_Subset
<1>. QED  BY <1>1, <1>2, <1>4, DeliveryAssumption

\* A hook that prunes has MaxFiles newer ones for the entry it removes.
LEMMA PrunedHasNewer ==
  ASSUME SmallFiles, KeptInv, NEW n \in Note, NEW oldest \in Note, Prunes(n, oldest)
  PROVE  Cardinality(Newer(spool \cup stored, oldest)) >= MaxFiles
<1>1. PICK list \in SUBSET Note : list = hook[n].list /\ IsFiniteSet(list)
  BY DEF KeptInv, PruneInv, DeliveryInv, DeliveryTypeOK
<1>2. Cardinality(list) \in Nat /\ Cardinality(list) > MaxFiles
  <2>1. TooMuch(list)
    BY <1>1 DEF KeptInv, PruneInv, Prunes
  <2>. QED  BY <1>1, <2>1, FS_CardinalityType DEF TooMuch, SmallFiles
<1>3. Newer(list, oldest) = list \ {oldest}
  <2>1. ASSUME NEW m \in list PROVE m > oldest <=> m # oldest
    <3>1. m \in Nat /\ oldest \in Nat /\ oldest <= m
      BY <1>1, DeliveryAssumption DEF Prunes
    <3>. QED  BY <3>1
  <2>. QED  BY <2>1 DEF Newer
<1>4. Cardinality(list \ {oldest}) = Cardinality(list) - 1
  <2>1. oldest \in list
    BY <1>1 DEF Prunes
  <2>. QED  BY <1>1, <2>1, FS_RemoveElement
<1>5. Cardinality(Newer(list, oldest)) >= MaxFiles
  BY <1>2, <1>3, <1>4, DeliveryAssumption
<1>6. ListHolds(n)
  BY DEF KeptInv, Prunes
<1>. QED  BY <1>1, <1>5, <1>6 DEF ListHolds

LEMMA GrowingKeepsLists ==
  ASSUME KeptInv, Growing, NEW n \in Note, hook'[n].step = "prune"
  PROVE  ListHolds(n)'
<1>1. IsFiniteSet(spool' \cup stored')
  BY FS_Union DEF Growing
<1>2. ASSUME NEW x \in Note, Cardinality(Newer(hook'[n].list, x)) >= MaxFiles
      PROVE  Cardinality(Newer(spool' \cup stored', x)) >= MaxFiles
  <2>1. CASE hook[n].step = "prune" /\ hook'[n] = hook[n]
    <3>1. Cardinality(Newer(spool \cup stored, x)) >= MaxFiles
      BY <1>2, <2>1 DEF KeptInv, ListHolds
    <3>2. spool \cup stored \subseteq spool' \cup stored'
      BY DEF Growing
    <3>. QED  BY <1>1, <3>1, <3>2, NewerGrows
  <2>2. CASE hook'[n].list \subseteq spool
    <3>1. hook'[n].list \subseteq spool' \cup stored'
      BY <2>2 DEF Growing
    <3>. QED  BY <1>1, <1>2, <3>1, NewerGrows
  <2>. QED  BY <2>1, <2>2 DEF Growing
<1>. QED  BY <1>2 DEF ListHolds

LEMMA PruningKeepsLists ==
  ASSUME SmallFiles, KeptInv, NEW n \in Note, NEW oldest \in Note, Prunes(n, oldest),
         NEW k \in Note, hook'[k].step = "prune"
  PROVE  ListHolds(k)'
<1>. DEFINE kept == spool' \cup stored'
<1>1. /\ spool' = spool \ {oldest} /\ stored' = stored
      /\ hook[k].step = "prune" /\ hook'[k].list \subseteq hook[k].list
  BY DEF Prunes
<1>2. IsFiniteSet(kept)
  BY FS_Union DEF Prunes
<1>3. spool \subseteq Nat /\ stored \subseteq Nat /\ oldest \in Nat
  BY DeliveryAssumption DEF KeptInv, PruneInv, DeliveryInv, DeliveryTypeOK
<1>4. Cardinality(Newer(kept, oldest)) >= MaxFiles
  <2>1. Newer(kept, oldest) = Newer(spool \cup stored, oldest)
    BY <1>1, <1>3 DEF Newer
  <2>. QED  BY <2>1, PrunedHasNewer
<1>5. ASSUME NEW x \in Note, Cardinality(Newer(hook'[k].list, x)) >= MaxFiles
      PROVE  Cardinality(Newer(kept, x)) >= MaxFiles
  <2>1. IsFiniteSet(hook[k].list)
    BY DEF KeptInv, PruneInv
  <2>2. Cardinality(Newer(hook[k].list, x)) >= MaxFiles
    BY <1>1, <1>5, <2>1, NewerGrows
  <2>3. Cardinality(Newer(spool \cup stored, x)) >= MaxFiles
    BY <1>1, <2>2 DEF KeptInv, ListHolds
  <2>4. CASE oldest > x
    <3>1. Newer(kept, oldest) \subseteq Newer(kept, x)
      <4>1. ASSUME NEW m \in kept, m > oldest PROVE m > x
        <5>1. m \in Nat /\ oldest \in Nat /\ x \in Nat
          BY <1>1, <1>3, DeliveryAssumption
        <5>. QED  BY <2>4, <4>1, <5>1
      <4>. QED  BY <4>1 DEF Newer
    <3>. DEFINE few == Newer(kept, oldest)  all == Newer(kept, x)
    <3>2. IsFiniteSet(all)
      BY <1>2, FS_Subset DEF Newer
    <3>3. /\ Cardinality(all) \in Nat /\ Cardinality(few) \in Nat
          /\ Cardinality(few) <= Cardinality(all)
      BY <3>1, <3>2, FS_Subset, FS_CardinalityType
    <3>. QED  BY <1>4, <3>3, DeliveryAssumption
  <2>5. CASE ~(oldest > x)
    <3>1. Newer(kept, x) = Newer(spool \cup stored, x)
      BY <1>1, <2>5 DEF Newer
    <3>. QED  BY <2>3, <3>1
  <2>. QED  BY <2>4, <2>5
<1>. QED  BY <1>5 DEF ListHolds

LEMMA KeptInvNext ==
  ASSUME Old = {}, SmallFiles, KeptInv, [Next]_vars
  PROVE  KeptInv'
<1>1. PruneInv'
  BY PruneInvNext DEF KeptInv
<1>2. Growing \/ \E n, oldest \in Note : Prunes(n, oldest)
  BY StepPrunesOrGrows, PruningStep DEF KeptInv
<1>3. \A n \in Note : hook'[n].step = "prune" => ListHolds(n)'
  BY <1>2, GrowingKeepsLists, PruningKeepsLists
<1>. QED  BY <1>1, <1>3 DEF KeptInv

LEMMA KeptStep ==
  ASSUME SmallFiles, KeptInv, [Next]_vars, NEW n \in Note, hook'[n] # hook[n],
         NEW gone \in spool \ spool'
  PROVE  Cardinality({m \in spool' \cup stored : m > gone}) >= MaxFiles
<1>1. PruneOldest(n)
  BY HookRemovesByPruning DEF KeptInv, PruneInv, DeliveryInv, DeliveryTypeOK
<1>2. PICK oldest \in Note : Prunes(n, oldest)
  BY <1>1, PruningStep DEF KeptInv
<1>3. gone = oldest /\ spool' = spool \ {gone} /\ gone \in Nat
  BY <1>2, DeliveryAssumption DEF Prunes
<1>4. {m \in spool' \cup stored : m > gone} = Newer(spool \cup stored, gone)
  BY <1>3 DEF Newer
<1>. QED  BY <1>2, <1>3, <1>4, PrunedHasNewer

\* If no MaxFiles files exceed the byte limit, the entry a hook removes has
\* MaxFiles newer ones that are spooled or stored, whatever others pruned.
THEOREM SmallFilesCostTheOldest ==
  ASSUME Old = {}, SmallFiles
  PROVE  DeliverySpec => PrunedForKept
<1>1. Init => KeptInv
  BY PruneInvInit DEF Init, KeptInv
<1>2. KeptInv /\ [Next]_vars => KeptInv'
  BY KeptInvNext
<1>3. KeptInv /\ [Next]_vars =>
        [\A n \in Note : hook'[n] # hook[n] =>
           \A gone \in spool \ spool' :
             Cardinality({m \in spool' \cup stored : m > gone}) >= MaxFiles]_vars
  BY KeptStep
<1>. QED  BY <1>1, <1>2, <1>3, PTL DEF DeliverySpec, PrunedForKept
=============================================================================
