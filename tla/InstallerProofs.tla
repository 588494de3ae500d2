--------------------------- MODULE InstallerProofs --------------------------
(***************************************************************************)
(* Proofs about Installer, for any number of processes, operations and     *)
(* edits.  The lock makes what an operation has read and written so far    *)
(* stay true until it returns; the inductive invariants say, for each      *)
(* position an operation may be at, what that is.  RunInv needs nothing    *)
(* of the user; DoneInv is about the user who edits between operations.    *)
(***************************************************************************)
EXTENDS Installer, FiniteSetTheorems, TLAPS

-----------------------------------------------------------------------------
(* The configuration *)

\* The user's handlers of an event are as many as they are groups to keep.
LEMMA KeptCount ==
  ASSUME NEW groups \in Seq(Group)
  PROVE  /\ Cardinality(Kept(groups)) \in Nat
         /\ Stripped(groups) \in Seq(Group)
         /\ Len(Stripped(groups)) = Cardinality(Kept(groups))
         /\ \A i \in 1..Cardinality(Kept(groups)) : Stripped(groups)[i] = "mine"
  <1>1. IsFiniteSet(1..Len(groups))
    BY FS_Interval
  <1>2. Kept(groups) \subseteq 1..Len(groups)
    BY DEF Kept
  <1>3. Cardinality(Kept(groups)) \in Nat
    BY <1>1, <1>2, FS_Subset, FS_CardinalityType
  <1> QED
    BY <1>3 DEF Stripped, Group

OwnIn(groups) == {i \in DOMAIN groups : IsOwned(groups[i])}

\* strip_owned_hooks leaves none of ours and all of the user's.
LEMMA StrippedGroups ==
  ASSUME NEW groups \in Seq(Group)
  PROVE  /\ OwnIn(Stripped(groups)) = {}
         /\ Cardinality(Kept(Stripped(groups))) = Cardinality(Kept(groups))
  <1> DEFINE n == Cardinality(Kept(groups))
             old == Stripped(groups)
  <1>1. n \in Nat /\ old \in Seq(Group) /\ Len(old) = n /\ \A i \in 1..n : old[i] = "mine"
    BY KeptCount
  <1>2. Cardinality(1..n) = n
    BY <1>1, FS_Interval
  <1> HIDE DEF n, old
  <1>3. OwnIn(old) = {} /\ Kept(old) = 1..n
    BY <1>1 DEF OwnIn, IsOwned, Kept
  <1> QED
    BY <1>2, <1>3 DEF n, old

\* A group of ours after those of the user's.
LEMMA AppendedGroup ==
  ASSUME NEW old \in Seq(Group), OwnIn(old) = {}
  PROVE  LET new == old \o <<"own">>
         IN /\ new \in Seq(Group)
            /\ \E i \in DOMAIN new : new[i] = "own" /\ OwnIn(new) = {i}
            /\ Kept(new) = Kept(old)
  <1> DEFINE n == Len(old)
             new == Append(old, "own")
  <1>1. old \o <<"own">> = new
    OBVIOUS
  <1>2. new \in Seq(Group)
    BY DEF Group
  <1>3. /\ DOMAIN old = 1..n /\ DOMAIN new = 1..(n + 1) /\ n \in Nat
        /\ new[n + 1] = "own"
        /\ \A i \in 1..n : new[i] = old[i]
    OBVIOUS
  <1> HIDE DEF n, new
  <1>4. Kept(new) = Kept(old)
    BY <1>3 DEF Kept
  <1>5. n + 1 \in DOMAIN new /\ OwnIn(new) = {n + 1}
    BY <1>3 DEF OwnIn, IsOwned
  <1> QED
    BY <1>1, <1>2, <1>3, <1>4, <1>5

LEMMA MergedRecord ==
  ASSUME NEW config \in Config, NEW groups, NEW new,
         new = [config EXCEPT !.form = "valid", !.groups = groups]
  PROVE  new = [form |-> "valid", groups |-> groups, line |-> config.line,
                saved |-> config.saved]
  BY DEF Config

LEMMA UnmergedRecord ==
  ASSUME NEW config \in Config, NEW groups, NEW new,
         new = [config EXCEPT !.groups = groups]
  PROVE  new = [form |-> config.form, groups |-> groups, line |-> config.line,
                saved |-> config.saved]
  BY DEF Config

LEMMA MergedConfig ==
  ASSUME NEW config \in Config, NEW p \in Provider, NEW enhanced \in BOOLEAN
  PROVE  LET new == Merged(config, p, enhanced)
         IN /\ new \in Config
            /\ new.form = "valid" /\ new.line = config.line /\ new.saved = config.saved
            /\ Exact(new, p, enhanced)
            /\ UserGroups(new) = UserGroups(config)
  <1> DEFINE groups ==
               [e \in HookEvent |->
                  Stripped(config.groups[e]) \o
                    (IF e \in Desired(p, enhanced) THEN <<"own">> ELSE <<>>)]
             new == Merged(config, p, enhanced)
  <1>1. new = [form |-> "valid", groups |-> groups, line |-> config.line,
               saved |-> config.saved]
    BY MergedRecord, Zenon DEF Merged
  <1>2. ASSUME NEW e \in HookEvent
        PROVE  /\ groups[e] \in Seq(Group)
               /\ Cardinality(Kept(groups[e])) = Cardinality(Kept(config.groups[e]))
               /\ e \notin Desired(p, enhanced) => OwnIn(groups[e]) = {}
               /\ e \in Desired(p, enhanced) =>
                    \E i \in DOMAIN groups[e] :
                      groups[e][i] = "own" /\ OwnIn(groups[e]) = {i}
    <2> DEFINE old == Stripped(config.groups[e])
    <2>1. config.groups[e] \in Seq(Group)
      BY DEF Config
    <2>2. /\ old \in Seq(Group) /\ OwnIn(old) = {}
          /\ Cardinality(Kept(old)) = Cardinality(Kept(config.groups[e]))
      BY <2>1, KeptCount, StrippedGroups
    <2>3. /\ e \in Desired(p, enhanced) => groups[e] = old \o <<"own">>
          /\ e \notin Desired(p, enhanced) => groups[e] = old \o <<>>
      OBVIOUS
    <2> HIDE DEF groups, old
    <2>4. old \o <<>> = old
      BY <2>2
    <2> QED
      BY <2>2, <2>3, <2>4, AppendedGroup
  <1>3. groups \in [HookEvent -> Seq(Group)]
    <2>1. groups = [e \in HookEvent |-> groups[e]]
      OBVIOUS
    <2> HIDE DEF groups
    <2> QED
      BY <1>2, <2>1
  <1> HIDE DEF groups
  <1>4. new.groups = groups
    BY <1>1
  <1>5. new \in Config
    BY <1>1, <1>3 DEF Config
  <1>6. Exact(new, p, enhanced)
    BY <1>2, <1>4 DEF Exact, OwnedAt, OwnIn
  <1>7. UserGroups(new) = UserGroups(config)
    BY <1>2, <1>4 DEF UserGroups
  <1> QED
    BY <1>1, <1>5, <1>6, <1>7

LEMMA UnmergedConfig ==
  ASSUME NEW config \in Config
  PROVE  LET new == Unmerged(config)
         IN /\ new \in Config
            /\ new.form = config.form /\ new.line = config.line /\ new.saved = config.saved
            /\ OwnedEvents(new) = {}
            /\ UserGroups(new) = UserGroups(config)
  <1> DEFINE groups == [e \in HookEvent |-> Stripped(config.groups[e])]
             new == Unmerged(config)
  <1>1. new = [form |-> config.form, groups |-> groups, line |-> config.line,
               saved |-> config.saved]
    BY UnmergedRecord, Zenon DEF Unmerged
  <1>2. ASSUME NEW e \in HookEvent
        PROVE  /\ groups[e] \in Seq(Group)
               /\ OwnIn(groups[e]) = {}
               /\ Cardinality(Kept(groups[e])) = Cardinality(Kept(config.groups[e]))
    <2>1. config.groups[e] \in Seq(Group)
      BY DEF Config
    <2> QED
      BY <2>1, KeptCount, StrippedGroups
  <1>3. groups \in [HookEvent -> Seq(Group)]
    BY <1>2
  <1> HIDE DEF groups
  <1>4. new.groups = groups
    BY <1>1
  <1>5. new \in Config
    BY <1>1, <1>3 DEF Config
  <1>6. OwnedEvents(new) = {}
    BY <1>2, <1>4 DEF OwnedEvents, OwnedAt, OwnIn
  <1>7. UserGroups(new) = UserGroups(config)
    BY <1>2, <1>4 DEF UserGroups
  <1> QED
    BY <1>1, <1>5, <1>6, <1>7

\* The configurations of the status line's operations.
LEMMA InstalledRecord ==
  ASSUME NEW config \in Config, NEW line, NEW new,
         new = [config EXCEPT !.form = "valid", !.line = line]
  PROVE  new = [form |-> "valid", groups |-> config.groups, line |-> line,
                saved |-> config.saved]
  BY DEF Config

LEMMA WrappedRecord ==
  ASSUME NEW config \in Config, NEW line, NEW saved, NEW new,
         new = [config EXCEPT !.saved = saved, !.line = line]
  PROVE  new = [form |-> config.form, groups |-> config.groups, line |-> line,
                saved |-> saved]
  BY DEF Config

LEMMA RestoredRecord ==
  ASSUME NEW config \in Config, NEW line, NEW saved, NEW new,
         new = [config EXCEPT !.line = line, !.saved = saved]
  PROVE  new = [form |-> config.form, groups |-> config.groups, line |-> line,
                saved |-> saved]
  BY DEF Config

\* What each operation writes, told by the fields the properties read.
LEMMA UpdatedConfig ==
  ASSUME NEW op \in Op, NEW config \in Config, NEW p \in Provider,
         NEW enhanced \in BOOLEAN, MayTakeLine(op, config)
  PROVE  LET new == Updated(op, config, p, enhanced)
         IN /\ new \in Config
            /\ UserGroups(new) = UserGroups(config)
            /\ op \notin LineOps => new.line = config.line /\ new.saved = config.saved
            /\ op \in LineOps => new.groups = config.groups
            /\ op \in {"install", "repair"} => new.form = "valid" /\ Exact(new, p, enhanced)
            /\ op = "uninstall" => new.form = config.form /\ OwnedEvents(new) = {}
            /\ op = "line_install" =>
                 new.form = "valid" /\ new.line = Managed /\ new.saved = config.saved
            /\ op = "line_wrap" =>
                 new.form = config.form /\ new.line = Managed /\ new.saved = config.line
            /\ op = "line_uninstall" =>
                 /\ new.form = config.form
                 /\ new.line = IF config.line = Managed THEN config.saved ELSE config.line
                 /\ new.saved = IF config.line = Managed THEN None ELSE config.saved
  <1> DEFINE new == Updated(op, config, p, enhanced)
  <1>1. CASE op \in {"install", "repair"}
    <2>1. new = Merged(config, p, enhanced)
      BY <1>1 DEF Updated
    <2> QED
      BY <1>1, <2>1, MergedConfig DEF LineOps
  <1>2. CASE op = "uninstall"
    <2>1. new = Unmerged(config)
      BY <1>2 DEF Updated
    <2> QED
      BY <1>2, <2>1, UnmergedConfig DEF LineOps
  <1>3. CASE op = "line_install"
    <2>1. new = [config EXCEPT !.form = "valid", !.line = Managed]
      BY <1>3 DEF Updated
    <2> HIDE DEF new
    <2>2. new = [form |-> "valid", groups |-> config.groups, line |-> Managed,
                 saved |-> config.saved]
      BY <2>1, InstalledRecord, Zenon
    <2>3. new \in Config
      BY <2>2 DEF Config
    <2> QED
      BY <1>3, <2>2, <2>3 DEF new, LineOps, UserGroups
  <1>4. CASE op = "line_wrap"
    <2>1. new = [config EXCEPT !.saved = config.line, !.line = Managed]
      BY <1>4 DEF Updated
    <2> HIDE DEF new
    <2>2. new = [form |-> config.form, groups |-> config.groups, line |-> Managed,
                 saved |-> config.line]
      BY <2>1, WrappedRecord, Zenon
    <2>3. new \in Config
      BY <1>4, <2>2 DEF Config, MayTakeLine
    <2> QED
      BY <1>4, <2>2, <2>3 DEF new, LineOps, UserGroups
  <1>5. CASE op = "line_uninstall"
    <2>1. CASE config.line = Managed
      <3>1. new = [config EXCEPT !.line = config.saved, !.saved = None]
        BY <1>5, <2>1 DEF Updated
      <3> HIDE DEF new
      <3>2. new = [form |-> config.form, groups |-> config.groups, line |-> config.saved,
                   saved |-> None]
        BY <3>1, RestoredRecord, Zenon
      <3>3. new \in Config
        BY <1>5, <3>2 DEF Config
      <3> QED
        BY <1>5, <2>1, <3>2, <3>3 DEF new, LineOps, UserGroups
    <2>2. CASE config.line # Managed
      <3>1. new = config
        BY <1>5, <2>2 DEF Updated
      <3> QED
        BY <1>5, <2>2, <3>1 DEF LineOps
    <2> QED
      BY <2>1, <2>2
  <1> QED
    BY <1>1, <1>2, <1>3, <1>4, <1>5 DEF Op

-----------------------------------------------------------------------------
(* The steps of an operation *)

Putting == {"install", "repair", "line_install", "line_wrap"}

\* The place of the steps that all operations, or all of Putting, have.
ReadAt(op) == IF op = "repair" THEN 2 ELSE 1
BinaryAt(op) == IF op = "repair" THEN 4 ELSE 3
ConfigAt(op) ==
  CASE op = "install" -> 4 [] op \in {"repair", "line_install"} -> 5
    [] op = "line_wrap" -> 6 [] OTHER -> 3
LastAt(op) == IF op \in {"repair", "line_wrap", "line_uninstall"} THEN 6 ELSE 5

LEMMA StepPositions ==
  ASSUME NEW op \in Op
  PROVE  /\ Len(Steps(op)) = LastAt(op)
         /\ DOMAIN Steps(op) = 1..LastAt(op)
         /\ \A at \in 1..LastAt(op) :
              /\ Steps(op)[at] = "check" <=> op = "repair" /\ at = 1
              /\ Steps(op)[at] = "read" <=> at = ReadAt(op)
              /\ Steps(op)[at] = "backup" <=> at = ReadAt(op) + 1
              /\ Steps(op)[at] = "binary" <=> op \in Putting /\ at = BinaryAt(op)
              /\ Steps(op)[at] = "config" <=> at = ConfigAt(op)
              /\ Steps(op)[at] = "delegate" <=> op = "line_wrap" /\ at = 4
              /\ Steps(op)[at] = "helper" <=>
                   \/ op = "line_install" /\ at = 4
                   \/ op = "line_wrap" /\ at = 5
              /\ Steps(op)[at] = "no_helper" <=> op = "line_uninstall" /\ at = 4
              /\ Steps(op)[at] = "no_delegate" <=> op = "line_uninstall" /\ at = 5
              /\ Steps(op)[at] = "clean" <=>
                   \/ op = "uninstall" /\ at = 4
                   \/ op = "line_uninstall" /\ at = 6
              /\ Steps(op)[at] = "state" <=>
                   op \in {"install", "repair", "uninstall"} /\ at = LastAt(op)
  <1> USE DEF LastAt, ReadAt, BinaryAt, ConfigAt, Putting
  <1>1. CASE op = "install"
    <2>1. Steps(op) = <<"read", "backup", "binary", "config", "state">>
      BY <1>1 DEF Steps
    <2>2. /\ Len(Steps(op)) = 5 /\ DOMAIN Steps(op) = 1..5 /\ LastAt(op) = 5
          /\ Steps(op)[1] = "read" /\ Steps(op)[2] = "backup"
          /\ Steps(op)[3] = "binary" /\ Steps(op)[4] = "config"
          /\ Steps(op)[5] = "state"
      BY <1>1, <2>1
    <2> QED
      BY <1>1, <2>2
  <1>2. CASE op = "repair"
    <2>1. Steps(op) = <<"check", "read", "backup", "binary", "config", "state">>
      BY <1>2 DEF Steps
    <2>2. /\ Len(Steps(op)) = 6 /\ DOMAIN Steps(op) = 1..6 /\ LastAt(op) = 6
          /\ Steps(op)[1] = "check" /\ Steps(op)[2] = "read"
          /\ Steps(op)[3] = "backup" /\ Steps(op)[4] = "binary"
          /\ Steps(op)[5] = "config" /\ Steps(op)[6] = "state"
      BY <1>2, <2>1
    <2> QED
      BY <1>2, <2>2
  <1>3. CASE op = "uninstall"
    <2>1. Steps(op) = <<"read", "backup", "config", "clean", "state">>
      BY <1>3 DEF Steps
    <2>2. /\ Len(Steps(op)) = 5 /\ DOMAIN Steps(op) = 1..5 /\ LastAt(op) = 5
          /\ Steps(op)[1] = "read" /\ Steps(op)[2] = "backup"
          /\ Steps(op)[3] = "config" /\ Steps(op)[4] = "clean"
          /\ Steps(op)[5] = "state"
      BY <1>3, <2>1
    <2> QED
      BY <1>3, <2>2
  <1>4. CASE op = "line_install"
    <2>1. Steps(op) = <<"read", "backup", "binary", "helper", "config">>
      BY <1>4 DEF Steps
    <2>2. /\ Len(Steps(op)) = 5 /\ DOMAIN Steps(op) = 1..5 /\ LastAt(op) = 5
          /\ Steps(op)[1] = "read" /\ Steps(op)[2] = "backup"
          /\ Steps(op)[3] = "binary" /\ Steps(op)[4] = "helper"
          /\ Steps(op)[5] = "config"
      BY <1>4, <2>1
    <2> QED
      BY <1>4, <2>2
  <1>5. CASE op = "line_wrap"
    <2>1. Steps(op) = <<"read", "backup", "binary", "delegate", "helper", "config">>
      BY <1>5 DEF Steps
    <2>2. /\ Len(Steps(op)) = 6 /\ DOMAIN Steps(op) = 1..6 /\ LastAt(op) = 6
          /\ Steps(op)[1] = "read" /\ Steps(op)[2] = "backup"
          /\ Steps(op)[3] = "binary" /\ Steps(op)[4] = "delegate"
          /\ Steps(op)[5] = "helper" /\ Steps(op)[6] = "config"
      BY <1>5, <2>1
    <2> QED
      BY <1>5, <2>2
  <1>6. CASE op = "line_uninstall"
    <2>1. Steps(op) = <<"read", "backup", "config", "no_helper", "no_delegate", "clean">>
      BY <1>6 DEF Steps
    <2>2. /\ Len(Steps(op)) = 6 /\ DOMAIN Steps(op) = 1..6 /\ LastAt(op) = 6
          /\ Steps(op)[1] = "read" /\ Steps(op)[2] = "backup"
          /\ Steps(op)[3] = "config" /\ Steps(op)[4] = "no_helper"
          /\ Steps(op)[5] = "no_delegate" /\ Steps(op)[6] = "clean"
      BY <1>6, <2>1
    <2> QED
      BY <1>6, <2>2
  <1> QED
    BY <1>1, <1>2, <1>3, <1>4, <1>5, <1>6 DEF Op

\* q goes on to its next step, holding `state` and `read`, or returns after
\* its last one.
Advances(q, state, read) ==
  LET op == proc[q].op
  IN \/ /\ proc[q].at = LastAt(op)
        /\ Return(q, Outcome(op))
     \/ /\ proc[q].at < LastAt(op)
        /\ UNCHANGED <<lock, done>>
        /\ \E new \in Work :
             /\ proc' = [proc EXCEPT ![q] = new]
             /\ new.op = op /\ new.at = proc[q].at + 1
             /\ new.provider = proc[q].provider /\ new.enhanced = proc[q].enhanced
             /\ new.state = state /\ new.read = read

LEMMA ContinueAdvances ==
  ASSUME TypeOK, NEW q \in Process, proc[q].op # None,
         NEW next \in Work, next.op = proc[q].op, next.at = proc[q].at,
         next.provider = proc[q].provider, next.enhanced = proc[q].enhanced,
         Continue(q, next)
  PROVE  Advances(q, next.state, next.read)
  <1> DEFINE op == proc[q].op
             new == [op |-> op, at |-> proc[q].at + 1, provider |-> next.provider,
                     enhanced |-> next.enhanced, state |-> next.state, read |-> next.read,
                     backup |-> next.backup]
  <1>1. op \in Op /\ proc[q].at \in 1..LastAt(op) /\ Len(Steps(op)) = LastAt(op)
    BY StepPositions DEF TypeOK, Work
  <1>2. CASE proc[q].at = LastAt(op)
    BY <1>1, <1>2 DEF Continue, Advances
  <1>3. CASE proc[q].at # LastAt(op)
    <2>1. proc[q].at < LastAt(op) /\ proc[q].at + 1 \in 1..6
      BY <1>1, <1>3 DEF LastAt
    <2>2. new \in Work
      BY <1>1, <2>1 DEF Work
    <2>3. [next EXCEPT !.at = @ + 1] = new
      BY DEF Work
    <2>4. proc' = [proc EXCEPT ![q] = new] /\ UNCHANGED <<lock, done>>
      BY <1>1, <1>3, <2>3, Zenon DEF Continue
    <2> QED
      BY <2>1, <2>2, <2>4 DEF Advances
  <1> QED
    BY <1>2, <1>3

\* The steps that only write files.
Writes(q) ==
  \/ PutBinary(q) \/ PutDelegate(q) \/ PutHelper(q) \/ PutConfig(q)
  \/ RemoveHelper(q) \/ RemoveDelegate(q) \/ Clean(q) \/ PutState(q)

LEMMA StepsAdvance ==
  ASSUME TypeOK, NEW q \in Process
  PROVE  /\ CheckRepair(q) \/ Backup(q) \/ Writes(q) \/ Read(q) => proc[q].op # None
         /\ CheckRepair(q) =>
              Advances(q, proc[q].state, proc[q].read) \/ Return(q, "none")
         /\ Read(q) =>
              \/ Return(q, "none")
              \/ ~Refused(q) /\ Advances(q, inst, file[proc[q].provider])
         /\ Backup(q) \/ Writes(q) => Advances(q, proc[q].state, proc[q].read)
  <1> DEFINE work == proc[q]
  <1>1. work \in Work
    BY DEF TypeOK
  <1>2. ASSUME work.op # None, Continue(q, work)
        PROVE  Advances(q, work.state, work.read)
    BY <1>1, <1>2, ContinueAdvances, Zenon
  <1>3. CheckRepair(q) \/ Backup(q) \/ Writes(q) \/ Read(q) => work.op # None
    BY DEF CheckRepair, Backup, Read, Writes, PutBinary, PutDelegate, PutHelper, PutConfig,
           RemoveHelper, RemoveDelegate, Clean, PutState, At
  <1>4. Writes(q) => Continue(q, work)
    BY DEF Writes, PutBinary, PutDelegate, PutHelper, PutConfig,
           RemoveHelper, RemoveDelegate, Clean, PutState
  <1>5. CheckRepair(q) => Continue(q, work) \/ Return(q, "none")
    BY Zenon DEF CheckRepair
  <1>6. ASSUME Backup(q)
        PROVE  Advances(q, work.state, work.read)
    <2>1. PICK next : /\ next = work \/ next = [work EXCEPT !.backup = file[work.provider]]
                      /\ Continue(q, next)
      BY <1>6, Zenon DEF Backup
    <2>2. CASE next = work
      BY <1>2, <1>3, <1>6, <2>1, <2>2
    <2>3. CASE next = [work EXCEPT !.backup = file[work.provider]]
      <3>1. next = [op |-> work.op, at |-> work.at, provider |-> work.provider,
                    enhanced |-> work.enhanced, state |-> work.state, read |-> work.read,
                    backup |-> file[work.provider]]
        BY <1>1, <2>3 DEF Work
      <3>2. next \in Work
        BY <1>1, <3>1 DEF Work, TypeOK
      <3> QED
        BY <1>3, <1>6, <2>1, <3>1, <3>2, ContinueAdvances
    <2> QED
      BY <2>1, <2>2, <2>3
  <1>7. ASSUME Read(q), ~Return(q, "none")
        PROVE  ~Refused(q) /\ Advances(q, inst, file[work.provider])
    <2>1. PICK next : /\ next = [work EXCEPT !.state = inst, !.read = file[work.provider]]
                    /\ ~Refused(q) /\ Continue(q, next)
      BY <1>7, Zenon DEF Read
    <2>2. next = [op |-> work.op, at |-> work.at, provider |-> work.provider,
                  enhanced |-> work.enhanced, state |-> inst, read |-> file[work.provider],
                  backup |-> work.backup]
      BY <1>1, <2>1 DEF Work
    <2>3. next \in Work
      BY <1>1, <2>2 DEF Work, TypeOK
    <2> QED
      BY <1>3, <1>7, <2>1, <2>2, <2>3, ContinueAdvances
  <1> QED
    BY <1>2, <1>3, <1>4, <1>5, <1>6, <1>7, Zenon

-----------------------------------------------------------------------------
(* The user's edits *)

LEMMA EditedGroups ==
  ASSUME NEW old \in Seq(Group), NEW groups \in EditGroups(old)
  PROVE  groups \in Seq(Group) /\ (OwnIn(old) = {} => OwnIn(groups) = {})
  <1>1. CASE groups = <<"mine">> \o old
    <2>1. <<"mine">> \in Seq(Group)
      BY DEF Group
    <2>2. /\ groups \in Seq(Group) /\ DOMAIN groups = 1..(Len(old) + 1)
          /\ groups[1] = "mine"
          /\ \A i \in 2..(Len(old) + 1) : groups[i] = old[i - 1] /\ i - 1 \in DOMAIN old
      BY <1>1, <2>1
    <2> QED
      BY <2>2 DEF OwnIn, IsOwned
  <1>2. ASSUME NEW i \in {j \in DOMAIN old : old[j] = "own"}, groups = [old EXCEPT ![i] = "shared"]
        PROVE  groups \in Seq(Group) /\ OwnIn(old) # {}
    BY <1>2 DEF OwnIn, IsOwned, Group
  <1>3. ASSUME NEW i \in {j \in DOMAIN old : old[j] = "own"}, groups = RemoveAt(old, i)
        PROVE  groups \in Seq(Group) /\ OwnIn(old) # {}
    BY <1>3 DEF OwnIn, IsOwned, RemoveAt
  <1> QED
    BY <1>1, <1>2, <1>3 DEF EditGroups

\* An edit of the configuration of p leaves it as `new`.
Edits(p, new) ==
  /\ file' = [file EXCEPT ![p] = new]
  /\ new.form # "absent"

LEMMA HooksEdited ==
  ASSUME TypeOK, NEW p \in Provider, NEW e \in HookEvent, EditHooks(p, e)
  PROVE  \E new \in Config :
           /\ Edits(p, new) /\ new.form = "valid"
           /\ new.line = file[p].line /\ new.saved = file[p].saved
           /\ OwnedEvents(new) \subseteq OwnedEvents(file[p])
  <1> DEFINE old == file[p].groups
  <1>0. PICK groups \in EditGroups(old[e]) :
          file' = [file EXCEPT ![p] = [@ EXCEPT !.form = "valid", !.groups[e] = groups]]
    BY DEF EditHooks
  <1>1. PICK new : /\ new = [file[p] EXCEPT !.form = "valid", !.groups[e] = groups]
                   /\ file' = [file EXCEPT ![p] = new]
    BY <1>0, Zenon
  <1>2. old[e] \in Seq(Group) /\ old \in [HookEvent -> Seq(Group)] /\ file[p] \in Config
    BY DEF TypeOK, Config
  <1>3. groups \in Seq(Group) /\ (OwnIn(old[e]) = {} => OwnIn(groups) = {})
    BY <1>2, EditedGroups
  <1> DEFINE all == [old EXCEPT ![e] = groups]
  <1>4. all \in [HookEvent -> Seq(Group)] /\ all[e] = groups
        /\ \A d \in HookEvent \ {e} : all[d] = old[d]
    BY <1>2, <1>3
  <1>5. new = [form |-> "valid", groups |-> all, line |-> file[p].line,
               saved |-> file[p].saved]
    <2>1. new = [file[p] EXCEPT !.form = "valid", !.groups = all]
      BY <1>1, Zenon
    <2> HIDE DEF all
    <2> QED
      BY <1>2, <2>1, MergedRecord, Zenon
  <1> HIDE DEF all
  <1>6. new \in Config
    BY <1>2, <1>4, <1>5 DEF Config
  <1>7. OwnedEvents(new) \subseteq OwnedEvents(file[p])
    BY <1>3, <1>4, <1>5 DEF OwnedEvents, OwnedAt, OwnIn
  <1> QED
    BY <1>1, <1>5, <1>6, <1>7 DEF Edits

LEMMA LineEdited ==
  ASSUME TypeOK, NEW line \in Line \cup {None}, EditLine(line)
  PROVE  \E new \in Config :
           /\ Edits("claude", new) /\ new.form = "valid"
           /\ new.line = line /\ new.saved = file["claude"].saved
           /\ new.groups = file["claude"].groups
  <1> DEFINE old == file["claude"]
             new == [form |-> "valid", groups |-> old.groups, line |-> line,
                     saved |-> old.saved]
  <1>1. old \in Config
    BY DEF TypeOK, Provider
  <1>2. file' = [file EXCEPT !["claude"] = new]
    BY <1>1 DEF TypeOK, Config, Provider, EditLine
  <1>3. new \in Config
    BY <1>1 DEF Config
  <1> QED
    BY <1>2, <1>3 DEF Edits

LEMMA FormEdited ==
  ASSUME TypeOK, NEW p \in Provider, EditForm(p)
  PROVE  \E new \in Config :
           /\ Edits(p, new)
           /\ new.line = file[p].line /\ new.saved = file[p].saved
           /\ new.groups = file[p].groups
  <1> DEFINE old == file[p]
  <1>1. old \in Config
    BY DEF TypeOK
  <1>2. PICK form : /\ form = IF old.form = "valid" THEN "malformed" ELSE "valid"
                    /\ file' = [file EXCEPT ![p].form = form]
    BY Zenon DEF EditForm
  <1> DEFINE new == [form |-> form, groups |-> old.groups, line |-> old.line,
                     saved |-> old.saved]
  <1>3. form \in {"valid", "malformed"}
    BY <1>2
  <1>4. file' = [file EXCEPT ![p] = new]
    <2>1. PICK next : next = [old EXCEPT !.form = form] /\ file' = [file EXCEPT ![p] = next]
      BY <1>2, Zenon
    <2>2. next = new
      BY <1>1, <2>1 DEF Config
    <2> QED
      BY <2>1, <2>2
  <1>5. new \in Config
    BY <1>1, <1>3 DEF Config
  <1> QED
    BY <1>3, <1>4, <1>5 DEF Edits

-----------------------------------------------------------------------------
(* Hooks recorded as installed run a binary that is there *)

HasRead(q) == proc[q].op # None /\ proc[q].at > ReadAt(proc[q].op)
HasBinary(q) == proc[q].op \in Putting /\ proc[q].at > BinaryAt(proc[q].op)
HasWritten(q) == proc[q].op # None /\ proc[q].at > ConfigAt(proc[q].op)

\* Only the holder of the lock is in an operation, and the status line's
\* operations are about Claude's settings.
OneOperation ==
  \A q \in Process : proc[q].op # None =>
    /\ lock = q
    /\ proc[q].op \in LineOps => proc[q].provider = "claude"

AbsentIsEmpty == \A p \in Provider : file[p].form = "absent" => file[p] = NoConfig

\* What an operation read was not refused, and the recorded state is still
\* what it read.
ReadIsSound(q) ==
  LET work == proc[q] IN
  /\ work.state = inst
  /\ work.read.form # "malformed"
  /\ work.read.form = "absent" => work.read = NoConfig
  /\ MayTakeLine(work.op, work.read)

\* The hooks q has read still have a binary to run, until q takes them out.
ReadHooksRun(q) ==
  LET work == proc[q] IN
  /\ inst[work.provider].intent = "installed" /\ OwnedEvents(work.read) # {}
     => binary # "none"
  /\ OwnedEvents(file[work.provider]) \subseteq OwnedEvents(work.read)

OperationRuns(q) ==
  /\ HasRead(q) => ReadIsSound(q)
  /\ HasRead(q) /\ ~HasWritten(q) => ReadHooksRun(q)
  /\ HasBinary(q) => binary # "none"
  /\ proc[q].op = "uninstall" /\ HasWritten(q) =>
       OwnedEvents(file[proc[q].provider]) = {}

RunInv ==
  /\ TypeOK
  /\ OneOperation
  /\ AbsentIsEmpty
  /\ \A q \in Process : OperationRuns(q)
  /\ RecordedHooksRun

-----------------------------------------------------------------------------
(* What is reported as done holds *)

\* What the configuration of q's provider is once q has written it.
Effect(q) ==
  LET work == proc[q]
      config == file[work.provider]
  IN /\ config.form # "malformed"
     /\ work.op \in {"install", "repair"} =>
          config.form = "valid" /\ Exact(config, work.provider, work.enhanced)
     /\ work.op \in {"line_install", "line_wrap"} =>
          config.form = "valid" /\ config.line = Managed
     /\ work.op = "line_uninstall" =>
          config.line # Managed /\ (OwnedLine(q) => config.saved = None)

HasHelper(q) ==
  \/ proc[q].op = "line_install" /\ proc[q].at > 4
  \/ proc[q].op = "line_wrap" /\ proc[q].at > 5

\* No operation but q and no edit came between what q has done so far.
OperationHolds(q) ==
  LET work == proc[q] IN
  /\ work.op # None => done[PartOf(q)] = "none"
  /\ HasRead(q) /\ ~HasWritten(q) => work.read = file[work.provider]
  /\ HasWritten(q) => Effect(q)
  /\ HasBinary(q) => binary = "runnable"
  /\ HasHelper(q) => helper # "none"
  /\ work.op = "line_wrap" /\ work.at > 4 => delegate # None

HooksDone ==
  \A p \in Provider :
    /\ done[p] = "installed" =>
         inst[p].intent = "installed" /\ binary = "runnable" /\ MatchesManifest(p)
    /\ done[p] = "uninstalled" =>
         /\ inst[p].intent = "uninstalled" /\ OwnedEvents(file[p]) = {}
         /\ file[p].form # "malformed"

LineDone ==
  /\ done["line"] = "installed" => StatuslineInstalled
  /\ done["line"] = "uninstalled" => file["claude"].line # Managed

SavedHasDelegate == file["claude"].saved # None => delegate # None

DoneInv ==
  /\ RunInv
  /\ \A q \in Process : OperationHolds(q)
  /\ HooksDone
  /\ LineDone
  /\ SavedHasDelegate
  /\ UserLineKept

-----------------------------------------------------------------------------
(* Types *)

ProcTypes ==
  /\ lock \in Process \cup {None}
  /\ proc \in [Process -> Work]
  /\ \A q \in Process : proc[q].op # None => proc[q].at \in DOMAIN Steps(proc[q].op)
  /\ done \in [Part -> {"none", "installed", "uninstalled"}]

LEMMA Idling == Idle \in Work /\ Idle.op = None
  <1>1. NoConfig \in Config
    BY DEF NoConfig, Config
  <1> QED
    BY <1>1 DEF Idle, Work, Provider

LEMMA ReturnTypes ==
  ASSUME TypeOK, NEW q \in Process, NEW result \in {"none", "installed", "uninstalled"},
         Return(q, result)
  PROVE  ProcTypes'
  <1>1. PartOf(q) \in Part
    BY DEF PartOf, Part, TypeOK, Work
  <1>2. lock' \in Process \cup {None}
    BY DEF Return, TypeOK
  <1>3. done' \in [Part -> {"none", "installed", "uninstalled"}]
    BY <1>1 DEF Return, TypeOK
  <1>4. proc' = [proc EXCEPT ![q] = Idle]
    BY DEF Return
  <1> QED
    BY <1>2, <1>3, <1>4, Idling DEF ProcTypes, TypeOK

LEMMA AdvanceTypes ==
  ASSUME TypeOK, NEW q \in Process, NEW state, NEW read, proc[q].op # None,
         Advances(q, state, read)
  PROVE  ProcTypes'
  <1> DEFINE op == proc[q].op
  <1>1. op \in Op /\ proc[q].at \in 1..LastAt(op) /\ DOMAIN Steps(op) = 1..LastAt(op)
    BY StepPositions DEF TypeOK, Work
  <1>2. CASE Return(q, Outcome(op))
    BY <1>2, ReturnTypes DEF Outcome
  <1>3. ASSUME NEW new \in Work, proc' = [proc EXCEPT ![q] = new],
               new.op = op, new.at = proc[q].at + 1, proc[q].at < LastAt(op),
               UNCHANGED <<lock, done>>
        PROVE  ProcTypes'
    <2>1. new.at \in DOMAIN Steps(new.op)
      <3>1. LastAt(op) \in Nat
        BY DEF LastAt
      <3> HIDE DEF op
      <3>2. new.at \in 1..LastAt(op)
        BY <1>1, <1>3, <3>1
      <3> QED
        BY <1>1, <1>3, <3>2
    <2> QED
      BY <1>3, <2>1 DEF ProcTypes, TypeOK
  <1> QED
    BY <1>2, <1>3 DEF Advances

LEMMA Begins ==
  ASSUME TypeOK, NEW q \in Process, NEW op \in Op, NEW p \in Provider, NEW e \in BOOLEAN,
         Begin(q, op, p, e)
  PROVE  /\ proc[q].op = None /\ lock = None /\ lock' = q
         /\ \E new \in Work :
              /\ proc' = [proc EXCEPT ![q] = new]
              /\ new.op = op /\ new.provider = p /\ new.enhanced = e /\ new.at = 1
         /\ op \in LineOps => p = "claude"
  <1>1. PICK new : /\ new = [Idle EXCEPT !.op = op, !.provider = p, !.enhanced = e]
                   /\ proc' = [proc EXCEPT ![q] = new]
    BY Zenon DEF Begin
  <1>2. new = [op |-> op, provider |-> p, enhanced |-> e, at |-> 1, state |-> None,
               read |-> NoConfig, backup |-> None]
    BY <1>1 DEF Idle
  <1>3. new \in Work
    BY <1>2, Idling DEF Idle, Work
  <1>4. proc[q].op = None /\ lock = None /\ lock' = q /\ (op \in LineOps => p = "claude")
    BY DEF Begin, Acquire
  <1>5. new.op = op /\ new.provider = p /\ new.enhanced = e /\ new.at = 1
    BY <1>2
  <1> QED
    BY <1>1, <1>3, <1>4, <1>5, Zenon

LEMMA BeginTypes ==
  ASSUME TypeOK, NEW q \in Process, NEW op \in Op, NEW p \in Provider, NEW e \in BOOLEAN,
         Begin(q, op, p, e)
  PROVE  TypeOK'
  <1>1. PICK new \in Work : proc' = [proc EXCEPT ![q] = new] /\ new.op = op /\ new.at = 1
    BY Begins
  <1>2. 1 \in DOMAIN Steps(op)
    BY StepPositions DEF LastAt
  <1>3. done' \in [Part -> {"none", "installed", "uninstalled"}]
    BY DEF Begin, TypeOK, Part
  <1>4. ProcTypes'
    BY <1>1, <1>2, <1>3, Begins DEF ProcTypes, TypeOK
  <1>5. ops' \in 0..MaxOps
    BY InstallerAssumption DEF Begin, TypeOK
  <1> QED
    BY <1>4, <1>5 DEF TypeOK, ProcTypes, Begin, files

-----------------------------------------------------------------------------
(* Where an operation is *)

\* What the name of a step says of the steps before it.
LEMMA AtStep ==
  ASSUME TypeOK, NEW q \in Process,
         NEW op, op = proc[q].op, NEW at, at = proc[q].at
  PROVE  /\ At(q, "check") => /\ op = "repair" /\ ~HasRead(q) /\ ~HasBinary(q)
                              /\ ~HasWritten(q)
                              /\ at \notin {ReadAt(op), BinaryAt(op), ConfigAt(op)}
         /\ At(q, "read") => /\ at = ReadAt(op) /\ ~HasRead(q) /\ ~HasBinary(q)
                             /\ ~HasWritten(q) /\ at \notin {BinaryAt(op), ConfigAt(op)}
         /\ At(q, "backup") => /\ HasRead(q) /\ ~HasBinary(q) /\ ~HasWritten(q)
                               /\ at \notin {BinaryAt(op), ConfigAt(op)}
         /\ At(q, "binary") => /\ op \in Putting /\ at = BinaryAt(op) /\ HasRead(q)
                               /\ ~HasWritten(q) /\ at # ConfigAt(op)
         /\ At(q, "delegate") => /\ op = "line_wrap" /\ at = 4 /\ HasRead(q)
                                 /\ HasBinary(q) /\ ~HasWritten(q) /\ at # ConfigAt(op)
         /\ At(q, "helper") => /\ op \in {"line_install", "line_wrap"}
                               /\ at = IF op = "line_wrap" THEN 5 ELSE 4
                               /\ HasRead(q) /\ HasBinary(q) /\ ~HasWritten(q)
                               /\ at # ConfigAt(op)
         /\ At(q, "config") => /\ at = ConfigAt(op) /\ HasRead(q) /\ ~HasWritten(q)
                               /\ op \in Putting => HasBinary(q)
         /\ At(q, "no_helper") \/ At(q, "no_delegate") =>
              op = "line_uninstall" /\ HasRead(q) /\ HasWritten(q)
         /\ At(q, "clean") =>
              op \in {"uninstall", "line_uninstall"} /\ HasRead(q) /\ HasWritten(q)
         /\ At(q, "state") => /\ op \in {"install", "repair", "uninstall"}
                              /\ at = LastAt(op) /\ HasRead(q) /\ HasWritten(q)
                              /\ op # "uninstall" => HasBinary(q)
  <1>1. CASE op = None
    BY <1>1 DEF At
  <1>2. CASE op # None
    <2>1. op \in Op /\ at \in 1..LastAt(op)
      BY <1>2, StepPositions DEF TypeOK, Work
    <2>2. \A step : At(q, step) <=> Steps(op)[at] = step
      BY <1>2 DEF At, StepOf
    <2>3. /\ HasRead(q) <=> at > ReadAt(op)
          /\ HasBinary(q) <=> op \in Putting /\ at > BinaryAt(op)
          /\ HasWritten(q) <=> at > ConfigAt(op)
      BY <1>2 DEF HasRead, HasBinary, HasWritten
    <2> QED
      BY <2>1, <2>2, <2>3, StepPositions DEF ReadAt, BinaryAt, ConfigAt, LastAt, Putting, Op
  <1> QED
    BY <1>1, <1>2

\* The places after a step that q goes on from; nobody else is anywhere.
LEMMA Moved ==
  ASSUME RunInv, NEW q \in Process, NEW state, NEW read, proc[q].op # None,
         Advances(q, state, read)
  PROVE  \/ /\ proc[q].at = LastAt(proc[q].op)
            /\ Return(q, Outcome(proc[q].op))
         \/ /\ proc[q].at # LastAt(proc[q].op)
            /\ UNCHANGED <<lock, done>>
            /\ proc'[q].op = proc[q].op /\ proc'[q].at = proc[q].at + 1
            /\ proc'[q].provider = proc[q].provider /\ proc'[q].enhanced = proc[q].enhanced
            /\ proc'[q].state = state /\ proc'[q].read = read
            /\ HasRead(q)' <=> HasRead(q) \/ proc[q].at = ReadAt(proc[q].op)
            /\ HasBinary(q)' <=>
                 \/ HasBinary(q)
                 \/ proc[q].op \in Putting /\ proc[q].at = BinaryAt(proc[q].op)
            /\ HasWritten(q)' <=> HasWritten(q) \/ proc[q].at = ConfigAt(proc[q].op)
            /\ \A r \in Process \ {q} : proc'[r].op = None
  <1> DEFINE op == proc[q].op
             at == proc[q].at
  <1>1. CASE at = LastAt(op) /\ Return(q, Outcome(op))
    BY <1>1
  <1>2. ASSUME NEW new \in Work, proc' = [proc EXCEPT ![q] = new], UNCHANGED <<lock, done>>,
               new.op = op, new.at = at + 1, new.provider = proc[q].provider,
               new.enhanced = proc[q].enhanced, new.state = state, new.read = read
        PROVE  /\ proc'[q] = new
               /\ HasRead(q)' <=> HasRead(q) \/ at = ReadAt(op)
               /\ HasBinary(q)' <=> HasBinary(q) \/ (op \in Putting /\ at = BinaryAt(op))
               /\ HasWritten(q)' <=> HasWritten(q) \/ at = ConfigAt(op)
               /\ \A r \in Process \ {q} : proc'[r].op = None
    <2>1. proc'[q] = new /\ \A r \in Process \ {q} : proc'[r] = proc[r]
      BY <1>2 DEF RunInv, TypeOK
    <2>2. \A r \in Process \ {q} : proc[r].op = None
      BY DEF RunInv, OneOperation
    <2>3. op \in Op /\ at \in Nat
      BY DEF RunInv, TypeOK, Work
    <2>4. ReadAt(op) \in Nat /\ BinaryAt(op) \in Nat /\ ConfigAt(op) \in Nat
      BY <2>3 DEF ReadAt, BinaryAt, ConfigAt
    <2>5. \A k \in Nat : at + 1 > k <=> at > k \/ at = k
      BY <2>3
    <2> QED
      BY <1>2, <2>1, <2>2, <2>3, <2>4, <2>5 DEF HasRead, HasBinary, HasWritten
  <1>3. op \in Op
    BY DEF RunInv, TypeOK, Work
  <1>4. LastAt(op) \in Nat /\ at \in Nat
    BY DEF LastAt, RunInv, TypeOK, Work
  <1>5. at < LastAt(op) => at # LastAt(op)
    BY <1>4
  <1> HIDE DEF op, at
  <1> QED
    BY <1>1, <1>2, <1>5 DEF Advances, op, at

\* Nobody is in an operation once q has returned.
LEMMA Returned ==
  ASSUME RunInv, NEW q \in Process, NEW result, proc[q].op # None, Return(q, result)
  PROVE  lock' = None /\ \A r \in Process : proc'[r].op = None
  <1>1. \A r \in Process \ {q} : proc[r].op = None
    BY DEF RunInv, OneOperation
  <1>2. proc' = [proc EXCEPT ![q] = Idle] /\ lock = q
    BY DEF Return, RunInv, OneOperation
  <1> QED
    BY <1>1, <1>2, Idling DEF Return, RunInv, TypeOK

-----------------------------------------------------------------------------
(* RunInv is inductive *)

LEMMA WritesTypes ==
  ASSUME RunInv, NEW q \in Process, Writes(q)
  PROVE  TypeOK'
  <1> DEFINE work == proc[q]
  <1>1. /\ TypeOK /\ work.op # None /\ work \in Work /\ work.op \in Op
        /\ HasRead(q) => ReadIsSound(q)
    BY StepsAdvance DEF RunInv, OperationRuns, TypeOK, Work
  <1>2. ProcTypes'
    BY <1>1, StepsAdvance, AdvanceTypes
  <1>3. UNCHANGED <<inline, ops, edits, mine>>
    BY DEF Writes, PutBinary, PutDelegate, PutHelper, PutConfig,
           RemoveHelper, RemoveDelegate, Clean, PutState
  <1>4. file' \in [Provider -> Config]
    <2>1. CASE UNCHANGED file
      BY <1>1, <2>1 DEF TypeOK
    <2>2. CASE PutConfig(q)
      <3>1. MayTakeLine(work.op, work.read)
        BY <1>1, <2>2, AtStep DEF PutConfig, ReadIsSound
      <3>2. Updated(work.op, work.read, work.provider, work.enhanced) \in Config
        BY <1>1, <3>1, UpdatedConfig DEF Work
      <3> QED
        BY <1>1, <2>2, <3>2 DEF PutConfig, TypeOK
    <2> QED
      BY <2>1, <2>2 DEF Writes, PutBinary, PutDelegate, PutHelper,
                        RemoveHelper, RemoveDelegate, Clean, PutState
  <1>5. inst' \in [Provider -> ProviderState]
    <2>1. CASE UNCHANGED inst
      BY <1>1, <2>1 DEF TypeOK
    <2>2. CASE PutState(q)
      <3>1. work.state = inst /\ work.op \in {"install", "repair", "uninstall"}
        BY <1>1, <2>2, AtStep DEF PutState, ReadIsSound
      <3> QED
        BY <1>1, <2>2, <3>1 DEF PutState, Recorded, TypeOK, Work, ProviderState
    <2> QED
      BY <2>1, <2>2 DEF Writes, PutBinary, PutDelegate, PutHelper, PutConfig,
                        RemoveHelper, RemoveDelegate, Clean
  <1>6. binary' \in {"none", "runnable", "deleted"}
    BY <1>1 DEF TypeOK, Writes, PutBinary, PutDelegate, PutHelper, PutConfig,
                RemoveHelper, RemoveDelegate, Clean, PutState
  <1>7. helper' \in {"none", "direct", "wrapper"}
    BY <1>1 DEF TypeOK, Writes, PutBinary, PutDelegate, PutHelper, PutConfig,
                RemoveHelper, RemoveDelegate, Clean, PutState
  <1>8. delegate' \in Line \cup {None}
    <2>1. CASE PutDelegate(q)
      <3>1. MayTakeLine("line_wrap", work.read)
        BY <1>1, <2>1, AtStep DEF PutDelegate, ReadIsSound
      <3> QED
        BY <2>1, <3>1 DEF PutDelegate, MayTakeLine
    <2> QED
      BY <1>1, <2>1 DEF TypeOK, Writes, PutBinary, PutHelper, PutConfig,
                        RemoveHelper, RemoveDelegate, Clean, PutState
  <1> QED
    BY <1>1, <1>2, <1>3, <1>4, <1>5, <1>6, <1>7, <1>8 DEF TypeOK, ProcTypes

\* Of an operation that moves, only what it holds now is to be shown.
LEMMA OnlyOneRuns ==
  ASSUME RunInv, NEW q \in Process, NEW state, NEW read, proc[q].op # None,
         \/ Advances(q, state, read)
         \/ \E result : Return(q, result),
         proc'[q].op # None => OperationRuns(q)'
  PROVE  OneOperation' /\ \A r \in Process : OperationRuns(r)'
  <1>1. ASSUME NEW r \in Process, proc'[r].op = None
        PROVE  OperationRuns(r)'
    BY <1>1, InstallerAssumption
       DEF OperationRuns, HasRead, HasBinary, HasWritten, Putting, Op
  <1>2. ASSUME NEW result, Return(q, result)
        PROVE  OneOperation' /\ \A r \in Process : OperationRuns(r)'
    BY <1>1, <1>2, Returned DEF OneOperation
  <1>3. CASE Advances(q, state, read)
    <2>1. CASE Return(q, Outcome(proc[q].op))
      BY <1>2, <2>1
    <2>2. ASSUME UNCHANGED lock, proc'[q].op = proc[q].op,
                 proc'[q].provider = proc[q].provider,
                 \A r \in Process \ {q} : proc'[r].op = None
          PROVE  OneOperation' /\ \A r \in Process : OperationRuns(r)'
      <3>1. OneOperation'
        BY <2>2 DEF RunInv, OneOperation
      <3>2. \A r \in Process : OperationRuns(r)'
        BY <1>1, <2>2
      <3> QED
        BY <3>1, <3>2
    <2> QED
      BY <1>3, <2>1, <2>2, Moved
  <1> QED
    BY <1>2, <1>3

\* What PutConfig writes is there, and is what the read configuration allows.
LEMMA ConfigWritten ==
  ASSUME RunInv, NEW q \in Process, PutConfig(q),
         NEW p, p = proc[q].provider, NEW read, read = proc[q].read, NEW op, op = proc[q].op
  PROVE  /\ op \in Op /\ p \in Provider /\ read \in Config /\ ReadIsSound(q)
         /\ \A r \in Provider \ {p} : file'[r] = file[r]
         /\ file'[p] = IF Changes(q) THEN Updated(op, read, p, proc[q].enhanced) ELSE file[p]
         /\ file'[p].form = "absent" => file'[p] = NoConfig
         /\ op = "uninstall" => OwnedEvents(file'[p]) = {}
         /\ op = "line_uninstall" =>
              OwnedEvents(file'[p]) \in {OwnedEvents(read), OwnedEvents(file[p])}
  <1> DEFINE new == Updated(op, read, p, proc[q].enhanced)
  <1>1. /\ TypeOK /\ op \in Op /\ p \in Provider /\ read \in Config
        /\ proc[q].enhanced \in BOOLEAN
    BY StepsAdvance DEF RunInv, TypeOK, Work, Writes
  <1>2. HasRead(q) /\ ~HasWritten(q) /\ ReadIsSound(q) /\ ReadHooksRun(q)
    BY <1>1, AtStep DEF PutConfig, RunInv, OperationRuns
  <1>3. MayTakeLine(op, read) /\ (read.form = "absent" => read = NoConfig)
        /\ read.form # "malformed"
    BY <1>2 DEF ReadIsSound
  <1>4. /\ \A r \in Provider \ {p} : file'[r] = file[r]
        /\ file'[p] = IF Changes(q) THEN new ELSE file[p]
    BY <1>1 DEF PutConfig, TypeOK
  <1>5. Changes(q) => new.form # "absent"
    <2>1. op \in {"line_wrap"} => read.form # "absent"
      BY <1>3, InstallerAssumption DEF MayTakeLine, NoConfig
    <2>2. Changes(q) /\ op \in {"uninstall", "line_uninstall"} => read.form = "valid"
      BY DEF Changes, Outcome
    <2>3. op \in {"install", "repair", "line_install"} \/ op = "uninstall"
          \/ op = "line_wrap" \/ op = "line_uninstall"
      BY <1>1 DEF Op
    <2> QED
      BY <1>1, <1>3, <2>1, <2>2, <2>3, UpdatedConfig
  <1>6. file'[p].form = "absent" => file'[p] = NoConfig
    BY <1>1, <1>4, <1>5 DEF RunInv, AbsentIsEmpty
  <1>7. ASSUME op = "uninstall"
        PROVE  OwnedEvents(file'[p]) = {}
    <2>1. OwnedEvents(new) = {}
      BY <1>1, <1>3, <1>7, UpdatedConfig
    <2>2. CASE Changes(q)
      BY <1>4, <2>1, <2>2
    <2>3. CASE ~Changes(q)
      <3>1. new = read \/ read.form # "valid"
        BY <1>7, <2>3 DEF Changes
      <3>2. read.form \in {"absent", "valid", "malformed"}
        BY <1>1 DEF Config
      <3>3. OwnedEvents(NoConfig) = {}
        BY DEF OwnedEvents, OwnedAt, NoConfig
      <3>4. OwnedEvents(read) = {}
        BY <1>3, <2>1, <3>1, <3>2, <3>3
      <3>5. OwnedEvents(file[p]) = {}
        BY <1>2, <3>4 DEF ReadHooksRun
      <3> QED
        BY <1>4, <2>3, <3>5
    <2> QED
      BY <2>2, <2>3
  <1>8. ASSUME op = "line_uninstall"
        PROVE  OwnedEvents(file'[p]) \in {OwnedEvents(read), OwnedEvents(file[p])}
    <2>1. new.groups = read.groups
      BY <1>1, <1>3, <1>8, UpdatedConfig DEF LineOps
    <2>2. OwnedEvents(new) = OwnedEvents(read)
      BY <2>1 DEF OwnedEvents, OwnedAt
    <2> QED
      BY <1>4, <2>2
  <1> QED
    BY <1>1, <1>2, <1>4, <1>6, <1>7, <1>8

LEMMA WritesKeepRunInv ==
  ASSUME RunInv, NEW q \in Process, Writes(q)
  PROVE  RunInv'
  <1> DEFINE work == proc[q]
             p == proc[q].provider
  <1>1. /\ TypeOK /\ work.op # None /\ work.op \in Op /\ p \in Provider
        /\ Advances(q, work.state, work.read)
        /\ HasRead(q) /\ ReadIsSound(q) /\ work.state = inst
    <2>1. TypeOK /\ work.op # None /\ Advances(q, work.state, work.read)
      BY StepsAdvance DEF RunInv
    <2>2. HasRead(q)
      BY <2>1, AtStep DEF Writes, PutBinary, PutDelegate, PutHelper, PutConfig,
                          RemoveHelper, RemoveDelegate, Clean, PutState
    <2> QED
      BY <2>1, <2>2 DEF RunInv, OperationRuns, ReadIsSound, TypeOK, Work
  <1>2. AbsentIsEmpty'
    <2>1. CASE PutConfig(q)
      BY <1>1, <2>1, ConfigWritten DEF RunInv, AbsentIsEmpty
    <2>2. CASE UNCHANGED file
      BY <2>2 DEF RunInv, AbsentIsEmpty
    <2> QED
      BY <2>1, <2>2 DEF Writes, PutBinary, PutDelegate, PutHelper,
                        RemoveHelper, RemoveDelegate, Clean, PutState
  <1>3. RecordedHooksRun'
    <2>1. CASE PutConfig(q)
      <3>1. /\ \A r \in Provider \ {p} : file'[r] = file[r]
            /\ work.op = "uninstall" => OwnedEvents(file'[p]) = {}
            /\ work.op = "line_uninstall" =>
                 OwnedEvents(file'[p]) \in {OwnedEvents(work.read), OwnedEvents(file[p])}
        BY <2>1, ConfigWritten
      <3>2. /\ ~HasWritten(q) /\ ReadHooksRun(q)
            /\ work.op \in Putting => binary # "none"
        BY <1>1, <2>1, AtStep DEF PutConfig, RunInv, OperationRuns
      <3>3. UNCHANGED <<inst, binary>>
        BY <2>1 DEF PutConfig
      <3>4. work.op \in Putting \/ work.op \in {"uninstall", "line_uninstall"}
        BY <1>1 DEF Putting, Op
      <3> QED
        BY <3>1, <3>2, <3>3, <3>4 DEF RunInv, RecordedHooksRun, ReadHooksRun
    <2>2. CASE Clean(q)
      <3>1. /\ work.op \in {"uninstall", "line_uninstall"}
            /\ work.op = "uninstall" => OwnedEvents(file[p]) = {}
        BY <1>1, <2>2, AtStep DEF Clean, RunInv, OperationRuns
      <3>2. ASSUME Unneeded(q), NEW r \in Provider, inst[r].intent = "installed"
            PROVE  OwnedEvents(file[r]) = {}
        <4>1. Recorded(q)[r].intent # "installed"
          BY <3>2 DEF Unneeded
        <4>2. CASE work.op = "uninstall"
          <5>1. Recorded(q) = [work.state EXCEPT ![p] =
                                 [intent |-> "uninstalled", enhanced |-> FALSE]]
            BY <4>2 DEF Recorded
          <5>2. r = p
            BY <1>1, <3>2, <4>1, <5>1 DEF TypeOK
          <5> QED
            BY <3>1, <4>2, <5>2
        <4>3. CASE work.op = "line_uninstall"
          BY <3>2, <4>1, <4>3 DEF Recorded
        <4> QED
          BY <3>1, <4>2, <4>3
      <3>3. UNCHANGED <<inst, file>> /\ (binary' # binary => Unneeded(q))
        BY <2>2 DEF Clean
      <3> QED
        BY <3>2, <3>3 DEF RunInv, RecordedHooksRun
    <2>3. CASE PutState(q)
      <3>1. /\ work.op \in {"install", "repair", "uninstall"}
            /\ work.op # "uninstall" => binary # "none"
        BY <1>1, <2>3, AtStep DEF PutState, RunInv, OperationRuns
      <3>2. UNCHANGED <<file, binary>> /\ inst' = Recorded(q)
        BY <2>3 DEF PutState
      <3>3. ASSUME work.op = "uninstall", NEW r \in Provider, inst'[r].intent = "installed"
            PROVE  inst[r].intent = "installed"
        <4>1. inst' = [inst EXCEPT ![p] = [intent |-> "uninstalled", enhanced |-> FALSE]]
          BY <1>1, <3>2, <3>3 DEF Recorded
        <4> QED
          BY <1>1, <3>3, <4>1 DEF TypeOK
      <3> QED
        BY <3>1, <3>2, <3>3 DEF RunInv, RecordedHooksRun
    <2>4. CASE UNCHANGED <<file, inst>> /\ (binary = "none" \/ binary' # "none")
      BY <2>4 DEF RunInv, RecordedHooksRun
    <2> QED
      BY <2>1, <2>2, <2>3, <2>4 DEF Writes, PutBinary, PutDelegate, PutHelper,
                                    RemoveHelper, RemoveDelegate
  <1>4. ASSUME proc'[q].op # None
        PROVE  OperationRuns(q)'
    <2>1. /\ work.at # LastAt(work.op)
          /\ proc'[q].op = work.op /\ proc'[q].provider = p
          /\ proc'[q].read = work.read /\ proc'[q].state = work.state
          /\ HasBinary(q)' <=> \/ HasBinary(q)
                               \/ work.op \in Putting /\ work.at = BinaryAt(work.op)
          /\ HasWritten(q)' <=> HasWritten(q) \/ work.at = ConfigAt(work.op)
      BY <1>1, <1>4, Moved, Returned
    <2>2. ~PutState(q) /\ UNCHANGED inst
      BY <1>1, <2>1, AtStep DEF Writes, PutBinary, PutDelegate, PutHelper, PutConfig,
                                RemoveHelper, RemoveDelegate, Clean, PutState
    <2>3. ReadIsSound(q)'
      BY <1>1, <2>1, <2>2 DEF ReadIsSound
    <2>4. ASSUME ~HasWritten(q)'
          PROVE  ReadHooksRun(q)'
      <3>1. ~HasWritten(q) /\ ReadHooksRun(q)
        BY <1>1, <2>1, <2>4 DEF RunInv, OperationRuns
      <3>2. PutBinary(q) \/ PutDelegate(q) \/ PutHelper(q)
        BY <1>1, <2>1, <2>2, <2>4, AtStep
           DEF Writes, PutConfig, RemoveHelper, RemoveDelegate, Clean
      <3>3. UNCHANGED file /\ (binary' = "none" => binary = "none")
        BY <3>2 DEF PutBinary, PutDelegate, PutHelper
      <3> QED
        BY <2>1, <2>2, <3>1, <3>3 DEF ReadHooksRun
    <2>5. ASSUME HasBinary(q)'
          PROVE  binary' # "none"
      <3>1. work.op \in Putting
        BY <2>1, <2>5 DEF HasBinary
      <3>2. ~Clean(q)
        BY <1>1, <3>1, AtStep DEF Clean, Putting
      <3>3. PutBinary(q) \/ (binary' = binary /\ ~At(q, "binary"))
        BY <3>2 DEF Writes, PutDelegate, PutHelper, PutConfig,
                    RemoveHelper, RemoveDelegate, PutState, At
      <3>4. CASE PutBinary(q)
        BY <3>4 DEF PutBinary
      <3>5. CASE binary' = binary /\ ~At(q, "binary")
        <4>1. work.at # BinaryAt(work.op)
          BY <1>1, <3>1, <3>5, StepPositions DEF At, StepOf, TypeOK
        <4> QED
          BY <2>1, <2>5, <3>5, <4>1 DEF RunInv, OperationRuns
      <3> QED
        BY <3>3, <3>4, <3>5
    <2>6. ASSUME work.op = "uninstall", HasWritten(q)'
          PROVE  OwnedEvents(file'[p]) = {}
      <3>1. CASE PutConfig(q)
        BY <2>6, <3>1, ConfigWritten
      <3>2. CASE ~PutConfig(q)
        <4>1. file' = file /\ ~At(q, "config")
          BY <3>2 DEF Writes, PutBinary, PutDelegate, PutHelper,
                      RemoveHelper, RemoveDelegate, Clean, PutState, At
        <4>2. work.at # ConfigAt(work.op)
          BY <1>1, <4>1, StepPositions DEF At, StepOf, TypeOK
        <4> QED
          BY <2>1, <2>6, <4>1, <4>2 DEF RunInv, OperationRuns
      <3> QED
        BY <3>1, <3>2
    <2> QED
      BY <2>1, <2>3, <2>4, <2>5, <2>6 DEF OperationRuns
  <1>5. OneOperation' /\ \A r \in Process : OperationRuns(r)'
    BY <1>1, <1>4, OnlyOneRuns
  <1> QED
    BY <1>2, <1>3, <1>5, WritesTypes DEF RunInv

LEMMA ReadingKeepsRunInv ==
  ASSUME RunInv, NEW q \in Process,
         CheckRepair(q) \/ Read(q) \/ Backup(q) \/ Interrupt(q)
  PROVE  RunInv'
  <1> DEFINE work == proc[q]
             p == proc[q].provider
  <1>1. /\ TypeOK /\ work.op # None /\ work.op \in Op /\ p \in Provider
        /\ UNCHANGED <<file, inline, inst, binary, helper, delegate, ops, edits, mine>>
    BY StepsAdvance DEF RunInv, TypeOK, Work, CheckRepair, Read, Backup, Interrupt, files
  <1>2. PICK state, read :
          /\ \/ Advances(q, state, read)
             \/ \E result \in {"none"} : Return(q, result)
          /\ Read(q) => Return(q, "none") \/ (~Refused(q) /\ state = inst /\ read = file[p])
          /\ ~Read(q) => state = work.state /\ read = work.read
    <2>1. CASE Read(q)
      BY <1>1, <2>1, StepsAdvance
    <2>2. CASE ~Read(q)
      BY <1>1, <2>2, StepsAdvance DEF Interrupt
    <2> QED
      BY <2>1, <2>2
  <1>3. TypeOK'
    <2>1. ProcTypes'
      BY <1>1, <1>2, AdvanceTypes, ReturnTypes
    <2> QED
      BY <1>1, <2>1 DEF TypeOK, ProcTypes
  <1>4. AbsentIsEmpty' /\ RecordedHooksRun'
    BY <1>1 DEF RunInv, AbsentIsEmpty, RecordedHooksRun
  <1>5. ASSUME proc'[q].op # None
        PROVE  OperationRuns(q)'
    <2>1. /\ ~Return(q, "none") /\ Advances(q, state, read)
          /\ proc'[q].op = work.op /\ proc'[q].provider = p
          /\ proc'[q].read = read /\ proc'[q].state = state
          /\ HasRead(q)' <=> HasRead(q) \/ work.at = ReadAt(work.op)
          /\ HasBinary(q)' <=> \/ HasBinary(q)
                               \/ work.op \in Putting /\ work.at = BinaryAt(work.op)
          /\ HasWritten(q)' <=> HasWritten(q) \/ work.at = ConfigAt(work.op)
      BY <1>1, <1>2, <1>5, Moved, Returned
    <2>2. CASE Read(q)
      <3>1. /\ ~Refused(q) /\ state = inst /\ read = file[p]
            /\ ~HasBinary(q)' /\ ~HasWritten(q)'
        BY <1>1, <1>2, <2>1, <2>2, AtStep DEF Read
      <3>2. /\ read.form # "malformed" /\ MayTakeLine(work.op, read)
            /\ read.form = "absent" => read = NoConfig
        BY <1>1, <3>1 DEF Refused, RunInv, AbsentIsEmpty
      <3>3. ReadIsSound(q)' /\ ReadHooksRun(q)'
        BY <1>1, <2>1, <3>1, <3>2
           DEF ReadIsSound, ReadHooksRun, RunInv, RecordedHooksRun
      <3> QED
        BY <3>1, <3>3 DEF OperationRuns
    <2>3. CASE CheckRepair(q)
      <3>1. ~HasRead(q)' /\ ~HasBinary(q)' /\ ~HasWritten(q)'
        BY <1>1, <2>1, <2>3, AtStep DEF CheckRepair
      <3> QED
        BY <3>1 DEF OperationRuns
    <2>4. CASE Backup(q)
      <3>1. HasRead(q) /\ ~HasWritten(q) /\ ~HasBinary(q)' /\ ~HasWritten(q)' /\ ~Read(q)
        BY <1>1, <2>1, <2>4, AtStep DEF Backup, Read, At
      <3> QED
        BY <1>1, <1>2, <2>1, <3>1 DEF OperationRuns, RunInv, ReadIsSound, ReadHooksRun
    <2>5. CASE Interrupt(q)
      BY <2>1, <2>5 DEF Interrupt
    <2> QED
      BY <2>2, <2>3, <2>4, <2>5
  <1>6. OneOperation' /\ \A r \in Process : OperationRuns(r)'
    BY <1>1, <1>2, <1>5, OnlyOneRuns
  <1> QED
    BY <1>3, <1>4, <1>6 DEF RunInv

LEMMA BeginKeepsRunInv ==
  ASSUME RunInv, NEW q \in Process, NEW op \in Op, NEW p \in Provider, NEW e \in BOOLEAN,
         Begin(q, op, p, e)
  PROVE  RunInv'
  <1>1. TypeOK' /\ UNCHANGED <<file, inst, binary>>
    BY BeginTypes DEF RunInv, Begin, files
  <1>2. PICK new \in Work :
          /\ proc' = [proc EXCEPT ![q] = new]
          /\ new.op = op /\ new.provider = p /\ new.at = 1
          /\ lock = None /\ lock' = q
          /\ op \in LineOps => p = "claude"
    BY Begins DEF RunInv
  <1>3. proc'[q] = new /\ \A r \in Process \ {q} : proc'[r].op = None
    BY <1>2, InstallerAssumption DEF RunInv, OneOperation, TypeOK
  <1>4. OneOperation'
    BY <1>2, <1>3 DEF OneOperation
  <1>5. ASSUME NEW r \in Process
        PROVE  OperationRuns(r)'
    <2>1. ~HasRead(r)' /\ ~HasBinary(r)' /\ ~HasWritten(r)'
      <3>1. CASE r = q
        BY <1>2, <1>3, <3>1
           DEF HasRead, HasBinary, HasWritten, ReadAt, BinaryAt, ConfigAt
      <3>2. CASE r # q
        BY <1>3, <3>2, InstallerAssumption
           DEF HasRead, HasBinary, HasWritten, Putting, Op
      <3> QED
        BY <3>1, <3>2
    <2> QED
      BY <2>1 DEF OperationRuns
  <1> QED
    BY <1>1, <1>4, <1>5 DEF RunInv, AbsentIsEmpty, RecordedHooksRun

\* What edits leave: every configuration with no more hooks of ours, and all
\* that the operations keep but the binary and the helper script.
LEMMA EditEffects ==
  ASSUME TypeOK, Edit
  PROVE  /\ UNCHANGED <<inst, delegate, lock, proc, ops>>
         /\ EditAllowed /\ edits' = edits + 1
         /\ \A p \in Provider :
              /\ file'[p] \in Config
              /\ OwnedEvents(file'[p]) \subseteq OwnedEvents(file[p])
              /\ file'[p].form = "absent" => file'[p] = file[p]
         /\ file' \in [Provider -> Config]
         /\ TypeOK'
         /\ binary' # "none" \/ binary' = binary
  <1>1. ASSUME NEW p \in Provider, NEW new \in Config, Edits(p, new),
               OwnedEvents(new) \subseteq OwnedEvents(file[p])
        PROVE  /\ \A r \in Provider :
                    /\ file'[r] \in Config
                    /\ OwnedEvents(file'[r]) \subseteq OwnedEvents(file[r])
                    /\ file'[r].form = "absent" => file'[r] = file[r]
               /\ file' \in [Provider -> Config]
    BY <1>1 DEF Edits, TypeOK
  <1>2. ASSUME NEW p \in Provider, NEW new \in Config, Edits(p, new),
               new.groups = file[p].groups
        PROVE  OwnedEvents(new) \subseteq OwnedEvents(file[p])
    BY <1>2 DEF OwnedEvents, OwnedAt
  <1>3. /\ UNCHANGED <<inst, delegate, lock, proc, ops>>
        /\ EditAllowed /\ edits' = edits + 1
        /\ edits' \in 0..MaxEdits
        /\ inline' \in BOOLEAN
        /\ binary' \in {"none", "runnable", "deleted"}
        /\ helper' \in {"none", "direct", "wrapper"}
        /\ mine' \in Line \cup {None}
        /\ done' \in [Part -> {"none", "installed", "uninstalled"}]
        /\ binary' # "none" \/ binary' = binary
    <2>1. EditAllowed /\ edits' = edits + 1
      BY DEF Edit, EditHooks, EditLine, EditForm, EditInline, DeleteBinary, DeleteHelper
    <2>2. edits' \in 0..MaxEdits
      BY <2>1, InstallerAssumption DEF EditAllowed, TypeOK
    <2> QED
      BY <2>1, <2>2 DEF TypeOK, Edit, EditHooks, EditLine, EditForm, EditInline,
                        DeleteBinary, DeleteHelper
  <1>4. /\ \A p \in Provider :
             /\ file'[p] \in Config
             /\ OwnedEvents(file'[p]) \subseteq OwnedEvents(file[p])
             /\ file'[p].form = "absent" => file'[p] = file[p]
        /\ file' \in [Provider -> Config]
    <2>1. ASSUME NEW p \in Provider, NEW e \in HookEvent, EditHooks(p, e)
          PROVE  <1>4!:
      BY <1>1, <2>1, HooksEdited
    <2>2. ASSUME NEW line \in Line \cup {None}, EditLine(line)
          PROVE  <1>4!:
      BY <1>1, <1>2, <2>2, LineEdited DEF Provider
    <2>3. ASSUME NEW p \in Provider, EditForm(p)
          PROVE  <1>4!:
      BY <1>1, <1>2, <2>3, FormEdited
    <2>4. CASE UNCHANGED file
      BY <2>4 DEF TypeOK
    <2> QED
      BY <2>1, <2>2, <2>3, <2>4 DEF Edit, EditInline, DeleteBinary, DeleteHelper
  <1> QED
    BY <1>3, <1>4 DEF TypeOK

LEMMA EditKeepsRunInv ==
  ASSUME RunInv, Edit
  PROVE  RunInv'
  <1>1. /\ UNCHANGED <<inst, lock, proc>> /\ TypeOK'
        /\ \A p \in Provider : /\ OwnedEvents(file'[p]) \subseteq OwnedEvents(file[p])
                               /\ file'[p].form = "absent" => file'[p] = file[p]
        /\ binary' # "none" \/ binary' = binary
    BY EditEffects DEF RunInv
  <1>2. OneOperation' /\ AbsentIsEmpty' /\ RecordedHooksRun'
    BY <1>1 DEF RunInv, OneOperation, AbsentIsEmpty, RecordedHooksRun
  <1>3. ASSUME NEW q \in Process
        PROVE  OperationRuns(q)'
    <2>1. proc[q].provider \in Provider /\ UNCHANGED proc[q]
      BY <1>1 DEF RunInv, TypeOK, Work
    <2> QED
      BY <1>1, <2>1 DEF RunInv, OperationRuns, HasRead, HasBinary, HasWritten,
                        ReadIsSound, ReadHooksRun
  <1> QED
    BY <1>1, <1>2, <1>3 DEF RunInv

LEMMA InstallerInit == Init => RunInv
  <1> SUFFICES ASSUME Init PROVE RunInv
    OBVIOUS
  <1>1. NoConfig \in Config
    BY Idling DEF Idle, Work
  <1>2. \A q \in Process : proc[q] = Idle /\ proc[q].op = None
    BY Idling DEF Init
  <1>3. TypeOK
    <2>1. proc \in [Process -> Work]
      BY Idling DEF Init
    <2>2. inst \in [Provider -> ProviderState] /\ file \in [Provider -> Config]
      BY <1>1 DEF Init, ProviderState
    <2>3. 0 \in 0..MaxOps /\ 0 \in 0..MaxEdits
      BY InstallerAssumption
    <2> QED
      BY <1>2, <2>1, <2>2, <2>3 DEF Init, TypeOK
  <1>4. \A p \in Provider : inst[p].intent = "untouched" /\ file[p] = NoConfig
    BY DEF Init
  <1>5. \A q \in Process : OperationRuns(q)
    BY <1>2, InstallerAssumption DEF OperationRuns, HasRead, HasBinary, HasWritten, Putting, Op
  <1> QED
    BY <1>2, <1>3, <1>4, <1>5 DEF RunInv, OneOperation, AbsentIsEmpty, RecordedHooksRun

LEMMA InstallerNext == RunInv /\ [Next]_vars => RunInv'
  <1> SUFFICES ASSUME RunInv, [Next]_vars PROVE RunInv'
    OBVIOUS
  <1>1. ASSUME NEW q \in Process, Step(q) PROVE RunInv'
    BY <1>1, WritesKeepRunInv, ReadingKeepsRunInv DEF Step, Writes
  <1>2. CASE UNCHANGED vars
    BY <1>2 DEF vars, files, RunInv, TypeOK, OneOperation, AbsentIsEmpty, RecordedHooksRun,
                OperationRuns, HasRead, HasBinary, HasWritten, ReadIsSound, ReadHooksRun
  <1> QED
    BY <1>1, <1>2, BeginKeepsRunInv, EditKeepsRunInv DEF Next

LEMMA RunInvHolds == Spec => []RunInv
  BY InstallerInit, InstallerNext, PTL DEF Spec

\* Every file, report and operation has its type, at every moment.
THEOREM InstallerTypeCorrect == Spec => []TypeOK
  <1>1. RunInv => TypeOK
    BY DEF RunInv
  <1> QED
    BY <1>1, RunInvHolds, PTL

\* Hooks recorded as installed and configured have a binary to run unless
\* something else deleted it: uninstalling the other provider or the status
\* line never takes it away, wherever the operation is cut off and whatever
\* the user edits meanwhile (clean before save_state in uninstall,
\* installer/src/lib.rs).
THEOREM RecordedHooksAlwaysRun == Spec => []RecordedHooksRun
  <1>1. RunInv => RecordedHooksRun
    BY DEF RunInv
  <1> QED
    BY <1>1, RunInvHolds, PTL

-----------------------------------------------------------------------------
(* DoneInv is inductive when the user edits between operations *)

\* What PutConfig makes of the configuration it found, which is the one read.
LEMMA ConfigEffect ==
  ASSUME DoneInv, NEW q \in Process, PutConfig(q),
         NEW op, op = proc[q].op, NEW p, p = proc[q].provider,
         NEW old, old = file[p], NEW new, new = file'[p]
  PROVE  /\ op \in Op /\ p \in Provider /\ proc[q].read = old /\ old \in Config
         /\ \A r \in Provider \ {p} : file'[r] = file[r]
         /\ new.form # "malformed" /\ (old.form = "valid" => new.form = "valid")
         /\ op \in {"install", "repair"} =>
              new.form = "valid" /\ Exact(new, p, proc[q].enhanced)
         /\ op \notin LineOps => new.line = old.line /\ new.saved = old.saved
         /\ op \in LineOps => new.groups = old.groups
         /\ op = "line_install" =>
              /\ new.form = "valid" /\ new.line = Managed /\ new.saved = old.saved
              /\ old.line \in {None, Managed}
         /\ op = "line_wrap" =>
              /\ new.form = "valid" /\ new.line = Managed /\ new.saved = old.line
              /\ old.line \in Line
         /\ op = "line_uninstall" =>
              /\ new.line = IF old.line = Managed THEN old.saved ELSE old.line
              /\ new.saved = IF old.line = Managed THEN None ELSE old.saved
         /\ UserGroups(new) = UserGroups(old)
  <1> DEFINE next == Updated(op, old, p, proc[q].enhanced)
  <1>1. RunInv /\ TypeOK /\ proc[q] \in Work
    BY DEF DoneInv, RunInv, TypeOK
  <1>2. /\ op \in Op /\ p \in Provider /\ ReadIsSound(q)
        /\ \A r \in Provider \ {p} : file'[r] = file[r]
    BY <1>1, ConfigWritten
  <1>3. proc[q].read = old
    BY <1>1, AtStep DEF PutConfig, DoneInv, OperationHolds
  <1>4. new = IF Changes(q) THEN next ELSE old
    BY <1>1, <1>3, ConfigWritten
  <1>5. /\ old \in Config /\ proc[q].enhanced \in BOOLEAN
        /\ old.form # "malformed" /\ (old.form = "absent" => old = NoConfig)
        /\ MayTakeLine(op, old)
    BY <1>1, <1>2, <1>3 DEF ReadIsSound, TypeOK, Work
  <1>6. old.form \in {"absent", "valid"}
    BY <1>5 DEF Config
  <1>7. old.line \in Line => old.form = "valid"
    BY <1>5, <1>6, InstallerAssumption DEF NoConfig
  <1>8. ~Changes(q) => next = old \/ (Outcome(op) = "uninstalled" /\ old = NoConfig)
    BY <1>3, <1>5, <1>6 DEF Changes
  <1>9. op = "line_wrap" => old.line \in Line
    BY <1>5 DEF MayTakeLine
  <1>10. op = "line_install" => old.line \in {None, Managed}
    BY <1>5 DEF MayTakeLine
  <1> HIDE DEF next
  <1>11. CASE new = next
    <2>1. /\ UserGroups(new) = UserGroups(old)
          /\ op \notin LineOps => new.line = old.line /\ new.saved = old.saved
          /\ op \in LineOps => new.groups = old.groups
          /\ op \in {"install", "repair"} =>
               new.form = "valid" /\ Exact(new, p, proc[q].enhanced)
          /\ op = "uninstall" => new.form = old.form
          /\ op = "line_install" =>
               new.form = "valid" /\ new.line = Managed /\ new.saved = old.saved
          /\ op = "line_wrap" =>
               new.form = old.form /\ new.line = Managed /\ new.saved = old.line
          /\ op = "line_uninstall" =>
               /\ new.form = old.form
               /\ new.line = IF old.line = Managed THEN old.saved ELSE old.line
               /\ new.saved = IF old.line = Managed THEN None ELSE old.saved
      BY <1>2, <1>5, <1>11, UpdatedConfig DEF next
    <2>2. new.form # "malformed" /\ (old.form = "valid" => new.form = "valid")
      BY <1>2, <1>5, <2>1 DEF Op
    <2> QED
      BY <1>2, <1>3, <1>5, <1>7, <1>9, <1>10, <2>1, <2>2
  <1>12. CASE new = old /\ Outcome(op) = "uninstalled" /\ old = NoConfig
    <2>1. op \in {"uninstall", "line_uninstall"} /\ op \notin {"install", "repair"}
          /\ op # "line_install" /\ op # "line_wrap"
      BY <1>12 DEF Outcome
    <2>2. old.line = None /\ old.line # Managed
      BY <1>12, InstallerAssumption DEF NoConfig
    <2> QED
      BY <1>2, <1>3, <1>5, <1>12, <2>1, <2>2
  <1> QED
    BY <1>4, <1>8, <1>11, <1>12

LEMMA DoneHolds == HooksDone /\ LineDone => CompletedHolds
  <1> SUFFICES ASSUME HooksDone, LineDone PROVE CompletedHolds
    OBVIOUS
  <1>1. ASSUME NEW p \in Provider, done[p] = "installed"
        PROVE  ShownStatus(p) \in {"installed", "inline_conflict"}
    BY <1>1 DEF HooksDone, MatchesManifest, ShownStatus
  <1>2. ASSUME NEW p \in Provider, OwnedEvents(file[p]) = {}
        PROVE  ~MatchesManifest(p)
    <2>1. "base" \in Desired(p, inst[p].enhanced) /\ "base" \in HookEvent
      BY DEF Desired, HookEvent
    <2>2. OwnedAt(file[p], "base") = {}
      BY <1>2, <2>1 DEF OwnedEvents
    <2> QED
      BY <2>1, <2>2 DEF MatchesManifest, Exact
  <1>3. ASSUME NEW p \in Provider, done[p] = "uninstalled"
        PROVE  ShownStatus(p) \in {"not_installed", "inline_conflict"}
    BY <1>2, <1>3 DEF HooksDone, ShownStatus
  <1> QED
    BY <1>1, <1>3 DEF HooksDone, LineDone, CompletedHolds

\* The steps that a position names.
LEMMA Positions ==
  ASSUME TypeOK, NEW q \in Process, proc[q].op # None,
         NEW op, op = proc[q].op, NEW at, at = proc[q].at
  PROVE  /\ op \in Op /\ at \in 1..6
         /\ At(q, "config") <=> at = ConfigAt(op)
         /\ At(q, "binary") <=> op \in Putting /\ at = BinaryAt(op)
         /\ At(q, "delegate") <=> op = "line_wrap" /\ at = 4
         /\ At(q, "helper") <=>
              (op = "line_install" /\ at = 4) \/ (op = "line_wrap" /\ at = 5)
         /\ At(q, "read") <=> at = ReadAt(op)
  <1>1. op \in Op /\ at \in 1..LastAt(op) /\ at \in 1..6
    BY StepPositions DEF TypeOK, Work
  <1>2. \A step : At(q, step) <=> Steps(op)[at] = step
    BY DEF At, StepOf
  <1> QED
    BY <1>1, <1>2, StepPositions

LEMMA NoneHolds ==
  ASSUME RunInv, NEW q \in Process, proc[q].op = None
  PROVE  OperationHolds(q)
  BY InstallerAssumption
     DEF OperationHolds, HasRead, HasBinary, HasWritten, HasHelper, Putting, Op

\* A step that writes leaves what its operation goes on with.
LEMMA WritesHold ==
  ASSUME DoneInv, NEW q \in Process, Writes(q)
  PROVE  \A r \in Process : OperationHolds(r)'
  <1> DEFINE work == proc[q]
             op == proc[q].op
             at == proc[q].at
             p == proc[q].provider
  <1>1. /\ RunInv /\ TypeOK /\ op # None /\ op \in Op /\ at \in Nat /\ p \in Provider
        /\ Advances(q, work.state, work.read) /\ HasRead(q) /\ ReadIsSound(q)
        /\ OperationHolds(q)
    <2>1. RunInv /\ TypeOK /\ op # None /\ Advances(q, work.state, work.read)
      BY StepsAdvance DEF DoneInv, RunInv
    <2>2. HasRead(q)
      BY <2>1, AtStep DEF Writes, PutBinary, PutDelegate, PutHelper, PutConfig,
                          RemoveHelper, RemoveDelegate, Clean, PutState
    <2>3. OperationRuns(q) /\ OperationHolds(q)
      BY DEF DoneInv, RunInv
    <2>4. work \in Work /\ op \in Op /\ at \in Nat /\ p \in Provider
      BY <2>1 DEF TypeOK, Work
    <2> QED
      BY <2>1, <2>2, <2>3, <2>4 DEF OperationRuns
  <1>2. RunInv'
    BY <1>1, WritesKeepRunInv
  <1>3. ASSUME NEW r \in Process, proc'[r].op = None
        PROVE  OperationHolds(r)'
    BY <1>2, <1>3, InstallerAssumption
       DEF OperationHolds, HasRead, HasBinary, HasWritten, HasHelper, Putting, Op
  <1>4. ASSUME proc'[q].op # None
        PROVE  OperationHolds(q)'
    <2>1. /\ UNCHANGED <<lock, done>>
          /\ proc'[q].op = op /\ proc'[q].at = at + 1
          /\ proc'[q].provider = p /\ proc'[q].enhanced = work.enhanced
          /\ proc'[q].read = work.read
          /\ HasRead(q)' <=> HasRead(q) \/ at = ReadAt(op)
          /\ HasBinary(q)' <=> \/ HasBinary(q)
                               \/ op \in Putting /\ at = BinaryAt(op)
          /\ HasWritten(q)' <=> HasWritten(q) \/ at = ConfigAt(op)
          /\ \A r \in Process \ {q} : proc'[r].op = None
      BY <1>1, <1>4, Moved, Returned
    <2>2. done'[PartOf(q)'] = "none"
      BY <1>1, <2>1 DEF OperationHolds, PartOf
    <2>3. ASSUME ~PutConfig(q)
          PROVE  UNCHANGED file /\ at # ConfigAt(op)
      <3>1. UNCHANGED file /\ ~At(q, "config")
        BY <2>3 DEF Writes, PutBinary, PutDelegate, PutHelper,
                    RemoveHelper, RemoveDelegate, Clean, PutState, At
      <3> QED
        BY <1>1, <3>1, Positions
    <2>4. ASSUME ~HasWritten(q)'
          PROVE  proc'[q].read = file'[p]
      <3>1. at # ConfigAt(op) /\ ~HasWritten(q)
        BY <2>1, <2>4
      <3>2. ~PutConfig(q)
        BY <1>1, <3>1, Positions DEF PutConfig
      <3> QED
        BY <1>1, <2>1, <2>3, <3>1, <3>2 DEF OperationHolds
    <2>5. ASSUME HasWritten(q)'
          PROVE  Effect(q)'
      <3>1. CASE PutConfig(q)
        <4>1. /\ file'[p].form # "malformed"
              /\ op \in {"install", "repair"} =>
                   file'[p].form = "valid" /\ Exact(file'[p], p, work.enhanced)
              /\ op \in {"line_install", "line_wrap"} =>
                   file'[p].form = "valid" /\ file'[p].line = Managed
              /\ op = "line_uninstall" =>
                   /\ file'[p].line = IF work.read.line = Managed
                                      THEN work.read.saved ELSE work.read.line
                   /\ file'[p].saved = IF work.read.line = Managed
                                       THEN None ELSE work.read.saved
          BY <3>1, ConfigEffect
        <4>2. work.read.saved # Managed
          BY <1>1, InstallerAssumption DEF TypeOK, Work, Config
        <4> QED
          BY <2>1, <4>1, <4>2 DEF Effect, OwnedLine
      <3>2. CASE ~PutConfig(q)
        <4>1. UNCHANGED file /\ Effect(q)
          BY <1>1, <2>1, <2>3, <2>5, <3>2 DEF OperationHolds
        <4> QED
          BY <2>1, <4>1 DEF Effect, OwnedLine
      <3> QED
        BY <3>1, <3>2
    <2>6. ASSUME HasBinary(q)'
          PROVE  binary' = "runnable"
      <3>1. op \in Putting
        BY <2>1, <2>6 DEF HasBinary
      <3>2. PutBinary(q) \/ (binary' = binary /\ ~At(q, "binary"))
        BY <1>1, <3>1, AtStep DEF Writes, PutDelegate, PutHelper, PutConfig,
                    RemoveHelper, RemoveDelegate, PutState, Clean, At, Putting
      <3>3. CASE binary' = binary /\ ~At(q, "binary")
        BY <1>1, <2>1, <2>6, <3>1, <3>3, Positions DEF OperationHolds
      <3> QED
        BY <3>2, <3>3 DEF PutBinary
    <2>7. ASSUME HasHelper(q)'
          PROVE  helper' # "none"
      <3>1. \/ op = "line_install" /\ at + 1 > 4
            \/ op = "line_wrap" /\ at + 1 > 5
        BY <2>1, <2>7 DEF HasHelper
      <3>2. PutHelper(q) \/ (helper' = helper /\ ~At(q, "helper"))
        BY <1>1, <3>1, AtStep DEF Writes, PutDelegate, PutBinary, PutConfig,
                    RemoveHelper, RemoveDelegate, PutState, Clean, At
      <3>3. CASE helper' = helper /\ ~At(q, "helper")
        <4>1. HasHelper(q)
          BY <1>1, <3>1, <3>3, Positions DEF HasHelper
        <4> QED
          BY <1>1, <3>3, <4>1 DEF OperationHolds
      <3>4. PutHelper(q) => helper' \in {"wrapper", "direct"}
        BY DEF PutHelper
      <3> QED
        BY <3>2, <3>3, <3>4
    <2>8. ASSUME op = "line_wrap", at + 1 > 4
          PROVE  delegate' # None
      <3>1. work.read.line # None
        BY <1>1, <2>8, InstallerAssumption DEF ReadIsSound, MayTakeLine
      <3>2. PutDelegate(q) \/ (delegate' = delegate /\ ~At(q, "delegate"))
        BY <1>1, <2>8, AtStep DEF Writes, PutHelper, PutBinary, PutConfig,
                    RemoveHelper, RemoveDelegate, PutState, Clean, At
      <3>3. CASE delegate' = delegate /\ ~At(q, "delegate")
        <4>1. at > 4
          BY <1>1, <2>8, <3>3, Positions
        <4> QED
          BY <1>1, <2>8, <3>3, <4>1 DEF OperationHolds
      <3> QED
        BY <3>1, <3>2, <3>3 DEF PutDelegate
    <2>9. proc'[q].op = "line_wrap" /\ proc'[q].at > 4 => delegate' # None
      BY <2>1, <2>8
    <2>10. HasRead(q)' /\ ~HasWritten(q)' => proc'[q].read = file'[proc'[q].provider]
      BY <2>1, <2>4
    <2> QED
      BY <2>2, <2>5, <2>6, <2>7, <2>9, <2>10 DEF OperationHolds
  <1>5. \A r \in Process \ {q} : proc'[r].op = None
    BY <1>1, Moved, Returned
  <1> QED
    BY <1>3, <1>4, <1>5

\* The report of an operation that goes on stays "none".
LEMMA WritesReport ==
  ASSUME DoneInv, NEW q \in Process, Writes(q),
         NEW op, op = proc[q].op, NEW p, p = proc[q].provider
  PROVE  /\ op \in Op /\ p \in Provider /\ RunInv /\ TypeOK /\ PartOf(q) \in Part
         /\ OperationRuns(q) /\ OperationHolds(q) /\ done[PartOf(q)] = "none"
         /\ op \in LineOps => p = "claude"
         /\ PartOf(q) = IF op \in LineOps THEN "line" ELSE p
         /\ \A part \in Part \ {PartOf(q)} : done'[part] = done[part]
         /\ \/ done'[PartOf(q)] = "none"
            \/ /\ done'[PartOf(q)] = Outcome(op)
               /\ proc[q].at = LastAt(op)
         /\ mine' = mine
  <1>1. RunInv /\ TypeOK /\ op # None /\ Advances(q, proc[q].state, proc[q].read)
    BY StepsAdvance DEF DoneInv, RunInv
  <1>2. /\ op \in Op /\ p \in Provider /\ PartOf(q) \in Part
        /\ PartOf(q) = IF op \in LineOps THEN "line" ELSE p
    BY <1>1 DEF TypeOK, Work, PartOf, Part
  <1>3. OperationHolds(q) /\ OperationRuns(q) /\ (op \in LineOps => p = "claude")
    BY <1>1 DEF DoneInv, RunInv, OneOperation
  <1>4. done[PartOf(q)] = "none"
    BY <1>1, <1>3 DEF OperationHolds
  <1>5. mine' = mine
    BY DEF Writes, PutBinary, PutDelegate, PutHelper, PutConfig,
           RemoveHelper, RemoveDelegate, Clean, PutState
  <1>6. \/ done' = done
        \/ /\ proc[q].at = LastAt(op)
           /\ done' = [done EXCEPT ![PartOf(q)] = Outcome(op)]
    BY <1>1, Moved DEF Return
  <1>7. /\ \A part \in Part \ {PartOf(q)} : done'[part] = done[part]
        /\ \/ done'[PartOf(q)] = "none"
           \/ done'[PartOf(q)] = Outcome(op) /\ proc[q].at = LastAt(op)
    BY <1>1, <1>2, <1>4, <1>6 DEF TypeOK
  <1> QED
    BY <1>1, <1>2, <1>3, <1>4, <1>5, <1>7

\* A saved line is the delegate's, and the line the user chose is kept.
LEMMA WritesKeepLine ==
  ASSUME DoneInv, NEW q \in Process, Writes(q)
  PROVE  SavedHasDelegate' /\ UserLineKept'
  <1> DEFINE op == proc[q].op
             p == proc[q].provider
  <1>1. /\ op \in Op /\ p \in Provider /\ RunInv /\ TypeOK
        /\ OperationRuns(q) /\ OperationHolds(q)
        /\ op \in LineOps => p = "claude"
        /\ mine' = mine
        /\ SavedHasDelegate /\ UserLineKept
        /\ mine # Managed
    BY WritesReport, InstallerAssumption DEF DoneInv, TypeOK
  <1>2. CASE PutConfig(q)
    <2>1. UNCHANGED delegate
      BY <1>2 DEF PutConfig
    <2>2. p # "claude" => file'["claude"] = file["claude"]
      BY <1>1, <1>2, ConfigEffect DEF Provider
    <2>3. CASE p = "claude"
      <3> DEFINE old == file["claude"]
                 new == file'["claude"]
      <3>1. /\ op \notin LineOps => new.line = old.line /\ new.saved = old.saved
            /\ op = "line_install" =>
                 /\ new.line = Managed /\ new.saved = old.saved
                 /\ old.line \in {None, Managed}
            /\ op = "line_wrap" =>
                 /\ new.line = Managed /\ new.saved = old.line /\ old.line \in Line
            /\ op = "line_uninstall" =>
                 /\ new.line = IF old.line = Managed THEN old.saved ELSE old.line
                 /\ new.saved = IF old.line = Managed THEN None ELSE old.saved
        BY <1>2, <2>3, ConfigEffect
      <3>2. op = "line_wrap" => delegate # None
        <4>1. op = "line_wrap" => proc[q].at > 4
          BY <1>1, <1>2, AtStep DEF PutConfig, ConfigAt
        <4> QED
          BY <1>1, <4>1 DEF OperationHolds
      <3>3. op \in LineOps => op \in {"line_install", "line_wrap", "line_uninstall"}
        BY DEF LineOps
      <3> HIDE DEF op, old, new
      <3>4. SavedHasDelegate'
        BY <1>1, <2>1, <3>1, <3>2, <3>3 DEF SavedHasDelegate, old, new
      <3>5. UserLineKept'
        BY <1>1, <3>1, <3>3, InstallerAssumption DEF UserLineKept, old, new
      <3> QED
        BY <3>4, <3>5
    <2> QED
      BY <1>1, <2>1, <2>2, <2>3 DEF SavedHasDelegate, UserLineKept
  <1>3. CASE PutDelegate(q)
    <2>1. HasRead(q) /\ op = "line_wrap"
      BY <1>1, <1>3, AtStep DEF PutDelegate
    <2>2. delegate' # None
      BY <1>1, <1>3, <2>1, InstallerAssumption
         DEF PutDelegate, OperationRuns, ReadIsSound, MayTakeLine
    <2> QED
      BY <1>1, <1>3, <2>2 DEF PutDelegate, SavedHasDelegate, UserLineKept
  <1>4. CASE RemoveDelegate(q)
    <2>1. op = "line_uninstall" /\ HasWritten(q)
      BY <1>1, <1>4, AtStep DEF RemoveDelegate
    <2>2. p = "claude" /\ (OwnedLine(q) => file["claude"].saved = None)
      BY <1>1, <2>1 DEF OperationHolds, Effect, LineOps
    <2> QED
      BY <1>1, <1>4, <2>2 DEF RemoveDelegate, SavedHasDelegate, UserLineKept
  <1>5. CASE UNCHANGED <<file, delegate>>
    BY <1>1, <1>5 DEF SavedHasDelegate, UserLineKept
  <1> QED
    BY <1>2, <1>3, <1>4, <1>5 DEF Writes, PutBinary, PutHelper, RemoveHelper, Clean, PutState

LEMMA WritesKeepHooksDone ==
  ASSUME DoneInv, NEW q \in Process, Writes(q)
  PROVE  HooksDone'
  <1> DEFINE op == proc[q].op
             p == proc[q].provider
  <1>1. /\ op \in Op /\ p \in Provider /\ RunInv /\ TypeOK
        /\ OperationRuns(q) /\ OperationHolds(q)
        /\ op \in LineOps => p = "claude"
        /\ PartOf(q) = IF op \in LineOps THEN "line" ELSE p
        /\ done[PartOf(q)] = "none"
        /\ \A part \in Part \ {PartOf(q)} : done'[part] = done[part]
        /\ \/ done'[PartOf(q)] = "none"
           \/ done'[PartOf(q)] = Outcome(op) /\ proc[q].at = LastAt(op)
    BY WritesReport
  <1>2. HooksDone
    BY DEF DoneInv
  <1>3. Provider \subseteq Part /\ "line" \notin Provider
    BY DEF Part, Provider
  <1>4. op = "uninstall" \/ op \in {"install", "repair"} \/ op \in LineOps
    BY <1>1 DEF Op, LineOps
  <1>5. CASE PutState(q)
    <2>1. /\ op \in {"install", "repair", "uninstall"} /\ op \notin LineOps
          /\ HasRead(q) /\ HasWritten(q)
          /\ op # "uninstall" => HasBinary(q)
      BY <1>1, <1>5, AtStep DEF PutState, LineOps
    <2>2. proc[q].state = inst /\ UNCHANGED <<file, binary>> /\ inst' = Recorded(q)
      BY <1>1, <1>5, <2>1 DEF PutState, OperationRuns, ReadIsSound
    <2>3. /\ \A r \in Provider \ {p} : inst'[r] = inst[r]
          /\ op = "uninstall" => inst'[p].intent = "uninstalled"
          /\ op # "uninstall" =>
               inst'[p].intent = "installed" /\ inst'[p].enhanced = proc[q].enhanced
      BY <1>1, <2>1, <2>2 DEF Recorded, TypeOK
    <2>4. /\ op # "uninstall" => /\ binary = "runnable" /\ file[p].form = "valid"
                                 /\ Exact(file[p], p, proc[q].enhanced)
          /\ op = "uninstall" => OwnedEvents(file[p]) = {} /\ file[p].form # "malformed"
      BY <1>1, <2>1 DEF OperationRuns, OperationHolds, Effect
    <2>5. PartOf(q) = p /\ (done'[p] = "none" \/ done'[p] = Outcome(op))
      BY <1>1, <2>1
    <2>6. op = "uninstall" <=> Outcome(op) = "uninstalled"
      BY <2>1 DEF Outcome
    <2>7. Outcome(op) \in {"installed", "uninstalled"}
      BY DEF Outcome
    <2>8. ASSUME NEW r \in Provider
          PROVE  /\ done'[r] = "installed" =>
                      /\ inst'[r].intent = "installed" /\ binary' = "runnable"
                      /\ MatchesManifest(r)'
                 /\ done'[r] = "uninstalled" =>
                      /\ inst'[r].intent = "uninstalled" /\ OwnedEvents(file'[r]) = {}
                      /\ file'[r].form # "malformed"
      <3>1. CASE r = p
        <4>1. op # "uninstall" => MatchesManifest(r)'
          BY <2>2, <2>3, <2>4, <3>1 DEF MatchesManifest
        <4> HIDE DEF op, p
        <4> QED
          BY <2>2, <2>3, <2>4, <2>5, <2>6, <2>7, <3>1, <4>1
      <3>2. CASE r # p
        <4>1. done'[r] = done[r] /\ inst'[r] = inst[r] /\ UNCHANGED <<file, binary>>
          BY <1>1, <1>3, <2>2, <2>3, <2>5, <3>2
        <4>2. MatchesManifest(r)' <=> MatchesManifest(r)
          BY <4>1 DEF MatchesManifest
        <4> QED
          BY <1>2, <4>1, <4>2 DEF HooksDone
      <3> QED
        BY <3>1, <3>2
    <2> QED
      BY <2>8 DEF HooksDone
  <1>6. ASSUME ~PutState(q)
        PROVE  HooksDone'
    <2>1. UNCHANGED inst
      BY <1>6 DEF Writes, PutBinary, PutDelegate, PutHelper, PutConfig,
                  RemoveHelper, RemoveDelegate, Clean
    <2>2. op \in LineOps \/ (PartOf(q) = p /\ done'[p] = "none")
      <3>1. ASSUME op \notin LineOps, proc[q].at = LastAt(op)
            PROVE  FALSE
        <4>1. At(q, "state")
          BY <1>1, <1>4, <3>1, StepPositions, StepsAdvance
             DEF At, StepOf, TypeOK, Work, LastAt
        <4> QED
          BY <1>6, <4>1 DEF Writes, PutBinary, PutDelegate, PutHelper, PutConfig,
                            RemoveHelper, RemoveDelegate, Clean, At
      <3> QED
        BY <1>1, <3>1
    <2>3. ASSUME NEW r \in Provider, done'[r] # "none"
          PROVE  /\ done'[r] = done[r]
                 /\ op \notin LineOps => r # p
      BY <1>1, <1>3, <2>2, <2>3
    <2>4. ASSUME NEW r \in Provider, done'[r] # "none"
          PROVE  /\ OwnedEvents(file'[r]) = OwnedEvents(file[r])
                 /\ file[r].form # "malformed" => file'[r].form # "malformed"
                 /\ MatchesManifest(r) => MatchesManifest(r)'
      <3>1. CASE file'[r] = file[r]
        BY <2>1, <3>1 DEF MatchesManifest
      <3>2. CASE PutConfig(q) /\ r = p
        <4>1. op \in LineOps
          BY <2>3, <2>4, <3>2
        <4>2. /\ file'[r].groups = file[r].groups
              /\ file'[r].form # "malformed"
              /\ file[r].form = "valid" => file'[r].form = "valid"
          BY <3>2, <4>1, ConfigEffect
        <4> QED
          BY <2>1, <4>2 DEF MatchesManifest, Exact, OwnedEvents, OwnedAt
      <3>3. CASE PutConfig(q) /\ r # p
        BY <3>1, <3>3, ConfigEffect
      <3> QED
        BY <1>6, <3>1, <3>2, <3>3 DEF Writes, PutBinary, PutDelegate, PutHelper,
                                      RemoveHelper, RemoveDelegate, Clean
    <2>5. ASSUME NEW r \in Provider, done[r] = "installed", done'[r] = "installed"
          PROVE  binary' = "runnable"
      <3>1. binary = "runnable" /\ inst[r].intent = "installed"
        BY <1>2, <2>5 DEF HooksDone
      <3>2. CASE Clean(q)
        <4>1. Recorded(q)[r] = inst[r]
          <5>1. op \in {"uninstall", "line_uninstall"} /\ HasRead(q)
            BY <1>1, <3>2, AtStep DEF Clean
          <5>2. proc[q].state = inst
            BY <1>1, <5>1 DEF OperationRuns, ReadIsSound
          <5>3. op = "uninstall" => r # p
            BY <2>3, <2>5 DEF LineOps
          <5> QED
            BY <1>1, <5>1, <5>2, <5>3 DEF Recorded, TypeOK
        <4>2. ~Unneeded(q)
          BY <3>1, <4>1 DEF Unneeded
        <4> QED
          BY <3>1, <3>2, <4>2 DEF Clean
      <3>3. CASE ~Clean(q)
        BY <3>1, <3>3, <1>6 DEF Writes, PutBinary, PutDelegate, PutHelper, PutConfig,
                                RemoveHelper, RemoveDelegate
      <3> QED
        BY <3>2, <3>3
    <2> QED
      BY <1>2, <2>1, <2>3, <2>4, <2>5 DEF HooksDone
  <1> QED
    BY <1>5, <1>6

LEMMA WritesKeepLineDone ==
  ASSUME DoneInv, NEW q \in Process, Writes(q)
  PROVE  LineDone'
  <1> DEFINE op == proc[q].op
             p == proc[q].provider
  <1>1. /\ op \in Op /\ p \in Provider /\ RunInv /\ TypeOK
        /\ OperationRuns(q) /\ OperationHolds(q)
        /\ op \in LineOps => p = "claude"
        /\ PartOf(q) = IF op \in LineOps THEN "line" ELSE p
        /\ done[PartOf(q)] = "none"
        /\ \A part \in Part \ {PartOf(q)} : done'[part] = done[part]
        /\ \/ done'[PartOf(q)] = "none"
           \/ done'[PartOf(q)] = Outcome(op) /\ proc[q].at = LastAt(op)
    BY WritesReport
  <1>2. LineDone
    BY DEF DoneInv
  <1>3. CASE op \notin LineOps
    <2>1. done'["line"] = done["line"]
      BY <1>1, <1>3 DEF Part, Provider
    <2>2. /\ file'["claude"].line = file["claude"].line
          /\ file'["claude"].saved = file["claude"].saved
          /\ file["claude"].form = "valid" => file'["claude"].form = "valid"
      <3>1. CASE PutConfig(q)
        <4>1. p = "claude" \/ file'["claude"] = file["claude"]
          BY <3>1, ConfigEffect DEF Provider
        <4> QED
          BY <1>3, <3>1, <4>1, ConfigEffect
      <3> QED
        BY <3>1 DEF Writes, PutBinary, PutDelegate, PutHelper,
                    RemoveHelper, RemoveDelegate, Clean, PutState
    <2>3. UNCHANGED <<helper, delegate>>
      BY <1>1, <1>3, AtStep DEF Writes, PutBinary, PutDelegate, PutHelper, PutConfig,
                    RemoveHelper, RemoveDelegate, Clean, PutState, LineOps
    <2>4. StatuslineInstalled /\ binary = "runnable" => binary' = "runnable"
      <3>1. CASE Clean(q)
        <4>1. op = "uninstall"
          BY <1>1, <1>3, <3>1, AtStep DEF Clean, LineOps
        <4> QED
          BY <3>1, <4>1 DEF Clean, Unneeded
      <3> QED
        BY <3>1 DEF Writes, PutBinary, PutDelegate, PutHelper, PutConfig,
                    RemoveHelper, RemoveDelegate, PutState
    <2> QED
      BY <1>2, <2>1, <2>2, <2>3, <2>4 DEF LineDone, StatuslineInstalled
  <1>4. CASE op \in LineOps
    <2>1. /\ p = "claude" /\ PartOf(q) = "line"
          /\ \/ done'["line"] = "none"
             \/ done'["line"] = Outcome(op) /\ proc[q].at = LastAt(op)
      BY <1>1, <1>4
    <2>2. CASE op = "line_uninstall" /\ proc[q].at = LastAt(op)
      <3>1. Outcome(op) = "uninstalled"
        BY <2>2 DEF Outcome
      <3>2. HasWritten(q) /\ ~At(q, "config")
        BY <1>1, <2>2, Positions, InstallerAssumption DEF HasWritten, LastAt, ConfigAt
      <3>3. UNCHANGED file
        BY <3>2 DEF Writes, PutBinary, PutDelegate, PutHelper, PutConfig,
                    RemoveHelper, RemoveDelegate, Clean, PutState
      <3>4. file["claude"].line # Managed
        BY <1>1, <2>1, <2>2, <3>2 DEF OperationHolds, Effect
      <3> QED
        BY <2>1, <3>1, <3>3, <3>4 DEF LineDone
    <2>3. CASE op \in {"line_install", "line_wrap"} /\ proc[q].at = LastAt(op)
      <3>1. Outcome(op) = "installed"
        BY <2>3 DEF Outcome
      <3>2. At(q, "config") /\ HasHelper(q) /\ HasBinary(q)
        BY <1>1, <2>3, Positions, InstallerAssumption
           DEF HasHelper, HasBinary, LastAt, ConfigAt, BinaryAt, Putting
      <3>3. PutConfig(q)
        BY <3>2 DEF Writes, PutBinary, PutDelegate, PutHelper, At,
                    RemoveHelper, RemoveDelegate, Clean, PutState
      <3>4. file'["claude"].form = "valid" /\ file'["claude"].line = Managed
        BY <2>1, <2>3, <3>3, ConfigEffect
      <3>5. binary' = "runnable" /\ helper' # "none"
        BY <1>1, <3>2, <3>3 DEF OperationHolds, PutConfig
      <3>6. SavedHasDelegate'
        BY WritesKeepLine
      <3> QED
        BY <2>1, <3>1, <3>4, <3>5, <3>6 DEF LineDone, StatuslineInstalled, SavedHasDelegate
    <2>4. CASE done'["line"] = "none"
      BY <2>4 DEF LineDone
    <2> QED
      BY <1>4, <2>1, <2>2, <2>3, <2>4 DEF LineOps
  <1> QED
    BY <1>3, <1>4

LEMMA WritesKeepDone ==
  ASSUME DoneInv, NEW q \in Process, Writes(q)
  PROVE  DoneInv'
  BY WritesKeepRunInv, WritesHold, WritesKeepHooksDone, WritesKeepLineDone, WritesKeepLine
     DEF DoneInv

\* A report that an action does not change, or takes back, still holds when
\* the files it is about are the same.
LEMMA ReportsHold ==
  ASSUME HooksDone, LineDone, UNCHANGED <<file, inst, binary, helper, delegate>>,
         \A part \in Part : done'[part] \in {done[part], "none"}
  PROVE  HooksDone' /\ LineDone'
  <1>1. \A p \in Provider : MatchesManifest(p)' <=> MatchesManifest(p)
    BY DEF MatchesManifest
  <1>2. StatuslineInstalled' <=> StatuslineInstalled
    BY DEF StatuslineInstalled
  <1>3. \A part \in Provider \cup {"line"} : done'[part] # "none" => done'[part] = done[part]
    BY DEF Part
  <1>4. HooksDone'
    BY <1>1, <1>3 DEF HooksDone
  <1>5. LineDone'
    BY <1>2, <1>3 DEF LineDone
  <1> QED
    BY <1>4, <1>5

LEMMA ReadingKeepsDone ==
  ASSUME DoneInv, NEW q \in Process,
         CheckRepair(q) \/ Read(q) \/ Backup(q) \/ Interrupt(q)
  PROVE  DoneInv'
  <1> DEFINE work == proc[q]
             op == proc[q].op
             at == proc[q].at
             p == proc[q].provider
  <1>1. /\ RunInv /\ TypeOK /\ op # None /\ op \in Op /\ p \in Provider
        /\ OperationHolds(q) /\ PartOf(q) \in Part /\ done[PartOf(q)] = "none"
        /\ UNCHANGED <<file, inst, binary, helper, delegate, mine>>
    <2>1. RunInv /\ TypeOK /\ op # None /\ OperationHolds(q)
      BY StepsAdvance DEF DoneInv, RunInv, Interrupt
    <2>2. op \in Op /\ p \in Provider /\ PartOf(q) \in Part
      BY <2>1 DEF TypeOK, Work, PartOf, Part
    <2>3. UNCHANGED <<file, inst, binary, helper, delegate, mine>>
      BY DEF CheckRepair, Read, Backup, Interrupt, files
    <2> QED
      BY <2>1, <2>2, <2>3 DEF OperationHolds
  <1>2. RunInv'
    BY <1>1, ReadingKeepsRunInv
  <1>3. PICK state, read :
          /\ \/ Advances(q, state, read)
             \/ \E result \in {"none"} : Return(q, result)
          /\ Read(q) => Return(q, "none") \/ (~Refused(q) /\ state = inst /\ read = file[p])
          /\ ~Read(q) => state = work.state /\ read = work.read
    <2>1. CASE Read(q)
      BY <1>1, <2>1, StepsAdvance
    <2>2. CASE ~Read(q)
      BY <1>1, <2>2, StepsAdvance DEF Interrupt
    <2> QED
      BY <2>1, <2>2
  <1>4. ASSUME NEW part \in Part
        PROVE  done'[part] \in {done[part], "none"}
    <2>1. ASSUME NEW result \in {"none"}, Return(q, result)
          PROVE  done'[part] \in {done[part], "none"}
      BY <1>1, <2>1 DEF Return, TypeOK
    <2>2. CASE Advances(q, state, read) /\ ~Return(q, "none")
      <3>1. ~Interrupt(q)
        BY <2>2 DEF Interrupt
      <3>2. at # LastAt(op)
        <4>1. At(q, "check") \/ At(q, "read") \/ At(q, "backup")
          BY <3>1 DEF CheckRepair, Read, Backup
        <4>2. at \in 1..LastAt(op) /\ Steps(op)[at] \in {"check", "read", "backup"}
          BY <1>1, <4>1, StepPositions DEF At, StepOf, TypeOK
        <4>3. (op = "repair" /\ at = 1) \/ at = ReadAt(op) \/ at = ReadAt(op) + 1
          BY <1>1, <4>2, StepPositions
        <4> QED
          BY <4>3 DEF LastAt, ReadAt
      <3>3. done' = done
        BY <1>1, <2>2, <3>2, Moved
      <3> QED
        BY <3>3
    <2> QED
      BY <1>3, <2>1, <2>2
  <1>5. ASSUME proc'[q].op # None
        PROVE  OperationHolds(q)'
    <2>1. /\ ~Return(q, "none") /\ Advances(q, state, read) /\ done' = done
          /\ proc'[q].op = op /\ proc'[q].at = at + 1
          /\ proc'[q].provider = p /\ proc'[q].read = read
          /\ HasRead(q)' <=> HasRead(q) \/ at = ReadAt(op)
          /\ HasBinary(q)' <=> \/ HasBinary(q)
                               \/ op \in Putting /\ at = BinaryAt(op)
          /\ HasWritten(q)' <=> HasWritten(q) \/ at = ConfigAt(op)
      BY <1>1, <1>3, <1>5, Moved, Returned
    <2>2. done'[PartOf(q)'] = "none"
      BY <1>1, <2>1 DEF PartOf
    <2>3. /\ ~HasBinary(q)' /\ ~HasWritten(q)'
          /\ ~HasHelper(q)'
          /\ ~(op = "line_wrap" /\ at + 1 > 4)
      <3>1. At(q, "check") \/ At(q, "read") \/ At(q, "backup")
        BY <2>1 DEF CheckRepair, Read, Backup, Interrupt
      <3>2. at \in 1..LastAt(op) /\ Steps(op)[at] \in {"check", "read", "backup"}
        BY <1>1, <3>1, StepPositions DEF At, StepOf, TypeOK
      <3>3. at \in Nat /\ (op \in {"line_install", "line_wrap"} => at < 3)
        BY <1>1, <3>2, StepPositions DEF ReadAt
      <3> QED
        BY <1>1, <2>1, <3>1, <3>3, AtStep DEF HasHelper
    <2>4. HasRead(q)' => read = file[p]
      <3>1. CASE Read(q)
        BY <1>3, <2>1, <3>1
      <3>2. CASE Backup(q) /\ ~Read(q)
        BY <1>1, <1>3, <3>2, AtStep DEF Backup, OperationHolds
      <3>3. CASE CheckRepair(q)
        BY <1>1, <2>1, <3>3, AtStep DEF CheckRepair
      <3> QED
        BY <2>1, <3>1, <3>2, <3>3 DEF Interrupt
    <2> QED
      BY <1>1, <2>1, <2>2, <2>3, <2>4 DEF OperationHolds
  <1>6. \A r \in Process \ {q} : proc'[r].op = None
    BY <1>1, <1>3, Moved, Returned
  <1>7. ASSUME NEW r \in Process, proc'[r].op = None
        PROVE  OperationHolds(r)'
    BY <1>2, <1>7, InstallerAssumption
       DEF OperationHolds, HasRead, HasBinary, HasWritten, HasHelper, Putting, Op
  <1>8. HooksDone' /\ LineDone'
    BY <1>1, <1>4, ReportsHold DEF DoneInv
  <1>9. SavedHasDelegate' /\ UserLineKept'
    BY <1>1 DEF DoneInv, SavedHasDelegate, UserLineKept
  <1> QED
    BY <1>2, <1>5, <1>6, <1>7, <1>8, <1>9 DEF DoneInv

LEMMA BeginKeepsDone ==
  ASSUME DoneInv, NEW q \in Process, NEW op \in Op, NEW p \in Provider, NEW e \in BOOLEAN,
         Begin(q, op, p, e)
  PROVE  DoneInv'
  <1>1. RunInv /\ TypeOK /\ RunInv'
    BY BeginKeepsRunInv DEF DoneInv, RunInv
  <1>2. PICK new \in Work :
          /\ proc' = [proc EXCEPT ![q] = new]
          /\ new.op = op /\ new.provider = p /\ new.at = 1 /\ lock = None
    BY <1>1, Begins
  <1>3. proc'[q] = new /\ \A r \in Process \ {q} : proc'[r].op = None
    BY <1>1, <1>2, InstallerAssumption DEF RunInv, OneOperation, TypeOK
  <1> DEFINE part == IF op \in LineOps THEN "line" ELSE p
  <1>4. /\ done' = [done EXCEPT ![part] = "none"] /\ part \in Part
        /\ UNCHANGED <<file, inst, binary, helper, delegate, mine>>
    BY DEF Begin, files, Part
  <1>5. done'[part] = "none" /\ \A other \in Part : done'[other] \in {done[other], "none"}
    BY <1>1, <1>4 DEF TypeOK
  <1>6. ASSUME NEW r \in Process, r # q
        PROVE  OperationHolds(r)'
    BY <1>3, <1>6, InstallerAssumption
       DEF OperationHolds, HasRead, HasBinary, HasWritten, HasHelper, Putting, Op
  <1>7. OperationHolds(q)'
    <2>1. PartOf(q)' = part
      BY <1>2, <1>3 DEF PartOf
    <2>2. ~HasRead(q)' /\ ~HasBinary(q)' /\ ~HasWritten(q)' /\ ~HasHelper(q)'
      BY <1>2, <1>3 DEF HasRead, HasBinary, HasWritten, HasHelper,
                        ReadAt, BinaryAt, ConfigAt
    <2> QED
      BY <1>2, <1>3, <1>5, <2>1, <2>2 DEF OperationHolds
  <1>8. HooksDone' /\ LineDone'
    BY <1>4, <1>5, ReportsHold DEF DoneInv
  <1>9. SavedHasDelegate' /\ UserLineKept'
    BY <1>4 DEF DoneInv, SavedHasDelegate, UserLineKept
  <1> QED
    BY <1>1, <1>6, <1>7, <1>8, <1>9 DEF DoneInv

\* An edit takes back the reports of what it touches.
LEMMA EditReports ==
  ASSUME DoneInv, Edit
  PROVE  HooksDone' /\ LineDone'
  <1>1. TypeOK /\ HooksDone /\ LineDone /\ file \in [Provider -> Config]
        /\ done \in [Part -> {"none", "installed", "uninstalled"}]
    BY DEF DoneInv, RunInv, TypeOK
  <1>2. UNCHANGED <<inst, delegate>>
    BY <1>1, EditEffects
  <1>3. ASSUME NEW p \in Provider, NEW e \in HookEvent, EditHooks(p, e)
        PROVE  HooksDone' /\ LineDone'
    <2>1. PICK new \in Config :
            /\ Edits(p, new) /\ new.form = "valid"
            /\ new.line = file[p].line /\ new.saved = file[p].saved
      BY <1>1, <1>3, HooksEdited
    <2>2. /\ UNCHANGED <<binary, helper>>
          /\ done' = [done EXCEPT ![p] = "none"]
      BY <1>3 DEF EditHooks
    <2>3. /\ file'[p] = new /\ \A r \in Provider \ {p} : file'[r] = file[r]
          /\ done'[p] = "none" /\ \A part \in Part \ {p} : done'[part] = done[part]
          /\ p # "line"
      BY <1>1, <2>1, <2>2 DEF Edits, Part, Provider
    <2>4. HooksDone'
      <3>1. \A r \in Provider \ {p} : MatchesManifest(r)' <=> MatchesManifest(r)
        BY <1>2, <2>3 DEF MatchesManifest
      <3>2. \A r \in Provider \ {p} : done'[r] = done[r]
        BY <2>3 DEF Part
      <3> QED
        BY <1>1, <1>2, <2>2, <2>3, <3>1, <3>2 DEF HooksDone
    <2>5. LineDone'
      <3>1. /\ file'["claude"].line = file["claude"].line
            /\ file'["claude"].saved = file["claude"].saved
            /\ file["claude"].form = "valid" => file'["claude"].form = "valid"
        BY <2>1, <2>3 DEF Provider
      <3>2. done'["line"] = done["line"]
        BY <2>3 DEF Part
      <3> QED
        BY <1>1, <1>2, <2>2, <3>1, <3>2 DEF LineDone, StatuslineInstalled
    <2> QED
      BY <2>4, <2>5
  <1>4. ASSUME NEW line \in Line \cup {None}, EditLine(line)
        PROVE  HooksDone' /\ LineDone'
    <2>1. PICK new \in Config :
            Edits("claude", new) /\ new.form = "valid" /\ new.groups = file["claude"].groups
      BY <1>1, <1>4, LineEdited
    <2>2. /\ UNCHANGED <<binary, helper>>
          /\ done' = [done EXCEPT !["line"] = "none"]
      BY <1>4 DEF EditLine
    <2>3. /\ file'["claude"] = new /\ \A r \in Provider \ {"claude"} : file'[r] = file[r]
          /\ done'["line"] = "none" /\ \A r \in Provider : done'[r] = done[r]
      BY <1>1, <2>1, <2>2 DEF Edits, Part, Provider
    <2>4. ASSUME NEW r \in Provider
          PROVE  /\ MatchesManifest(r) => MatchesManifest(r)'
                 /\ OwnedEvents(file'[r]) = OwnedEvents(file[r])
                 /\ file[r].form # "malformed" => file'[r].form # "malformed"
      <3>1. file'[r].groups = file[r].groups /\ (file'[r].form = "valid" \/ file'[r] = file[r])
        BY <2>1, <2>3
      <3> QED
        BY <1>2, <3>1 DEF MatchesManifest, Exact, OwnedEvents, OwnedAt
    <2> QED
      BY <1>1, <1>2, <2>2, <2>3, <2>4 DEF HooksDone, LineDone
  <1>5. CASE DeleteHelper
    <2>1. /\ UNCHANGED <<file, binary>> /\ done' = [done EXCEPT !["line"] = "none"]
      BY <1>5 DEF DeleteHelper
    <2>2. done'["line"] = "none" /\ \A r \in Provider : done'[r] = done[r]
      BY <1>1, <2>1 DEF Part, Provider
    <2>3. \A r \in Provider : MatchesManifest(r)' <=> MatchesManifest(r)
      BY <1>2, <2>1 DEF MatchesManifest
    <2> QED
      BY <1>1, <1>2, <2>1, <2>2, <2>3 DEF HooksDone, LineDone
  <1>6. ASSUME \A part \in Part : done'[part] = "none"
        PROVE  HooksDone' /\ LineDone'
    BY <1>6 DEF HooksDone, LineDone, Part
  <1>7. CASE EditInline
    BY <1>1, <1>7, ReportsHold DEF EditInline
  <1>8. DeleteBinary \/ (\E p \in Provider : EditForm(p)) =>
          \A part \in Part : done'[part] = "none"
    BY DEF DeleteBinary, EditForm
  <1> QED
    BY <1>3, <1>4, <1>5, <1>6, <1>7, <1>8 DEF Edit

LEMMA EditKeepsDone ==
  ASSUME DoneInv, Edit, ~LateEdits
  PROVE  DoneInv'
  <1>1. RunInv /\ TypeOK /\ RunInv'
    BY EditKeepsRunInv DEF DoneInv, RunInv
  <1>2. EditAllowed /\ UNCHANGED <<delegate, proc>>
    BY <1>1, EditEffects
  <1>3. lock = None
    BY <1>2 DEF EditAllowed
  <1>4. \A q \in Process : proc'[q].op = None
    BY <1>1, <1>2, <1>3, InstallerAssumption DEF RunInv, OneOperation
  <1>5. \A q \in Process : OperationHolds(q)'
    BY <1>4, InstallerAssumption
       DEF OperationHolds, HasRead, HasBinary, HasWritten, HasHelper, Putting, Op
  <1>6. SavedHasDelegate' /\ UserLineKept'
    <2>1. ASSUME NEW p \in Provider, NEW new \in Config, Edits(p, new)
          PROVE  /\ file'[p] = new /\ \A r \in Provider \ {p} : file'[r] = file[r]
                 /\ "claude" \in Provider
      BY <1>1, <2>1 DEF Edits, TypeOK, Provider
    <2>2. SavedHasDelegate /\ UserLineKept
      BY DEF DoneInv
    <2>3. ASSUME file'["claude"].line = file["claude"].line, mine' = mine,
                 file'["claude"].saved = file["claude"].saved
          PROVE  SavedHasDelegate' /\ UserLineKept'
      BY <1>2, <2>2, <2>3 DEF SavedHasDelegate, UserLineKept
    <2>4. ASSUME NEW p \in Provider, NEW e \in HookEvent, EditHooks(p, e)
          PROVE  SavedHasDelegate' /\ UserLineKept'
      <3>1. mine' = mine
        BY <2>4 DEF EditHooks
      <3> QED
        BY <1>1, <2>1, <2>3, <2>4, <3>1, HooksEdited
    <2>5. ASSUME NEW line \in Line \cup {None}, EditLine(line)
          PROVE  SavedHasDelegate' /\ UserLineKept'
      <3>1. mine' = line
        BY <2>5 DEF EditLine
      <3>2. PICK new \in Config : /\ Edits("claude", new) /\ new.line = line
                                  /\ new.saved = file["claude"].saved
        BY <1>1, <2>5, LineEdited
      <3>3. file'["claude"] = new
        BY <2>1, <3>2 DEF Provider
      <3> QED
        BY <1>2, <2>2, <3>1, <3>2, <3>3 DEF SavedHasDelegate, UserLineKept
    <2>6. ASSUME NEW p \in Provider, EditForm(p)
          PROVE  SavedHasDelegate' /\ UserLineKept'
      <3>1. mine' = mine
        BY <2>6 DEF EditForm
      <3> QED
        BY <1>1, <2>1, <2>3, <2>6, <3>1, FormEdited
    <2>7. CASE UNCHANGED <<file, mine>>
      BY <2>3, <2>7
    <2> QED
      BY <2>4, <2>5, <2>6, <2>7 DEF Edit, EditInline, DeleteBinary, DeleteHelper
  <1> QED
    BY <1>1, <1>5, <1>6, EditReports DEF DoneInv

LEMMA DoneInit == Init => DoneInv
  <1> SUFFICES ASSUME Init PROVE DoneInv
    OBVIOUS
  <1>1. RunInv
    BY InstallerInit
  <1>2. \A q \in Process : proc[q].op = None
    BY Idling DEF Init
  <1>3. \A part \in Part : done[part] = "none"
    BY DEF Init
  <1>4. HooksDone /\ LineDone
    BY <1>3 DEF HooksDone, LineDone, Part
  <1>5. SavedHasDelegate /\ UserLineKept
    BY DEF Init, SavedHasDelegate, UserLineKept, NoConfig, Provider
  <1> QED
    BY <1>1, <1>2, <1>4, <1>5, NoneHolds DEF DoneInv

LEMMA DoneNext == DoneInv /\ [Next]_vars /\ ~LateEdits => DoneInv'
  <1> SUFFICES ASSUME DoneInv, [Next]_vars, ~LateEdits PROVE DoneInv'
    OBVIOUS
  <1>1. ASSUME NEW q \in Process, Step(q) PROVE DoneInv'
    BY <1>1, WritesKeepDone, ReadingKeepsDone DEF Step, Writes
  <1>2. CASE UNCHANGED vars
    <2>1. RunInv'
      BY <1>2, InstallerNext DEF DoneInv
    <2>2. UNCHANGED <<file, inst, binary, helper, delegate, done, proc, mine>>
      BY <1>2 DEF vars, files
    <2>3. HooksDone' /\ LineDone'
      BY <2>2, ReportsHold DEF DoneInv
    <2>4. \A q \in Process : OperationHolds(q)'
      BY <2>2 DEF DoneInv, OperationHolds, HasRead, HasWritten, HasBinary, HasHelper,
                  Effect, OwnedLine, PartOf
    <2> QED
      BY <2>1, <2>2, <2>3, <2>4 DEF DoneInv, SavedHasDelegate, UserLineKept
  <1> QED
    BY <1>1, <1>2, BeginKeepsDone, EditKeepsDone DEF Next

LEMMA DoneInvHolds ==
  ASSUME ~LateEdits
  PROVE  Spec => []DoneInv
  <1>1. Init => DoneInv
    BY DoneInit
  <1>2. DoneInv /\ [Next]_vars => DoneInv'
    BY DoneNext
  <1> QED
    BY <1>1, <1>2, PTL DEF Spec

\* What an operation reported as done stays true of the files until the user
\* changes it or another operation works on the same part, wherever the
\* operations on the other parts are cut off.  An edit while an operation
\* runs is overwritten by what the operation read (atomic_write_json of
\* installer/src/lib.rs compares nothing), hence the hypothesis.
THEOREM CompletedAlwaysHolds ==
  ASSUME ~LateEdits
  PROVE  Spec => []CompletedHolds
  <1>1. DoneInv => CompletedHolds
    BY DoneHolds DEF DoneInv
  <1> QED
    BY <1>1, DoneInvHolds, PTL

\* The status line the user chose last is configured, or saved beside the
\* managed one, whatever operations ran and were cut off since.
THEOREM UserLineIsKept ==
  ASSUME ~LateEdits
  PROVE  Spec => []UserLineKept
  <1>1. DoneInv => UserLineKept
    BY DEF DoneInv
  <1> QED
    BY <1>1, DoneInvHolds, PTL

\* Only the one write of an operation touches a configuration.
LEMMA OnlyConfigWrites ==
  ASSUME DoneInv, [Next]_vars, edits' = edits
  PROVE  UNCHANGED file \/ \E q \in Process : PutConfig(q)
  <1>1. edits \in Nat
    BY InstallerAssumption DEF DoneInv, RunInv, TypeOK
  <1>2. ~Edit
    BY <1>1, EditEffects DEF DoneInv, RunInv
  <1>3. CASE UNCHANGED vars
    BY <1>3 DEF vars, files
  <1> QED
    BY <1>2, <1>3 DEF Next, Step, Begin, CheckRepair, Read, Backup, PutBinary, PutDelegate,
                      PutHelper, RemoveHelper, RemoveDelegate, Clean, PutState, Interrupt,
                      files

\* No operation adds or takes away a handler of the user's own, whichever of
\* our entries it merges into the same file or strips from it
\* (merge_provider_hooks, strip_owned_hooks).
THEOREM UserHooksAreKept ==
  ASSUME ~LateEdits
  PROVE  Spec => UserHooksKept
  <1>1. ASSUME DoneInv, [Next]_vars, edits' = edits, NEW p \in Provider
        PROVE  UserGroups(file'[p]) = UserGroups(file[p])
    <2>1. ASSUME NEW q \in Process, PutConfig(q)
          PROVE  UserGroups(file'[p]) = UserGroups(file[p])
      <3>1. p = proc[q].provider \/ file'[p] = file[p]
        BY <1>1, <2>1, ConfigEffect
      <3> QED
        BY <1>1, <2>1, <3>1, ConfigEffect
    <2> QED
      BY <1>1, <2>1, OnlyConfigWrites
  <1>2. DoneInv /\ [Next]_vars =>
          [edits' = edits => \A p \in Provider : UserGroups(file'[p]) = UserGroups(file[p])]_vars
    BY <1>1
  <1> QED
    BY <1>2, DoneInvHolds, PTL DEF Spec, UserHooksKept

-----------------------------------------------------------------------------
(* A repair restores only what is there *)

\* Past its check and until its write, a repair works on a configuration
\* that has all of the managed entries it will write.
RepairIsComplete ==
  \A q \in Process :
    proc[q].op = "repair" /\ proc[q].at > 1 /\ ~HasWritten(q)
      => Complete(file[proc[q].provider], proc[q].provider, proc[q].enhanced)

LEMMA RepairNext ==
  ASSUME DoneInv, RepairIsComplete, [Next]_vars, ~LateEdits
  PROVE  RepairIsComplete'
  <1>1. RunInv /\ TypeOK /\ DoneInv'
    BY DoneNext DEF DoneInv, RunInv
  <1>2. ASSUME NEW q \in Process, Step(q),
               NEW r \in Process, proc'[r].op = "repair", proc'[r].at > 1, ~HasWritten(r)'
        PROVE  Complete(file'[proc'[r].provider], proc'[r].provider, proc'[r].enhanced)
    <2> DEFINE p == proc[q].provider
               at == proc[q].at
    <2>1. ~Interrupt(q)
      <3>1. proc'[r].op # None
        BY <1>2, InstallerAssumption DEF Op
      <3> QED
        BY <1>1, <3>1, Returned DEF Interrupt
    <2>2. PICK state, read : Advances(q, state, read) \/ Return(q, "none")
      BY <1>1, <1>2, <2>1, StepsAdvance DEF Step, Writes
    <2>3. proc[q].op # None
      BY <1>1, <1>2, <2>1, StepsAdvance DEF Step, Writes
    <2>4. /\ r = q /\ Advances(q, state, read) /\ ~Return(q, "none")
          /\ proc[q].op = "repair" /\ proc'[q].at = at + 1
          /\ proc'[q].provider = p /\ proc'[q].enhanced = proc[q].enhanced
          /\ HasWritten(q)' <=> HasWritten(q) \/ at = ConfigAt(proc[q].op)
      <3>1. proc'[r].op # None
        BY <1>2, InstallerAssumption DEF Op
      <3> QED
        BY <1>1, <1>2, <2>2, <2>3, <3>1, Moved, Returned
    <2>5. ~PutConfig(q)
      BY <1>1, <1>2, <2>3, <2>4, Positions DEF PutConfig
    <2>6. UNCHANGED file
      BY <1>2, <2>5 DEF Step, CheckRepair, Read, Backup, PutBinary, PutDelegate, PutHelper,
                        RemoveHelper, RemoveDelegate, Clean, PutState, Interrupt, files
    <2>7. CASE CheckRepair(q)
      BY <2>4, <2>6, <2>7 DEF CheckRepair
    <2>8. CASE ~CheckRepair(q)
      <3>1. ~At(q, "check")
        BY <1>2, <2>1, <2>8
           DEF Step, Read, Backup, PutBinary, PutDelegate, PutHelper, PutConfig,
               RemoveHelper, RemoveDelegate, Clean, PutState, At
      <3>2. at # 1 /\ at \in 1..6
        <4>1. at \in 1..LastAt(proc[q].op) /\ proc[q].op \in Op /\ at \in 1..6
          BY <1>1, <2>3, StepPositions DEF TypeOK, Work
        <4>2. LastAt(proc[q].op) = 6
          BY <2>4 DEF LastAt
        <4>3. at = 1 => Steps(proc[q].op)[at] = "check"
          BY <2>4, <4>1, <4>2, StepPositions
        <4> QED
          BY <2>3, <3>1, <4>1, <4>3 DEF At, StepOf
      <3> QED
        BY <1>2, <2>4, <2>6, <3>2 DEF RepairIsComplete
    <2> QED
      BY <2>7, <2>8
  <1>3. ASSUME NEW q \in Process, NEW op \in Op, NEW p \in Provider, NEW e \in BOOLEAN,
               Begin(q, op, p, e)
        PROVE  RepairIsComplete'
    <2>1. PICK new \in Work :
            proc' = [proc EXCEPT ![q] = new] /\ new.at = 1 /\ lock = None
      BY <1>1, <1>3, Begins
    <2>2. proc'[q].at = 1 /\ \A r \in Process \ {q} : proc'[r].op = None
      BY <1>1, <2>1, InstallerAssumption DEF RunInv, OneOperation, TypeOK
    <2> QED
      BY <2>2, InstallerAssumption DEF RepairIsComplete, Op
  <1>4. CASE Edit
    <2>1. lock = None /\ UNCHANGED proc
      BY <1>1, <1>4, EditEffects DEF EditAllowed
    <2> QED
      BY <1>1, <2>1, InstallerAssumption DEF RunInv, OneOperation, RepairIsComplete, Op
  <1>5. CASE UNCHANGED vars
    BY <1>5 DEF vars, files, RepairIsComplete, HasWritten
  <1> QED
    BY <1>2, <1>3, <1>4, <1>5 DEF Next, RepairIsComplete

\* A repair writes no managed entry that somebody took out: it gives up, or
\* all it will write is in the file when it is done ("repair will not
\* recreate manually removed hooks", app/src/main.rs:575).
THEOREM RepairReconnectsNothing ==
  ASSUME ~LateEdits
  PROVE  Spec => RepairNeverReconnects
  <1> DEFINE Inv == DoneInv /\ RepairIsComplete
  <1>1. Init => Inv
    BY DoneInit, InstallerAssumption, Idling DEF Init, RepairIsComplete, Op
  <1>2. Inv /\ [Next]_vars => Inv'
    BY DoneNext, RepairNext
  <1>3. ASSUME Inv, [Next]_vars, NEW q \in Process, NEW p \in Provider,
               proc[q].op = "repair", proc'[q] # proc[q]
        PROVE  OwnedEvents(file'[p]) \subseteq OwnedEvents(file[p])
    <2>1. CASE Edit
      BY <1>3, <2>1, EditEffects DEF DoneInv, RunInv
    <2>2. ASSUME NEW r \in Process, PutConfig(r)
          PROVE  OwnedEvents(file'[p]) \subseteq OwnedEvents(file[p])
      <3>1. r = q
        <4>1. proc[r].op # None /\ proc[q].op # None
          BY <1>3, <2>2, InstallerAssumption DEF PutConfig, At, Op
        <4> QED
          BY <1>3, <4>1 DEF DoneInv, RunInv, OneOperation
      <3>2. CASE p # proc[q].provider
        BY <1>3, <2>2, <3>1, <3>2, ConfigEffect
      <3>3. CASE p = proc[q].provider
        <4>1. Exact(file'[p], p, proc[q].enhanced)
          BY <1>3, <2>2, <3>1, <3>3, ConfigEffect
        <4>2. OwnedEvents(file'[p]) \subseteq Desired(p, proc[q].enhanced)
          BY <4>1 DEF Exact, OwnedEvents
        <4>3. proc[q].at > 1 /\ ~HasWritten(q)
          BY <1>3, <2>2, <3>1, AtStep DEF PutConfig, DoneInv, RunInv, ConfigAt
        <4>4. Complete(file[p], p, proc[q].enhanced)
          BY <1>3, <3>3, <4>3 DEF RepairIsComplete
        <4>5. Desired(p, proc[q].enhanced) \subseteq HookEvent
          BY DEF Desired, HookEvent
        <4> QED
          BY <4>2, <4>4, <4>5 DEF Complete, OwnedEvents
      <3> QED
        BY <3>2, <3>3
    <2>3. ~Edit => edits' = edits
      BY <1>3 DEF Next, Step, Begin, CheckRepair, Read, Backup, PutBinary, PutDelegate,
                  PutHelper, PutConfig, RemoveHelper, RemoveDelegate, Clean, PutState,
                  Interrupt, vars
    <2> QED
      BY <1>3, <2>1, <2>2, <2>3, OnlyConfigWrites
  <1>4. Inv /\ [Next]_vars =>
          [\A q \in Process, p \in Provider :
             proc[q].op = "repair" /\ proc'[q] # proc[q]
               => OwnedEvents(file'[p]) \subseteq OwnedEvents(file[p])]_vars
    BY <1>3
  <1> QED
    BY <1>1, <1>2, <1>4, PTL DEF Spec, RepairNeverReconnects
=============================================================================
