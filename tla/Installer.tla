----------------------------- MODULE Installer ------------------------------
(***************************************************************************)
(* installer/src/lib.rs: installing, removing and repairing the hooks of   *)
(* the two providers and the Claude status line.                           *)
(*                                                                         *)
(* Every operation takes the lock file hooks-install.lock, reads the       *)
(* provider's configuration and install-state.json once, and then writes   *)
(* several files, one after the other.  A step is one such write (each is  *)
(* a temporary file and a rename, so it happens whole or not at all).      *)
(* Between two steps the process may die or the write may fail; both leave *)
(* the files as they are and release the lock.                             *)
(*                                                                         *)
(* The panel's handlers and the command line both call these operations;   *)
(* the user edits the same files by hand.                                  *)
(***************************************************************************)
EXTENDS Naturals, Sequences, FiniteSets, SequencesExt

CONSTANTS
  Process,      \* processes that call the installer: the runtime, a CLI run
  Line,         \* status lines the user may have
  None,
  Managed,      \* managed_statusline_value: Flow Agent's own status line
  MaxOps,       \* bound on the operations started
  MaxEdits,     \* bound on the user's edits
  LateEdits     \* the user may edit while an operation holds the lock

VARIABLES
  file,      \* [Provider -> its configuration file]
  inline,    \* config.toml defines hooks of its own
  inst,      \* install-state.json: [Provider -> ProviderState]
  binary,    \* bin/flow-agent
  helper,    \* bin/statusline: which wrapper script it holds
  delegate,  \* bin/statusline-delegate: the status line it runs, or None
  lock,      \* the process that holds hooks-install.lock, or None
  proc,      \* [Process -> the operation it is in]
  ops, edits,
  mine,      \* history: the status line the user chose last, or None
  done       \* history: what the last operation on a part reported, or "none"

files == <<file, inline, inst, binary, helper, delegate>>
vars == <<files, lock, proc, ops, edits, mine, done>>

Provider == {"claude", "codex"}

\* Hook events: "base" stands for CLAUDE_EVENTS or CODEX_EVENTS, "enhanced"
\* for CODEX_ENHANCED_EVENTS.  A group of an event's list holds Flow Agent's
\* handler, one of the user's, or both.
HookEvent == {"base", "enhanced"}
Group == {"own", "mine", "shared"}

Config == [form : {"absent", "valid", "malformed"}, groups : [HookEvent -> Seq(Group)],
           line : Line \cup {None, Managed}, saved : Line \cup {None}]

NoConfig == [form |-> "absent", groups |-> [e \in HookEvent |-> <<>>],
             line |-> None, saved |-> None]

Op == {"install", "repair", "uninstall", "line_install", "line_wrap", "line_uninstall"}
LineOps == {"line_install", "line_wrap", "line_uninstall"}

ASSUME InstallerAssumption ==
  /\ None \notin Process \cup Line \cup Op \cup {Managed}
  /\ Managed \notin Line
  /\ MaxOps \in Nat /\ MaxEdits \in Nat
  /\ LateEdits \in BOOLEAN

\* The writes of each operation, in the order of the code.
Steps(op) ==
  CASE op = "install"        -> <<"read", "backup", "binary", "config", "state">>
    [] op = "repair"         -> <<"check", "read", "backup", "binary", "config", "state">>
    [] op = "uninstall"      -> <<"read", "backup", "config", "clean", "state">>
    [] op = "line_install"   -> <<"read", "backup", "binary", "helper", "config">>
    [] op = "line_wrap"      -> <<"read", "backup", "binary", "delegate", "helper", "config">>
    [] op = "line_uninstall" ->
         <<"read", "backup", "config", "no_helper", "no_delegate", "clean">>

\* What an operation works on: a provider's hooks or the status line.
Part == Provider \cup {"line"}

ProviderState == [intent : {"untouched", "installed", "uninstalled"}, enhanced : BOOLEAN]

\* What a process holds of the operation it is in; backup is None when the
\* operation has saved nothing.
Work == [op : Op \cup {None}, provider : Provider, enhanced : BOOLEAN, at : 1..6,
         state : [Provider -> ProviderState] \cup {None}, read : Config,
         backup : Config \cup {None}]

Idle == [op |-> None, provider |-> "claude", enhanced |-> FALSE, at |-> 1,
         state |-> None, read |-> NoConfig, backup |-> None]

TypeOK ==
  /\ file \in [Provider -> Config]
  /\ inline \in BOOLEAN
  /\ inst \in [Provider -> ProviderState]
  /\ binary \in {"none", "runnable", "deleted"}
  /\ helper \in {"none", "direct", "wrapper"}
  /\ delegate \in Line \cup {None}
  /\ lock \in Process \cup {None}
  /\ proc \in [Process -> Work]
  /\ \A q \in Process : proc[q].op # None => proc[q].at \in DOMAIN Steps(proc[q].op)
  /\ ops \in 0..MaxOps /\ edits \in 0..MaxEdits
  /\ mine \in Line \cup {None}
  /\ done \in [Part -> {"none", "installed", "uninstalled"}]

Init ==
  /\ file = [p \in Provider |-> NoConfig]
  /\ inline = FALSE
  /\ inst = [p \in Provider |-> [intent |-> "untouched", enhanced |-> FALSE]]
  /\ binary = "none" /\ helper = "none" /\ delegate = None
  /\ lock = None
  /\ proc = [q \in Process |-> Idle]
  /\ ops = 0 /\ edits = 0
  /\ mine = None
  /\ done = [part \in Part |-> "none"]

-----------------------------------------------------------------------------
(* The configuration: pure functions of the code *)

\* desired_events
Desired(p, enhanced) ==
  IF p = "codex" /\ enhanced THEN HookEvent ELSE {"base"}

IsOwned(group) == group \in {"own", "shared"}
OwnedAt(config, e) == {i \in DOMAIN config.groups[e] : IsOwned(config.groups[e][i])}
OwnedEvents(config) == {e \in HookEvent : OwnedAt(config, e) # {}}

\* Defect: a group with one of our handlers is dropped with all it holds.
StrippedWhole(groups) == SelectSeq(groups, LAMBDA group : ~IsOwned(group))

\* strip_owned_hooks, for the groups of one event: our handlers go, and a
\* group that is left empty goes with them.  What stays of the others are the
\* user's handlers.
Kept(groups) == {i \in DOMAIN groups : groups[i] # "own"}
Stripped(groups) == [i \in 1..Cardinality(Kept(groups)) |-> "mine"]

\* merge_provider_hooks
Merged(config, p, enhanced) ==
  [config EXCEPT !.form = "valid",
     !.groups = [e \in HookEvent |->
        Stripped(config.groups[e]) \o
          (IF e \in Desired(p, enhanced) THEN <<"own">> ELSE <<>>)]]

Unmerged(config) ==
  [config EXCEPT !.groups = [e \in HookEvent |-> Stripped(config.groups[e])]]

\* has_complete_owned_install
Complete(config, p, enhanced) ==
  \A e \in Desired(p, enhanced) : OwnedAt(config, e) # {}

\* has_exact_owned_install: one managed group per wanted event, and no other.
Exact(config, p, enhanced) ==
  \A e \in HookEvent :
    IF e \in Desired(p, enhanced)
    THEN \E i \in DOMAIN config.groups[e] :
           config.groups[e][i] = "own" /\ OwnedAt(config, e) = {i}
    ELSE OwnedAt(config, e) = {}

\* The configuration an operation writes in place of the one it read.
Updated(op, config, p, enhanced) ==
  CASE op \in {"install", "repair"} -> Merged(config, p, enhanced)
    [] op = "uninstall" -> Unmerged(config)
    [] op = "line_install" -> [config EXCEPT !.form = "valid", !.line = Managed]
    [] op = "line_wrap" -> [config EXCEPT !.saved = config.line, !.line = Managed]
    [] op = "line_uninstall" ->
         IF config.line = Managed
         THEN [config EXCEPT !.line = config.saved, !.saved = None] ELSE config

\* Defect: the default installation takes a custom status line over.
MayTakeAnyLine(op, config) == op = "line_wrap" => config.line \in Line

\* ClaudeStatuslineConflict and ClaudeStatuslineNotWrappable
MayTakeLine(op, config) ==
  /\ op = "line_install" => config.line \in {None, Managed}
  /\ op = "line_wrap" => config.line \in Line

\* inspect_claude_statusline
StatuslineInstalled ==
  /\ file["claude"].form = "valid" /\ file["claude"].line = Managed
  /\ helper # "none" /\ binary = "runnable"
  /\ file["claude"].saved # None => delegate # None

\* inspect: definition_matches_manifest, by the recorded options
MatchesManifest(p) == file[p].form = "valid" /\ Exact(file[p], p, inst[p].enhanced)

\* The status that setup_value shows for a provider that is there.
ShownStatus(p) ==
  CASE file[p].form = "malformed" -> "error"
    [] file[p].form # "malformed" /\ p = "codex" /\ inline -> "inline_conflict"
    [] OTHER -> IF MatchesManifest(p) /\ binary = "runnable" THEN "installed"
                ELSE IF OwnedEvents(file[p]) # {} THEN "needs_reinstall"
                ELSE "not_installed"

\* canRepair of setup_value: only the binary is gone.
CanRepair(p) == MatchesManifest(p) /\ binary # "runnable"

\* What doctor calls an automatic repair: not while no hooks are recorded.
DoctorRepairs(p) == CanRepair(p) /\ inst[p].intent = "installed"

-----------------------------------------------------------------------------
(* The operations *)

StepOf(q) == Steps(proc[q].op)[proc[q].at]
At(q, step) == proc[q].op # None /\ StepOf(q) = step
PartOf(q) == IF proc[q].op \in LineOps THEN "line" ELSE proc[q].provider
Outcome(op) == IF op \in {"uninstall", "line_uninstall"} THEN "uninstalled" ELSE "installed"

\* The operation of q returns: Drop for InstallLock.
Return(q, result) ==
  /\ proc' = [proc EXCEPT ![q] = Idle]
  /\ lock' = IF lock = q THEN None ELSE lock
  /\ done' = [done EXCEPT ![PartOf(q)] = result]

\* q goes on with `next`, or returns Ok after its last write.
Continue(q, next) ==
  IF proc[q].at = Len(Steps(proc[q].op))
  THEN Return(q, Outcome(proc[q].op))
  ELSE /\ proc' = [proc EXCEPT ![q] = [next EXCEPT !.at = @ + 1]]
       /\ UNCHANGED <<lock, done>>

\* Defect: the lock excludes nobody.
AcquireShared(q) == lock' = q

\* InstallLock::acquire: flock waits for the process that holds the file.
Acquire(q) == lock = None /\ lock' = q

\* Reports of what was done before are history once the part is worked on.
Begin(q, op, p, enhanced) ==
  /\ proc[q].op = None
  /\ ops < MaxOps
  /\ op \in LineOps => p = "claude"
  /\ enhanced => p = "codex" /\ op \in {"install", "repair"}
  /\ Acquire(q)
  /\ proc' = [proc EXCEPT ![q] = [Idle EXCEPT !.op = op, !.provider = p,
                                              !.enhanced = enhanced]]
  /\ ops' = ops + 1
  /\ done' = [done EXCEPT ![IF op \in LineOps THEN "line" ELSE p] = "none"]
  /\ UNCHANGED <<files, edits, mine>>

\* repair, before install_locked: nothing unless the hooks are recorded as
\* installed and the managed entries are all there.
CheckRepair(q) ==
  LET p == proc[q].provider IN
  /\ At(q, "check")
  /\ IF /\ inst[p].intent = "installed"
        /\ file[p].form = "valid"
        /\ Complete(file[p], p, proc[q].enhanced)
     THEN Continue(q, proc[q])
     ELSE Return(q, "none")
  /\ UNCHANGED <<files, ops, edits, mine>>

\* load_state and load_provider_json, and the refusals of each operation.
Refused(q) ==
  LET p == proc[q].provider IN
  \/ proc[q].op \in {"install", "repair"} /\ p = "codex" /\ inline
  \/ file[p].form = "malformed"
  \/ ~MayTakeLine(proc[q].op, file[p])

Read(q) ==
  LET p == proc[q].provider IN
  /\ At(q, "read")
  /\ IF Refused(q)
     THEN Return(q, "none")
     ELSE Continue(q, [proc[q] EXCEPT !.state = inst, !.read = file[p]])
  /\ UNCHANGED <<files, ops, edits, mine>>

Changes(q) ==
  LET work == proc[q] IN
  /\ Updated(work.op, work.read, work.provider, work.enhanced) # work.read
  /\ Outcome(work.op) = "uninstalled" => work.read.form = "valid"

\* backup_file copies the file as it is now, not as it was read.
Backup(q) ==
  /\ At(q, "backup")
  /\ Continue(q, IF Changes(q) /\ proc[q].read.form = "valid"
                 THEN [proc[q] EXCEPT !.backup = file[proc[q].provider]] ELSE proc[q])
  /\ UNCHANGED <<files, ops, edits, mine>>

\* install_stable_binary
PutBinary(q) ==
  /\ At(q, "binary")
  /\ binary' = "runnable"
  /\ Continue(q, proc[q])
  /\ UNCHANGED <<file, inline, inst, helper, delegate, ops, edits, mine>>

PutDelegate(q) ==
  /\ At(q, "delegate")
  /\ delegate' = proc[q].read.line
  /\ Continue(q, proc[q])
  /\ UNCHANGED <<file, inline, inst, binary, helper, ops, edits, mine>>

\* The default installation writes the script that only captures, the
\* wrapper mode the one that also runs the delegate.
PutHelper(q) ==
  /\ At(q, "helper")
  /\ helper' = IF proc[q].op = "line_wrap" THEN "wrapper" ELSE "direct"
  /\ Continue(q, proc[q])
  /\ UNCHANGED <<file, inline, inst, binary, delegate, ops, edits, mine>>

\* atomic_write_json of the provider's configuration, when it changes.
PutConfig(q) ==
  LET work == proc[q] IN
  /\ At(q, "config")
  /\ file' = IF Changes(q)
             THEN [file EXCEPT ![work.provider] =
                     Updated(work.op, work.read, work.provider, work.enhanced)]
             ELSE file
  /\ Continue(q, work)
  /\ UNCHANGED <<inline, inst, binary, helper, delegate, ops, edits, mine>>

OwnedLine(q) == proc[q].read.line = Managed

\* uninstall_claude_statusline removes the two scripts of an entry it owned.
RemoveHelper(q) ==
  /\ At(q, "no_helper")
  /\ helper' = IF OwnedLine(q) THEN "none" ELSE helper
  /\ Continue(q, proc[q])
  /\ UNCHANGED <<file, inline, inst, binary, delegate, ops, edits, mine>>

RemoveDelegate(q) ==
  /\ At(q, "no_delegate")
  /\ delegate' = IF OwnedLine(q) THEN None ELSE delegate
  /\ Continue(q, proc[q])
  /\ UNCHANGED <<file, inline, inst, binary, helper, ops, edits, mine>>

\* The providers recorded once the operation of q is: uninstall works on the
\* state it read, the status line's operation loads it again.
Recorded(q) ==
  LET work == proc[q] IN
  CASE work.op = "uninstall" ->
         [work.state EXCEPT ![work.provider] =
            [intent |-> "uninstalled", enhanced |-> FALSE]]
    [] work.op \in {"install", "repair"} ->
         [work.state EXCEPT ![work.provider] =
            [intent |-> "installed", enhanced |-> work.enhanced]]
    [] OTHER -> inst

\* Defect: only the status line keeps the binary.
UnneededByLine(q) ==
  IF proc[q].op = "uninstall" THEN ~StatuslineInstalled ELSE OwnedLine(q)

\* No hooks are recorded, and no status line is in use, that run the binary.
Unneeded(q) ==
  /\ \A p \in Provider : Recorded(q)[p].intent # "installed"
  /\ IF proc[q].op = "uninstall" THEN ~StatuslineInstalled ELSE OwnedLine(q)

\* remove_stable_binary
Clean(q) ==
  /\ At(q, "clean")
  /\ binary' = IF Unneeded(q) /\ binary = "runnable" THEN "none" ELSE binary
  /\ Continue(q, proc[q])
  /\ UNCHANGED <<file, inline, inst, helper, delegate, ops, edits, mine>>

\* save_state writes the state that was read, with the provider's new entry.
PutState(q) ==
  /\ At(q, "state")
  /\ inst' = Recorded(q)
  /\ Continue(q, proc[q])
  /\ UNCHANGED <<file, inline, binary, helper, delegate, ops, edits, mine>>

\* The process dies, or a write fails and the operation returns its error.
Interrupt(q) ==
  /\ proc[q].op # None
  /\ Return(q, "none")
  /\ UNCHANGED <<files, ops, edits, mine>>

-----------------------------------------------------------------------------
(* The user and the provider edit the same files, without the lock. *)

EditAllowed == edits < MaxEdits /\ (LateEdits \/ lock = None)

\* An edit of a provider's hooks: a handler of the user's own, in a group of
\* its own or in ours, or one of our entries taken out.
EditGroups(groups) ==
  {<<"mine">> \o groups}
    \cup {[groups EXCEPT ![i] = "shared"] : i \in {j \in DOMAIN groups : groups[j] = "own"}}
    \cup {RemoveAt(groups, i) : i \in {j \in DOMAIN groups : groups[j] = "own"}}

EditHooks(p, e) ==
  /\ EditAllowed
  /\ file[p].form # "malformed"
  /\ e \in Desired(p, TRUE)
  /\ \E groups \in EditGroups(file[p].groups[e]) :
       file' = [file EXCEPT ![p] = [@ EXCEPT !.form = "valid", !.groups[e] = groups]]
  /\ done' = [done EXCEPT ![p] = "none"]
  /\ edits' = edits + 1
  /\ UNCHANGED <<inline, inst, binary, helper, delegate, lock, proc, ops, mine>>

EditLine(line) ==
  /\ EditAllowed
  /\ file["claude"].form # "malformed"
  /\ line # file["claude"].line
  /\ file' = [file EXCEPT !["claude"].form = "valid", !["claude"].line = line]
  /\ mine' = line
  /\ done' = [done EXCEPT !["line"] = "none"]
  /\ edits' = edits + 1
  /\ UNCHANGED <<inline, inst, binary, helper, delegate, lock, proc, ops>>

\* A typing error in the file, and its correction.
EditForm(p) ==
  /\ EditAllowed
  /\ file[p].form # "absent"
  /\ file' = [file EXCEPT ![p].form = IF @ = "valid" THEN "malformed" ELSE "valid"]
  /\ done' = [part \in Part |-> "none"]
  /\ edits' = edits + 1
  /\ UNCHANGED <<inline, inst, binary, helper, delegate, lock, proc, ops, mine>>

EditInline ==
  /\ EditAllowed
  /\ inline' = ~inline
  /\ edits' = edits + 1
  /\ UNCHANGED <<file, inst, binary, helper, delegate, lock, proc, ops, mine, done>>

\* Something else removes the binary or the scripts.
DeleteBinary ==
  /\ EditAllowed
  /\ binary = "runnable" /\ binary' = "deleted"
  /\ done' = [part \in Part |-> "none"]
  /\ edits' = edits + 1
  /\ UNCHANGED <<file, inline, inst, helper, delegate, lock, proc, ops, mine>>

DeleteHelper ==
  /\ EditAllowed
  /\ helper # "none" /\ helper' = "none"
  /\ done' = [done EXCEPT !["line"] = "none"]
  /\ edits' = edits + 1
  /\ UNCHANGED <<file, inline, inst, binary, delegate, lock, proc, ops, mine>>

Edit ==
  \/ \E p \in Provider, e \in HookEvent : EditHooks(p, e)
  \/ \E line \in Line \cup {None} : EditLine(line)
  \/ \E p \in Provider : EditForm(p)
  \/ EditInline
  \/ DeleteBinary
  \/ DeleteHelper

Step(q) ==
  \/ CheckRepair(q) \/ Read(q) \/ Backup(q)
  \/ PutBinary(q) \/ PutDelegate(q) \/ PutHelper(q) \/ PutConfig(q)
  \/ RemoveHelper(q) \/ RemoveDelegate(q) \/ Clean(q) \/ PutState(q)
  \/ Interrupt(q)

Next ==
  \/ \E q \in Process, op \in Op, p \in Provider, e \in BOOLEAN : Begin(q, op, p, e)
  \/ \E q \in Process : Step(q)
  \/ Edit

Spec == Init /\ [][Next]_vars

-----------------------------------------------------------------------------
(* Properties *)

\* What an operation reported as done stays so until the user changes it or
\* another operation works on the same part, whatever the operations on the
\* other parts do and wherever they are cut off: the parts share the binary,
\* the Claude settings and the state file.
CompletedHolds ==
  /\ \A p \in Provider :
       /\ done[p] = "installed" =>
            /\ inst[p].intent = "installed" /\ binary = "runnable"
            /\ MatchesManifest(p) /\ ShownStatus(p) \in {"installed", "inline_conflict"}
       /\ done[p] = "uninstalled" =>
            /\ inst[p].intent = "uninstalled" /\ OwnedEvents(file[p]) = {}
            /\ ShownStatus(p) \in {"not_installed", "inline_conflict"}
  /\ done["line"] = "installed" => StatuslineInstalled
  /\ done["line"] = "uninstalled" => file["claude"].line # Managed

\* Hooks that are recorded as installed and configured run a binary that is
\* there, at every moment and after every crash: unless something else
\* deleted it, an operation on the other provider or on the status line
\* never takes it away.
RecordedHooksRun ==
  \A p \in Provider :
    inst[p].intent = "installed" /\ OwnedEvents(file[p]) # {} => binary # "none"

\* "repair will not recreate manually removed hooks" (app/src/main.rs:575).
RepairNeverReconnects ==
  [][\A q \in Process, p \in Provider :
       proc[q].op = "repair" /\ proc'[q] # proc[q]
         => OwnedEvents(file'[p]) \subseteq OwnedEvents(file[p])]_vars

UserGroups(config) ==
  [e \in HookEvent |-> Cardinality(Kept(config.groups[e]))]

\* "preserves user and unknown fields" (README.md:45): no operation changes
\* how many handlers of the user's own an event has.
UserHooksKept ==
  [][edits' = edits => \A p \in Provider : UserGroups(file'[p]) = UserGroups(file[p])]_vars

\* "never silently replaced" (README.md:68): the line the user chose last is
\* configured, or saved beside the managed one, whatever ran since.
UserLineKept ==
  mine # None => \/ file["claude"].line = mine
                 \/ file["claude"].line = Managed /\ file["claude"].saved = mine

\* "backs up existing configuration" (README.md:45): what an operation
\* replaces is what that operation saved.
ReplacedIsBackedUp ==
  [][\A q \in Process :
       At(q, "config") /\ file' # file /\ proc'[q] # proc[q]
         /\ file[proc[q].provider].form # "absent"
       => proc[q].backup = file[proc[q].provider]]_vars

\* "delegates visible output to it" (README.md:70): while the bridge is
\* reported as installed over a saved line, its script runs that line.
WrappedLineRuns ==
  StatuslineInstalled /\ file["claude"].saved # None
    => helper = "wrapper" /\ delegate = file["claude"].saved

\* Uninstalling never brings back a line the user has removed.
RemovedLineStaysAway ==
  file["claude"].line \in Line => file["claude"].line = mine

\* Configured hooks run a binary that is there, recorded or not.
ConfiguredHooksRun ==
  \A p \in Provider : OwnedEvents(file[p]) # {} => binary # "none"

\* "Run install-hooks --repair for this provider" (app/src/main.rs:651): a
\* repair that the panel or doctor offers is not refused once it is asked for.
OfferedRepairRuns ==
  [][\A q \in Process :
       CheckRepair(q) /\ DoctorRepairs(proc[q].provider) => proc'[q].op # None]_vars
=============================================================================
