# Formal models of flow-agent

flow-agent sits between coding agents (Claude Code, Codex) and their user. A
provider runs a hook process that blocks on a permission request or a question;
the hook connects to one local runtime; the runtime stores what it waits for,
shows it in a panel and sends the user's decision back, after an undo window,
before the provider's deadline. This directory holds TLA+ models of that
program, the TLC configurations that check them and the proofs about them.

## Inventory

| Component | State it keeps | Operations | Correct when |
|---|---|---|---|
| `crates/core` | none at run time; the request, its deadline, responses | build a request, build a response | a request keeps one id, deadline and correlation for its life |
| `runtime/waiter.rs` | in memory, one mutex: live waiters by request and by correlation key | register (replaces a duplicate), decide, pass through, answer, expire, drop | both maps agree; every blocked hook gets exactly one outcome, in the end |
| `runtime/storage.rs` | SQLite: sessions, turns, events, attention items, commands, metrics, settings; one writer thread | ingest, claim, undo, commit, act, reopen, reconcile, expire, native sync, liveness, snapshot, export, clear | one winning command per request; item and command rows agree; nothing settled returns |
| `app/main.rs` `serve` | the threads: one per connection, one expiry thread; the instance lock | register, ingest, release, wait, expire, start up | no hook blocks on something nobody can decide; nothing of an older process is actionable |
| `server.rs` HTTP | per-request locals, commit timers | command, answer, undo, snapshot, settings, data | the decision the user sees is the one the hook gets |
| `server.rs` Codex manager | threads, managed set, waiting and synced flags (mutex) | notifications, server requests, attach, retry on snapshot | a native card is open exactly while Codex waits |
| `codex-connector` | pending JSON-RPC calls (mutex), one child process | call with timeout, notify, respond, read loop | a late answer reaches no other call; every call returns; a lost process is shown |
| `bridge` | the socket | send and wait, bind, read a frame | a hook never invents a decision; end of file, deadline and another runtime end the wait |
| `runtime/spool.rs` | a directory shared by hook processes and the runtime, without a lock | append, prune, drain | an event is applied at most once; none is lost but the oldest beyond the bound |
| `installer` | provider configuration, binary, two scripts, state file, install lock | install, uninstall, repair, status line | the user's hooks and line are kept; what one part installed survives the others, and cuts between any two writes |
| `quota`, `diagnostics`, `title` | bounded files | collect, capture, read | bounded, private, no effect on decisions |
| `instance.rs` | a file lock | acquire, drop | one runtime at a time |
| `web/app.js` | the last snapshot | render, post commands | out of scope: it may post anything at any time |

How they interact: a hook process writes one frame to the socket and blocks. The
connection's thread registers a waiter (registry mutex), then ingests the event
(store transaction), then blocks on the waiter's channel. Panel requests read a
snapshot, check the registry, run a transaction, and for a decision start a task
that sleeps for the undo window, checks the registry again, commits in the store
and decides in the registry. Provider events (tool progress, Stop, ...) are
ingested on threads of their own; the transaction returns the requests it
resolved and the thread then passes their waiters through. An expiry thread
sweeps the registry every two seconds and expires what it swept in the store.
Registry and store are two places with no common lock. A hook that wants no
reply writes its event and leaves; when nobody listens it appends the event to the
spool, which the next runtime drains before it binds the socket. The Codex
manager talks to the app-server through one proxy process: calls with timeouts,
notifications, and questions that become waiters and items like those of hooks.
The panel and the command line run the installer, in two processes.

What is hard: every pair of those steps may interleave; the store survives a
crash and the registry does not; deadlines, undo windows and snoozes race with
answers; duplicates replace each other; hooks die silently; provider events
carry no request id. `PROJECT.json` lists each hazard at its line under
`hazards`, with the properties that watch it.

## Modules

| Module | Models |
|---|---|
| `Core` | clock, requests and their attributes, approval actions, responses |
| `WaiterRegistry` | `waiter.rs`: one action per operation, each holding the mutex once |
| `ApprovalStore` | the transactions of `storage.rs` on attention items and commands, each one action |
| `ApprovalRuntime` | the threads of `serve`, the HTTP handlers, commit timers and expiry thread over the two, with crash and restart |
| `ClearRuntime` | the same threads while the user may clear all data |
| `SessionStore` | what the same transactions do to one session: its row, its turns, its native cards; extends `ApprovalStore` |
| `HookEvents` | a provider session as it is, and the events that tell the runtime of it; extends `SessionStore` |
| `CodexSync` | the Codex manager's view of one thread and its sync with the session; extends `WaiterRegistry` and `SessionStore` |
| `CodexConnector` | the proxy, its calls and reader, `CodexManager::start` and `attach`, and the app-server's questions |
| `HookDelivery` | a notification's way from `run_hook` through the socket or the spool into the store; several hooks and runtimes |
| `EventLedger` | what that delivery promises: at most one effect, and nothing lost comes back |
| `Installer` | install, repair, uninstall and the status line's operations as sequences of file writes |
| `RequestProofs`, `SessionStoreProofs` | the invariants of registry and store, and of the session, proved |
| `ApprovalRuntimeProofs` | that the threads implement registry and store, and their own safety properties, proved |
| `HookDeliveryProofs`, `CodexConnectorProofs` | the safety properties of the two, and that the delivery implements `EventLedger`, proved |
| `CodexSyncProofs`, `HookEventsProofs` | that manager and provider implement `WaiterRegistry` and `SessionStore`, and what they show, proved |
| `InstallerProofs` | what the installer's operations keep, proved |
| `MCWaiterRegistry`, `MCApprovalStore`, `MCApprovalRuntime`, `MCSessionStore`, `MCHookEvents`, `MCCodexSync`, `MCCodexConnector`, `MCHookDelivery`, `MCInstaller` | the instances TLC checks |

`WaiterRegistry` and `ApprovalStore` are also the abstract specifications: the
threads of `ApprovalRuntime` and the transactions of `SessionStore` are shown to
implement them (`ImplementsRegistry`, `ImplementsStore`), with the same
variables and every other step a stutter. `HookDelivery` implements `EventLedger`
under a refinement mapping (`Fate`): what a notification has come to is computed
from where it still may come from.

### State and actions

`WaiterRegistry`: `byRequest` and `byCorrelation` are the two hash maps. An
entry holds the sending half of a channel and nothing else that changes, so it
is represented by its ticket, and `channel[t]` is everything ever sent to it.
`Register` is the whole of `register_at`: the sweep of what is due, the
pass-through of a duplicate with the same correlation key and of an older entry
of the same request, and the insertion.

`ApprovalStore`: `attention[r]` is the row of request `r` with the columns some
transaction reads back; `commands[c]` the row of a command. The three ways an
item expires write different reasons; the model has one, `"stale"`. An
`IngestEvent` is what a non-blocking event does to approvals: it computes the
candidates, matches tool progress by title and settles items and commands as
`reconcile_provider_handled_approval` does. `created_at` order is `ReceivedAt`;
equal times leave the choice open, as SQLite's order does.

`ApprovalRuntime`: each thread has a step (`hook`, `event`, `api`, `timer`) and
the locals it carries from one step to the next: the clock a command read, the
activity a timer saw, the ids an event resolved, the ids a sweep expired. One
step is one lock or one transaction. `reply[r]` is what the hook process got:
a response, `"closed"` (end of file, it prints nothing) or `"gone"` (it died
first). `Crash` drops registry, threads and timers and keeps the tables;
`Startup` reconciles before anything connects. Provider, user and machine are
unconstrained: any command at any time with any action, any event, any death.
`ClearRuntime` adds `ClearData`: the database is replaced by a fresh one while
waiters, handlers and timers keep the ids of rows that are gone.

`SessionStore`: `session` is the row's exec_state, approval_owner and
last_event_at; `turns[t]` the state of turn `t`; `native[n]` the card of the
request_permissions call `n`, or the synthetic one the app-server's word
inserts. `SessionIngest` is all of `ingest_transaction` for these tables, in one
action with the approvals' part of it: the turn the event belongs to
(`Selects`), the turns after it, the cards, and the row, which changes only when
`MayUpdate` lets it. `SyncWaiting` and `SyncCleared` are the two halves of
`sync_native_approval_transaction`, `ReconcileSession` the one that turns a
session idle. The events of `SessionSpec` are of any kind and age. The provider's
turn id is left out because `select_or_create_turn` does not use it. A native call is
known by its tool_use_id, or by the id of the request that starts one without, as in
`dedupe_key`; an end without a tool_use_id resolves every card of its turn. Items for
errors, completions and notifications have no request and no reader here.
`reconcile_session_liveness` is called by tests only. Two synthetic cards have
different deduplication keys unless they fall in one millisecond, so a new one is
the same `Synthetic` item opened again.

`HookEvents` adds the provider: whether it works, which call shows a prompt,
which tool runs, and the `mail` of events not yet ingested. It assumes of the
provider what the adapters do: a turn starts with a prompt and ends with Stop or
StopFailure, a tool call that started ends before that, and an end that carries a
tool_use_id carries the one its start carried (`EndNative` may carry none). `InOrder` says whether the connection threads and the
spool may reorder events, `Parallel` whether two native calls overlap.

`CodexSync`: `thread` is the app-server's truth and `notes` the notifications
under way; `known`, `nativeWaiting` and `nativeSynced` are `threads`,
`native_waiting` and `native_synced` of `CodexManagerState` for that thread.
`sync[p]` is a thread inside `sync_codex_native_attention`, between the store
transaction, the release of each hook and the mark: the start, the reader of
notifications, and requests of the page, which run a retry (every snapshot) or
an attach. `hook` is the thread of a hook approval of the same session, as in
`ApprovalRuntime` without the user. The app-server is external: it answers with
the thread as it is and notifies of every change in order; either call of the
start may fail or not concern the thread. Of its requests for user input (`asks`,
`unread` those no thread has handled) `TakeRequest` is what
`handle_codex_server_request` writes to the same `threads` entry: a thread that asks is
active, whatever was read of it meanwhile; the rest of that handler is in
`CodexConnector`.

`CodexConnector`: `asked` and `answers` are the lines written and read,
`pending` the map of the connector, `caller[c]` the call a thread is in with what
its channel holds. `start()` calls initialize, list and resume one after the
other; every attach of a panel client calls resume. `phase`, `connected`,
`managed` and `resumeFailed` are the manager's state, `setting` the list in the
settings table that a `writer` computes under the lock and writes after it.
`question[q]` is the thread of a request for user input, from its arrival over
its registration, its ingestion, the adoption of its thread and the wait to the
reply; `waiter`, `row` and `reply` are its waiter, its item and what the
app-server got. The app-server answers any call at any time, late or never,
well or with an error; the proxy dies at any time, and the reader may end while
the proxy lives (a line that is no text). The panel may acknowledge, snooze or
dismiss the item of a question at any time (`ActOnItem`), which tells its waiter
nothing; a due snooze opens it again (`ReopenSnoozed`), also after the question is
over. `skipped` remembers the questions whose expiry found the item snoozed and
passed over it.

`HookDelivery`: one hook process per notification, a step for each file system
call of `append` and `prune`; `rt[r]` is a runtime process between its lock, the
pruning of old events, its drain and its socket. Notifications are numbered by the
time their hook received them, which is the order of the file names. `inbox` is what
was written to a runtime's socket and not yet ingested. Any hook and any runtime
may be killed at any step, and runtimes are started again. `Heavy` is what the sizes
of the files come to: the sets of entries that exceed the byte limit of `prune`
(`TooMuch`). A write to the socket may fail after the listener has got all of it, and
a transaction of the store may fail, `MaxFailures` times in all.

`Installer`: `proc[q]` is the operation of process `q`, at one of its writes
(`Steps`), with what it read at its start. `groups` are the entries of one event
in a provider's configuration: Flow Agent's, the user's, or a group that holds
both. The functions of the configuration (`Stripped`, `Merged`, `Complete`,
`Exact`) are translated as such. `Interrupt` is a failed write and the death of the
process. `done` remembers what an operation reported, until the user changes that
part or another operation works on it.

Properties are stated in the module of the component they are about. A few
definitions are marked *Defect*: they are deliberately wrong variants of the
definition that follows them, used to check that a property notices.

## Runs

| Run (`.cfg`) | Instance | Shows |
|---|---|---|
| `MCApprovalStore` | two approvals of one tool, a question, two commands, every event kind, no turns | one winner; committing and sent items are backed by their command; open items are undecided; nothing settled reopens |
| `MCApprovalRaces` | one approval, two commands, a Stop event, one crash | a delivered decision was committed; a blocked hook is actionable; an item in its undo window has a timer; live approvals belong to this process |
| `MCDuplicateRequests` | two requests with one correlation key, one command | the registry's maps agree and every ticket gets one outcome through replacement; the threads implement `WaiterRegistry` and `ApprovalStore` |
| `MCApprovalLiveness` | `ClearRuntime`: one approval, one command, one event, one crash, data cleared at any time, fair threads | every hook returns; every undo window closes |
| `MCQuestions` | one question, two clients, one crash | an answered question is settled, or its handler is about to |
| `MCSessionStore` | one approval, one native call, the synthetic card, one command, two turns | one turn runs, the last; the owner of a wait does not outlive it; late events leave what is finished; the session implements `ApprovalStore` |
| `MCHookEvents` | one native call, one approval, six events in three turns, in order with any delay | once all is ingested: the prompt that is up is shown, one that ended is not, a stopped session shows it |
| `MCCodexSync` | one thread with two changes and one request for user input, one hook approval, one request of the page, one attach, one store error | the hooks a cleared wait resolves are released; the manager's view catches up, but for a request handled late; with fair threads a wait is shown in the end |
| `MCCodexConnector` | one thread, one panel client, one question, four calls | a call never takes another's answer; a pending call has a caller that waits; a lost connection is shown and stays shown; a question gets one reply, in the end, and its item closes unless it was snoozed when the question expired |
| `MCHookDelivery` | three notifications, two runtimes, a spool of one file, the second too heavy for it, one failed write | the delivery implements `EventLedger`; a drain removes only what is stored; pruning costs only the oldest, none that is within both limits; a runtime that serves owns the socket; the spool is replayed in the end |
| `MCInstaller` | two processes, two status lines, three operations, two user edits | what an operation reported done holds until something changes it; recorded hooks run; the user's hooks and line are kept |

One run ends in a counterexample, against a sentence of the repository's documents
quoted in `findings` of `PROJECT.json`:

| Run | What happens |
|---|---|
| `MCLostThread` | Two threads adopt a Codex thread each; both compute the list to save under the lock and write it after. The older list is written last: a managed thread is not in the setting, and the next runtime does not resume it. |

Every module also states a type invariant and a few properties no run checks: they
are proved, or hold on the instance of its run and may be added to its `.cfg`.
More is run by hand. `MCWaiterRegistry` checks the registry on its own, with a
request registered twice (three tickets), and with a fair sweep an outcome for
every ticket. The others end in a counterexample, each at a place where the code
and a sentence of the documents, or a reader's expectation, differ. Where the
configuration is that of a run, the property takes the place of the run's, with the
constants named here:

| Configuration, property | What happens | Sentence |
|---|---|---|
| `MCReplacedCard`, `NoCardStaysOpen` | A request is registered; another registration takes it out of the registry (as a duplicate, or as due); only now its item is stored. Its thread receives the pass-through and returns without expiring: the card stays open. | `WIDGET_V1_PLAN.md:134` |
| `MCSiblingCall`, `ToolProgressReleasesItsOwnCall` | The start of another call of the same tool resolves the approval of the first. | `M13_PROVIDER_STATE_COORDINATION.md:59` |
| `MCStaleCard`, `ClearedWaitHasNoCard` | A snapshot collects the waiting thread for a retry; the wait ends and the notification clears the card; the retry, still with `waiting = true`, opens it again. Only waits are retried, so it stays until another wait ends or an event ends the turn. | `M13_PROVIDER_STATE_COORDINATION.md:50` |
| `MCHandledThenDecided`, `NoDecisionAfterProviderHandled` | Claim; Stop settles the item but not the pending command; the timer commits and sends *allow*; only then the event's thread releases the waiter. | `V1_ACCEPTANCE.md:228` |
| `MCSecondClick`, `DeliveredDecisionAwaitsEvidence` | The decision is delivered; a second command finds no waiter and expires the delivered decision. | `WIDGET_V1_PLAN.md:418` |
| `MCSnoozedQuestion`, `OpenQuestionIsOfThisRuntime` | Snooze, crash, restart, snooze due: the old runtime's question is open again. | `V1_ACCEPTANCE.md:210` |
| `MCDuplicateCard`, `NoDuplicateCard` | The app-server's word is synced before the hook approval of the same prompt is ingested: two cards. | `M13_PROVIDER_STATE_COORDINATION.md:52` |
| `MCCodexSync`, `ViewIsThread` | A request for user input is handled after the notification that ended its turn was read: the manager shows the idle thread as active until the next notification. | |
| `MCUncoveredWait`, `UncoveredWaitIsShown` | A wait covered by a hook approval counts as synced; when that approval expires nothing shows the wait. | `M13_PROVIDER_STATE_COORDINATION.md:50` |
| `MCSessionStore`, `PassThroughHandsOver` | A pass-through leaves the session's owner as it was. | `WIDGET_V1_PLAN.md:383` |
| `MCLateStart`, `EndedCallCleared` | The start of a native call ingested after its end opens a card nothing but the end of the turn clears. | `V1_ACCEPTANCE.md:223` |
| `MCParallelCalls`, `PendingCallShown` | With two native calls at once, the end of the first takes the session out of the wait for the second. | `WIDGET_V1_PLAN.md:399` |
| `MCBackgroundTurn`, `TurnsStartWithPrompt` | A tool of the background work a Stop left opens a turn without a prompt. | `WIDGET_V1_PLAN.md:395` |
| `MCCodexConnector`, `NoOrphanProxy` | `initialize` fails, `start()` drops its connector; the reader thread holds a clone, so the proxy is not killed while it lives. | (`Drop for Inner`) |
| `MCCodexConnector`, `AnsweredIsReplied` | The panel's answer is recorded; the reply is written to a proxy that has gone, and the error ignored. | |
| `MCCodexConnector`, `OverIsClosed`, `SlowIngest = TRUE` | A question's ingestion takes longer than its deadline: the sweep finds no item to expire, and the item that appears then stays open. | `V1_ACCEPTANCE.md:195` |
| `MCCodexConnector`, `EveryOverIsClosed` | A question is snoozed, its deadline passes and its expiry skips the snoozed item; the snooze comes due and opens it again: the item of a question that is over stays open. | `V1_ACCEPTANCE.md:193` |
| `MCPoisonedSpool`, `ValidIsReplayed` | A notification that the store refuses ends the drain and keeps its file, at every start; what is behind it waits. | `V1_ACCEPTANCE.md:58` |
| `MCHookDelivery`, `ImplementsLedger`, `Old <- FirstNote` | A drained event is stored, the runtime dies before it removes the file; the next start prunes the row (older than the retention), drains the file and applies the event again. | `M1_VERIFICATION.md:51` |
| `MCHookDelivery`, `SpoolBounded` | A hook is killed between its append and its prune, or a file that another hook has pruned ends its prune with an error: too much stays in the spool until the next hook prunes. | `M1_VERIFICATION.md:28` |
| `MCInstaller`, `WrappedLineRuns` | A default installation over a wrapped status line replaces the wrapper's script: the line that was wrapped runs no more. | `README.md:70` |
| `MCInstaller`, `RemovedLineStaysAway` | Wrap a line, remove it by hand, install and uninstall: the removed line is back. | |
| `MCInstaller`, `ConfiguredHooksRun` | An installation is cut off before the state is saved; uninstalling the other provider removes the binary its hooks run. | |
| `MCInstaller`, `OfferedRepairRuns` | Doctor offers a repair by the recorded options; called with others, it is refused. | `main.rs:651` |
| `MCApprovalLiveness`, `BlockedHookIsActionable` | After a clear the hooks that were blocked have no card any more: they wait until their deadline passes them through. | `M4_VERIFICATION.md:65` |
| `MCInstaller`, `UserHooksKept`, `LateEdits = TRUE` | An edit made while an operation runs is overwritten with what the operation read. | `README.md:45` |

Bounds. In the runtime and store instances `MaxTime` stops the clock at 2 or 3,
after the deadline and after an undo window or a snooze (1 each) that started at
0 or 1: every order of deadline, commit, undo and snooze occurs. Two requests
are enough for replacement and for the wrong one of two being matched, two
commands for a race between clicks, one crash for what a restart finds; a second
crash would find nothing the first did not leave. A runtime event is delivered
once (`Event`), a command id is posted once, hooks connect once. In
`MCApprovalStore` nothing is bounded but the clock. Commands are interchangeable
there and in the safety runs of the runtime with two commands, and are declared
symmetric; liveness runs use no symmetry. In `MCSessionStore` the clock has two
values, so that an event is as old as, younger than or older than the last one,
and two turns, so that one may end another. `MCHookEvents` stops at six events
(`MaxEvents`), enough for a prompt, a native call with a tool in it, a Stop and
the start of a second turn. In `MCCodexSync` two changes (`MaxChanges`) after any
first state make a wait begin and end, or end and begin again; one request for user
input (`MaxAsks`) meets the end of its turn in either order, and a second would write
what the first wrote. `SessionNews` are the hook events that create
the session; the user's commands are left to the runtime's runs.
In `MCCodexConnector` four calls (`MaxCalls`) are initialize, list and two
resumes, one of start and one of a click; a second question or thread adds
nothing but their product, as a question's threads only meet those of the
panel and the sweep; `MCLostThread` has two threads for the two writers.
`SlowIngest = FALSE` there says that an ingestion ends before the question's
deadline. In `MCHookDelivery` one file (`MaxFiles`) and three notifications make
hooks prune beside each other and beside a drain, two runtimes a race for the
lock and a takeover; the file of the second notification is too heavy on its own
(`SecondIsHeavy`), so a prune goes on for bytes where the number would let it stop,
and one failure (`MaxFailures`) is a notification that is written and spooled, or a
drain that ends early. By hand, `PairsAreHeavy` with two files passes, as does
`PrunedForKept` with `NoneHeavy`. `Poison` and `Old` are empty in the run and not in the
by-hand ones. `MCInstaller` has two processes that both want the lock, and
`MaxOps` = 3 operations with `MaxEdits` = 2 edits: enough for two parts to be
installed and one removed, or for a part to be installed, edited and repaired, each cut
off anywhere; the user edits between operations (`LateEdits = FALSE`).
`CHECK_DEADLOCK FALSE`: when the clock has reached its bound and every thread has
ended the system rests.

Fairness. `RegFairSpec` assumes that time passes and that the expiry thread,
which loops every two seconds, sweeps. `RuntimeFairSpec` assumes that time
passes, that a connection thread, an HTTP handler, a timer task and the expiry
thread take a step they can take: no lock is held across a wait and the writer
thread answers every message. `CodexSpec` assumes
that the manager's start, its reader and the calls of sync go on, and that
snapshots are built again and again, which the loop of every open panel does
(`websocket_loop`); nothing of the app-server and the hooks. `ConnectorSpec`
assumes that the runtime's own threads go on, that deadlines and call timeouts pass
and that a dead proxy's end of file is read; nothing of the app-server, the proxy
and the user. `DeliveryFairSpec` assumes that some hook and some starting runtime that is
not killed goes on, which is as much as each of them, because a hook takes finitely many
steps and one runtime at a time is up; that runtimes come and go is the premise of
`SpooledIsReplayed`. Nothing is assumed of users, providers, crashes or
of a restart after a crash, which is why `UndoWindowCloses` stops at the crash
and starts again with the next process.

## Proofs

`RequestProofs` proves of the registry, for any number of requests, correlation keys and
tickets, any deadlines and any clock bound:

- `RegTypeCorrect`: `RegSpec => []RegTypeOK`
- `IndexAlwaysConsistent`: `RegSpec => []IndexConsistent`
- `EveryWaiterGetsOneOutcome`: `RegSpec => []ExactlyOneOutcome`

from the assumptions named in `Core` and `WaiterRegistry`. None of the last two
is inductive alone. A registration passes the old owner of the correlation key
through by looking it up in one map and removing it from both; that the removed
ticket had received nothing needs `ExactlyOneOutcome`, and that it is the ticket
of the entry it was looked up by needs `IndexConsistent`. The inductive
invariant `RegInv` is the conjunction with the types. Every operation except
`Register` and the shutdown removes a set of requests and sends their tickets
one response, so one lemma (`RemovalKeepsInv`) covers decide, pass-through,
answer and expiry; `ChannelAfterSends` says what sending does to a channel.

`RequestProofs` proves of the store, for any number of requests, commands, turns and
tools, any deadlines and delays, every property its run checks:

- `StoreTypeCorrect`: `StoreSpec => []StoreTypeOK`
- `CommandsHaveOneWinner`: `StoreSpec => []OneWinner`
- `ItemsAreBacked`: `StoreSpec => []ItemBackedByCommand`
- `OpenItemsAreUndecided`: `StoreSpec => []OpenMeansUndecided`
- `ConfirmationsFollowSends`: `StoreSpec => []ConfirmedWasSent`
- `SettledItemsStaySettled`: `StoreSpec => SettledNeverReopens`

The inductive invariant `StoreInv` adds two facts to the checked ones: what a
command's state says about its other columns (`CommandRowsAgree`) and that
nothing is in play on an item that was not decided on (`UndecidedItems`). The
parts lean on each other in a circle. One command wins because a claim needs an
open item, and nothing is in play on one (`UndecidedItems`); an undo may reopen
its item because its command was the only one in play (`OneWinner`); provider
evidence confirms only what was sent because an item with a resolution has a sent
command behind it (`ItemBackedByCommand`) and that is the only one in play. The
transactions that settle items (expiry, reconciliation, evidence, a commit
without a waiter) share one lemma, `SettlingKeepsInv`.

`SessionStoreProofs` proves, for any number of requests, commands, native calls
and turns and for events of any age:

- `SessionImplementsStore`: `SessionSpec => ImplementsStore`, step by step: each
  transaction on the session is one of `ApprovalStore` or leaves its tables
- `SessionKeepsOneWinner`: with it, what is proved of `StoreSpec` holds here
- `SessionTypeCorrect`: `SessionSpec => []SessionTypeOK`
- `LastTurnRunsAlone`: `SessionSpec => []OneRunningTurn`
- `OwnersMatchStates`: `SessionSpec => []OwnerMatchesState`
- `LastEventIsMonotonic`: `SessionSpec => LastEventNeverRunsBack`
- `FinishedStaysFinished`: `SessionSpec => LateEventsKeepFinished`

The types of the approvals come from the simulation; the inductive invariant
`SessionInv` is about the session alone. `AbsentIsNew` is part of it because
`MayUpdate` lets any event create the session, and only a session that has seen
nothing may take an event of any age without its last_event_at running back.

`ApprovalRuntimeProofs` proves of the threads, for any number of requests, events,
commands and crashes, any deadlines and delays:

- `RuntimeImplementsRegistry`: `RuntimeSpec => ImplementsRegistry`
- `RuntimeImplementsStore`: `RuntimeSpec => ImplementsStore`
- `RuntimeTypeCorrect`: `RuntimeSpec => []RuntimeTypeOK`
- `DecisionsWereCommitted`: `RuntimeSpec => []DeliveredDecisionWasCommitted`
- `BlockedHooksAreActionable`: `RuntimeSpec => []BlockedHookIsActionable`
- `CommittingItemsHaveTimers`: `RuntimeSpec => []CommittingHasTimer`
- `LiveApprovalsAreOfThisRuntime`: `RuntimeSpec => []LiveApprovalIsOfThisRuntime`
- `AnsweredQuestionsClose`: `RuntimeSpec => []AnsweredQuestionCloses`
- `WaitersGetOneOutcome` and `SettledItemsStaySettledHere`: two theorems of the
  components, carried over by the simulation

Every step is shown to be a step of the registry and a step of the store (`StepOK`),
so `RegInv` and `StoreInv` are kept by what the other modules prove. The rest of the
inductive invariant `RuntimeInv` is what a thread between two steps may rely on
although others have run in between:

- `ThreadsKnow`: a waiter that a handler, a timer or the sweep found gone is still
  gone (`Gone`). That is why expiring its item by what was read before is safe. It
  holds because a request id is registered once (`FreshRequests`).
- `Presence`: a request has no row until its own thread has ingested it, and a
  thread that has not ended has its ticket in this process.
- `KindsKeepStates`: an approval is never snoozed, a question never committing; an
  acknowledgement that finds its item not actionable therefore finds it settled.
- `AwaitedHaveTimers`: a claimed command whose item still waits for it has its task.
  `CommittingHasTimer` alone is not inductive, because a task knows a command and
  not an item.

Steps of the store are summed up once, in `RowsGrow` (no row goes, what is settled
stays settled, a command keeps what it says), `NoNewItem` and `NoNewClaim`; with them
`ThreadStep` and the lemmas below it reduce an action to what it does to its own
thread and to the waiters. `BlockedHookIsActionable` depends on the order in the
code: whatever settles an item puts the request where it will be released in the same
step (the event's list, the handler's next step), or has released it before.
`ClearData` breaks that order, which is why it is not part of `RuntimeNext`.

`HookDeliveryProofs` proves, for any number of notifications, hooks and runtimes and
any `max_files` and any files that together exceed the byte limit, every safety
property of its run:

- `DeliveryTypeCorrect`: `DeliverySpec => []DeliveryTypeOK`
- `ServersOwnTheSocket`: `DeliverySpec => []ServingOwnsSocket`
- `SpoolLosesOnlyStored`: `DeliverySpec => RuntimeRemovesOnlyStored`
- `DeliveryImplementsLedger`: `DeliverySpec => ImplementsLedger`, if `Old = {}`
- `PruningCostsTheOldest`: `DeliverySpec => PrunedForNewer`, if `Old = {}`
- `SmallFilesCostTheOldest`: `DeliverySpec => PrunedForKept`, if `Old = {}` and no
  `max_files` files exceed the byte limit (`SmallFiles`)

`Old = {}` says that no row is pruned for its age; a notification whose row is gone
while its file is there would be applied again. `DeliveryInv` says that only the
holder of the lock is past its start and that a runtime about to remove a file has
ingested it. The ledger needs, besides, that the effects are counted by the rows
(`Counted`). The last two theorems are about stale lists:
another hook may have pruned, and a runtime drained, half of the list a hook prunes by.
`PruneInv` says that such a list is still too much, and that everything in it is
spooled, stored or among what other hooks have pruned of it (`missed`): an entry goes
only if it, with the newer ones of these, exceeds a limit. `missed` cannot be left out
when sizes differ: two hooks with different lists may both make room for the
same heavy notification, and the second removes an entry although what is left is within
both limits. Where `SmallFiles` holds it can (`KeptInv`): an entry with `max_files` newer
ones in the list has as many spooled or stored now, because an entry that another hook
has pruned had as many newer ones itself, and one that was drained has its row
(`ListHolds`).

`CodexConnectorProofs` proves of the connector, for any number of threads, panel
clients, questions and calls:

- `ConnectorTypeCorrect`: `ConnectorSpec => []ConnectorTypeOK`
- `CallsGetOwnAnswers`: `ConnectorSpec => []OwnAnswer`
- `PendingCallsWait`: `ConnectorSpec => []PendingIsWaiting`
- `QuestionsGetOneReply`: `ConnectorSpec => []OneReply`

`CallsInv` adds that an id has one caller for good (`OneCallerPerId`) and that what
the app-server was asked under an id is what its caller asked (`AskedForCaller`): an
answer that comes after its call gave up meets neither the entry nor a new owner of
the id. `OneReply` needs that a question with a reply is done (`RepliedIsDone`).

`CodexSyncProofs` proves of the manager and its thread, for any number of hooks,
pages, changes, requests for user input, attaches and store errors, any deadlines and any `IdleAfter`:

- `CodexImplementsRegistry`: `CodexSpec => RegSpec`
- `CodexHookGetsOneOutcome`: `CodexSpec => []ExactlyOneOutcome`
- `CodexImplementsSession`: `CodexSpec => SessionSpec`
- `CodexKeepsOneOwner`: `CodexSpec => [](OwnerMatchesState /\ OneWinner)`
- `CodexTypeCorrect`: `CodexSpec => []CodexTypeOK`
- `ResolvedHookIsReleased`: `CodexSpec => []ResolvedHookReleased`
- `ViewAlwaysCatchesUp`: `CodexSpec => []ViewCatchesUp`

A step of the manager, of a call or of a hook is one lock of the registry, or one
transaction on the session, or neither; that is the simulation, and with it the
theorems about registry, store and session are theorems about `CodexSpec`.
`ResolvedHookReleased` is kept because a hook registers before it has an item
(`UnseenHooks`), and because a call that has not been through its transaction has
nothing to release (`CallsRelease`), so that no call that begins or fails drops a
release. `ViewCatchesUp` speaks of the moment when every note is read; what carries
it there is that the last note says what the thread is (`LastNoteIsThread`) and that
a turn's start and end leave no wait (`NotesTell`): whatever the manager knew before,
the last note brings it up to date. A request for user input handled after that
changes at most one thing of what the manager knows, that the thread is active
(`RequestKeepsInv`), and the property allows that. It is about a manager whose thread is
not attached again, which `NothingAttaches` expresses for the calls under way.

`HookEventsProofs` proves of the provider's events, for any number of native calls,
approvals, turns and events:

- `HookImplementsSession`: `HookSpec => SessionSpec`
- `HookTypeCorrect`: `HookSpec => []HookTypeOK`
- `PendingCallIsShown`: `HookSpec => []PendingCallShown`, if `InOrder` and `~Parallel`
- `EndedCallIsCleared`: `HookSpec => []EndedCallCleared`, if `InOrder`
- `StoppedAlwaysShown`: `HookSpec => []StoppedIsShown`, if `InOrder`

The first two hold for events in any order. The hypotheses of the others are the
constants that the two configs above set otherwise, where the code does lose the
property: `MCLateStart` (a start ingested after its end) and `MCParallelCalls` (one
call's end takes the session out of another's wait). The three properties speak of
an empty `mail`; the invariant has to say what the store is while events are on their
way. `WayInv` says that there is a sequence of the provider's states, one more than there are
events in `mail`, that the store fits the first of them (`Matches`), that each event
is a move from one to the next (`Moves`) and that the last is the provider as it is.
Ingesting an event takes the first state away, and emitting one adds one at the end.
That an event which is a move takes a fitting store to a fitting one
(`MoveIngested`) rests on one lemma per kind of event. `MailInOrder` is what
`InOrder` is for: no event on its way is older than `last_event_at`, so none is
ingested as out of date.

`InstallerProofs` proves of the installer, for any number of processes, operations
and edits and settings files of any length:

- `InstallerTypeCorrect`: `Spec => []TypeOK`
- `RecordedHooksAlwaysRun`: `Spec => []RecordedHooksRun`
- `CompletedAlwaysHolds`: `Spec => []CompletedHolds`, if `~LateEdits`
- `UserLineIsKept`: `Spec => []UserLineKept`, if `~LateEdits`
- `UserHooksAreKept`: `Spec => UserHooksKept`, if `~LateEdits`
- `RepairReconnectsNothing`: `Spec => RepairNeverReconnects`, if `~LateEdits`

`~LateEdits` says that the user does not edit while an operation runs: the code writes
back what it read, and with `LateEdits` TLC finds the edit overwritten (the last row of
the table above). It is needed exactly where a property compares the file with what
was read; that recorded hooks have a binary holds whatever is edited when. An
operation is a sequence of writes, so the invariants say what is true at each of its
positions. `RunInv`: what was read is sound and the recorded state is still what it
was (`ReadIsSound`), hooks that were read keep their binary until they are taken out
(`ReadHooksRun`), and an uninstallation that has written its file has none left in it
when it removes the binary. `DoneInv` adds that what was read is still in the file
until it is written (`OperationHolds`) and what the write has made of it (`Effect`), so
that the report made at the end is true of all the files (`HooksDone`, `LineDone`), and
that a saved line has its delegate (`SavedHasDelegate`).

Only model-checked is liveness, because the prover has no rules for fairness:
`EveryHookReturns`, `UndoWindowCloses`, `WaitIsShown`, `SpooledIsReplayed`,
`LostIsShown`, `EveryQuestionReplied` and `OverIsClosed`. `ClearRuntime`, where the
user clears all data while threads run, has no theorems: its point is what goes
wrong. Every other property the runs check is a theorem above.

## Not modelled, and why

`PROJECT.json` lists every component with its status. The terminal modes of `serve`
answer a request from standard input instead of the panel and have no undo window
or timer. The doctor's other checks, quota, diagnostics, titles, authentication
and settings move data and share no state with decisions. The panel may post
anything, so its code adds nothing. Parsing and redaction are data, and so is the
validation of answers, abstracted to "valid or not". The writer thread is assumed to
answer: `StoreError::WriterStopped` leaves the runtime as `HookIngestFails`
does. Error and completion items, tasks and subagent counts are written by
the transactions of `SessionStore` and read by the panel only. Pings and the
instance id of the bridge choose between two ways to end a hook's wait without a
decision. `ensure_app_server` and `recovery_for` start external commands and wait for
them. Codex's trust of hooks is a report of `inspect`; symbolic links and
oversized files are refused before an operation begins.
