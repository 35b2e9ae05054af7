# A formal model of omh

omh is an agent runtime. Its durable half lets a host accept an operation (a
run, a compaction, a navigation) on a named lane of a stored session, drive it,
lose the process in the middle, attach a new harness and go on. Its in-process
half runs the same dialogue without durability, and a coding agent with a
terminal screen is built on that. The modules in this directory model the
control of both halves: what is committed in one transaction, what a process
keeps only in memory, and what other tasks may do between two suspensions of
the event loop.

Paths are relative to the repository root; `durable/` is short for
`src/omh/durable/`, `agent/` for `src/omh/agent/`, `llm/` for `src/omh/llm/` and
`coding_agent/` for `coding_agent/src/coding_agent/`.

1. the inventory: every component, its state, its operations, what is hard
   about it and what makes it correct;
2. the modules and how they are composed;
3. modules and code: how state and actions correspond to the source;
4. the runs: what each one checks, its bounds, its fairness;
5. the proofs: what is proved, from what, by which argument;
6. where code and documents disagree;
7. what is only model-checked, what is not modelled, and what is left to do.

## 1. Inventory

### The lane (`durable/runtime/lane.py`, `durable/runtime/drive/`)

*State.* Durable, per lane: `LaneState` (current operation, inbox, settings),
the branch tip, `operation_state` (a union of a dozen restart points),
`operation_meta`, `operation_result`, and temporary data owned by the state:
pending assistant frames, summary preparations, pending tool outcomes, the
payloads of queued inputs. Volatile: the drive task, its cancel scope, the
effect admission fence, the current step's local variables.

*Operations.* `accept` (run, navigation, compaction), `steer`, `follow_up`,
`next_run`, `cancel_queued`, `request_abort`, `abort`, `drive`,
setters of the lane's configuration, `watch`, queries. The drive loop
(`drive_operation`) reads the operation's state and performs that state's step:
start, checkpoint, generation, retry wait, tool batch, summary, navigation,
reconciliation of an abort.

*Interaction.* Every durable change is a transaction on the Session line
(`lane.mutate`); its events are queued on the bus after the line is released.
Hooks, providers and tools are awaited outside the line.

*Hard.* Between two transactions of a drive any caller may commit; the process
may be lost there too. An abort consists of a fence, a durable marker, a set of
delivered events, a future and a signal, in that order, each observed by
different tasks.

*Correct when* queued input is neither lost, duplicated nor reordered; a
provider request that was published gets one response entry whatever happens;
retries are bounded over restarts; temporary data goes with its state; an
operation has one final result; an abort ends its own operation and no other;
an operation that is driven ends; a new process finds all of it again.

### Summaries and navigation (`durable/runtime/drive/structural.py`, `durable/compaction/`)

*State.* The lane's, with four restart points of a summary and one of a plain
navigation, a stored preparation, one or two provider requests per attempt. The
preparation itself is computed: where to cut the conversation, what the summary
is to cover, what is retained.
*Hard.* Each request has its own intent and usage settlement, the whole has one
retry count, and an abort marker may be committed between any two of them. The
cut must not separate a call from its result.
*Correct when* the preparation lives exactly as long as the summary, every
request is accounted once, the reported tip is the history's, and summary and
tail together hold what the conversation held.

### Tool batches (`durable/runtime/drive/tools.py`, `tool_placement.py`)

*State.* One record per call (planned, effect pending, outcome ready), memo and
checkpoint data, pending output. *Hard.* Parallel calls share one
materialization lock; a call is replayed after a crash only if both the call and
the tool say it is safe; a failing call leaves its siblings running. *Correct
when* every call becomes one result entry in order, no unsafe call is repeated,
and an abort leaves no data of a call behind.

### Event bus and watch (`durable/events.py`, `AgentLane.watch`)

*State.* A chain of delivery tasks, each awaiting the one before; per watcher a
buffer, an epoch, a phase, held events and a chain of its own. *Hard.* The
snapshot is read on the line, the events arrive later through the chain, and a
barrier has to fall between the two; any of these tasks may be cancelled.
*Correct when* snapshot and events together miss nothing, repeat nothing but the
last covered event, and arrive in commit order.

### Session line and facade (`durable/session/session.py`, `facade.py`)

*State.* The mutation lock and its waiters, a closed flag, the facade's state
and its count of admissions, per mutation a commit task and an end task. *Hard.*
A cancelled caller leaves a shielded commit behind; close must drain what it
admitted. *Correct when* read-modify-write sequences never overlap, the count of
admissions is exact on every way out, close returns and leaves nothing running.

### Harness (`durable/runtime/harness.py`, `restore.py`)

*State.* Lane registry, fault, close, registries of tools and resources. *Hard.*
A fault seals every lane while others are being created; close waits for the
lane lock, which a fault's events hold. *Correct when* a lane has one object
that is stored, no lane works after close, a fault reaches the lanes there are,
and close returns.

### Storage (`durable/session/`, `src/omh/session_backends/`)

*State.* Values, lists, tables, entries with sequence numbers; in SQLite also
branch segments that cache parent links. *Hard.* A commit is validated and
applied whole or not at all; the segment index must agree with the links after
any sequence of appends, forks and compactions. *Correct when* both backends
implement one abstract store.

### Codecs (`durable/runtime/codec.py`, `durable/session/codec.py`, `restore.py`)

*State.* None; they turn states into JSON records and back, and `restore`
decides from the records which operation a lane has. *Hard.* A record that
cannot be read, or is taken for another operation's, loses the lane for good.
*Correct when* every state that can be stored is read back as it was.

### In-process agent (`agent/`)

*State.* A history, a steering and a follow-up queue, an active run with its
task, its idle future and what it inherited, signals. *Operations.* `prompt`,
`continue_`, `steer`, `follow_up`, `compact`, custom messages, `abort`, `close`,
`wait_for_idle`. *Hard.* Final listeners submit prompts from inside the activity
they end; a compaction supersedes what runs; queues are drained between turns
while callers fill them. *Correct when* inputs enter the history once and in
order, requests show well formed contexts and are bounded, activities execute
one at a time, and everybody who waits is released, not too early.

### Providers (`llm/`)

*State.* The message under construction, the open block, the queue of events.
*Hard.* A stream may stop, fail or be aborted at any chunk; a consumer that lags
behind reads a message that has gone on; a transcript with aborted turns must
become a request a provider accepts. *Correct when* events and frames describe
the message, and requests are well formed.

### Coding agent (`coding_agent/`)

*State.* Session files under an advisory lock, the runtime's current session and
its candidates; on the screen the editor, attachments, drafts of every
conversation, tasks that submit, manage and exit. *Hard.* A save may be torn,
another process may write, the history changes between the preparation of a
successor and its publication; a prompt may be rejected after the user went on
typing. *Correct when* what was saved is read back, a file has one writer, a
switch loses nothing, and what was typed is not dropped or moved to another
conversation.

### Coding agent startup (`coding_agent/host.py`, `cli.py`, `config.py`, `trust.py`, `model_directory.py`, `preferences.py`, `session_directory.py`)

*State.* Files: global and project settings, trust decisions, `models.json`,
credentials, saved sessions; one host's snapshot of what they say. *Operations.*
Reading and layering the settings, saving one of them, remembering a trust
decision, resolving models, prompts and resources, selecting a new, named or
last session, the command line. *Hard.* Every source may be missing, damaged or
untrusted; a choice that cannot be honoured must not be replaced in silence.
*Correct when* nothing of an untrusted project is used, a session that starts
has the model, level and directory that were asked for, and a save keeps what it
does not name.

### The rest

Hooks (`durable/hooks.py`): chains of handlers around an awaited call. Execution
environment and tools (`durable/env/`, `durable/tools/`): a shell command with
its pipes, deadline, abort and cleanup, an edit algorithm, a bounded view of long
output, a file mutation queue. Context,
skills and prompts: text loading. `PROJECT.json` lists each component with its
sources, what is modelled of it and what is left out.

## 2. The modules

| module | what it is | composed with, implements |
| --- | --- | --- |
| `DurableOperation` | abstract: what a lane promises about operations | |
| `RunLane` | runs, inbox, restart points, abort, crash | implements `DurableOperation` |
| `LaneRecords` | what `RunLane`'s states look like in the Session | `RunLane` with `DurableRecords` |
| `SummaryTask` | compaction and navigation as operations of their own | implements `DurableOperation` |
| `SummaryRecords` | what `SummaryTask`'s states look like in the Session | `SummaryTask` with `DurableRecords` |
| `DriveOwnership` | the drive task against `request_abort`, faults, close | implements `DurableOperation` |
| `ToolBatch` | one tool batch through aborts, crashes and lost drives | |
| `EventBus` | delivery chain and one watch handle | |
| `SessionLine` | mutation lock, facade, close | |
| `HarnessLanes` | lane acquisition, fault and close of a harness | extends `SessionLine`, implements it |
| `MemoryStorage` | abstract: the store a backend promises | |
| `SqliteStorage` | transactions and branch segments | implements `MemoryStorage` |
| `AgentLoop` | one activity of the in-process agent | |
| `AgentActivity` | who owns the agent: chains of activities | |
| `CodingSession` | session files, locks, switches | |
| `ProviderRequest`, `MessageFrames` | pure: request building; frames | |
| `CompletionStream` | one model request from transcript to frames | both of these |
| `InteractiveSession` | the terminal screen | |
| `DurableRecords` | pure: codecs and `restore` | |
| `Compaction` | pure: cut, estimate, what a summary covers | |
| `ToolCalls` | pure: outcome of in-process batches, hook chains | |
| `EditDiff` | pure: edits, their display, the mutation queue | |
| `ShellOutput` | pure: bounded views of output and their updates; the run of a shell command | |
| `HostSelection` | pure: settings, trust, models, the selection of a session | |
| `CommandLine` | pure: the command line and print's exit code | `HostSelection` |

`MC...` modules and their `.cfg` files instantiate them for TLC, `...Proofs`
modules hold the proofs. A pure module is checked by a property of a run of the
component that uses it, over all inputs up to a size: `DurableRecords` in the
invariants of both record modules, `Compaction` by `CompactionSound` of
`MCSummaryTask`, `ToolCalls` by `CallsSound` of `MCAgentLoop`, `EditDiff` and
`ShellOutput` by `TextsSound` of `MCToolBatch`, `HostSelection` and `CommandLine`
by `StartupSound` of `MCInteractiveSession`. Such a property depends on no state;
it is stated under the initial predicate, so that TLC evaluates it there only
(`TextsSound` and `StartupSound` as action properties, at the steps that leave an
initial state).

`RunLane` and `DriveOwnership` look at the same code from two sides. `RunLane`
has the data (what each transaction writes) and takes from `DriveOwnership` that
a signal may interrupt the drive at any hook or wait; `DriveOwnership` has the
control of the tasks and takes from `RunLane` that an operation alternates
between ready states and pending effects. `ToolBatch` is the inside of what
`RunLane` has as one batch, `SummaryTask` that of a summary. `SessionLine`
justifies what all of them assume: a transaction is atomic and the line is first
come, first served; `SqliteStorage` that it is all or nothing.

## 3. Modules and code

Every module begins with a comment that names its abstractions, and every action
names the function it translates; `PROJECT.json` ("map") has the lines. Operators
whose name begins with `Mut` are plausible bugs: no specification uses them, they
are there to show that each property can fail.

**DurableOperation.** Three variables: the lane's current operation, whether it
carries the durable cancellation marker, and the results. Three steps: accept an
id that has no result on an idle lane, mark, settle. `declined` is a status of
summaries only. A marked operation may settle otherwise than `aborted`: the
transaction that ends it may already have been under way.

**RunLane.** One action is one Session transaction or one decision the drive
takes outside the line. The drive's program counter `pc` says where the task is:
at the top of `drive_operation`'s loop (`check`), about to perform the step of
the state (`act`), inside `run_checkpoint` (`hook`, `commit`), streaming a
response, or reconciling. `run_checkpoint` is three actions (`PrepareCheckpoint`,
`BeforeRunEnd`, `Checkpoint`) because it visits the line or a hook three times,
and the last one reads the inbox again. The branch is a path and an entry its
depth; inputs are numbered in the order of their enqueue transactions, so the
inbox is a set and `InboxItem` order is `<`. `Crash` drops the volatile
variables only; `Init` and what follows a crash are a restored harness that has
not been told to drive. What a provider answers, what hooks return and whether a
compaction is possible are choices.

**LaneRecords, SummaryRecords, DurableRecords.** `DurableRecords` translates the
codecs: a typed value is a record whose `is` names its class, its encoded form
has the keys of the JSON object, an absent key and a null are both `Null`, and a
decoder that raises gives `Invalid`; ids, texts and numbers are opaque
`Scalars`. It keeps what the codecs do not keep: `encode_message` omits
`AssistantMessage.thinking_level` and refuses a `SystemMessage`, and a summary
task is read back only when one thing follows it. `Restore` is
`restore_session` for one lane, `ReadExecution` and `CaptureSnapshot` are what a
host's inspection and a watcher read. `LaneRecords` and `SummaryRecords` say
which records each state of `RunLane` and `SummaryTask` stands for, and
`RestoreResumes` that a process opening the Session at any moment gets that
state back.

**SummaryTask.** The same style as `RunLane`, for the two structural operations.
`held` is the state the drive read or wrote last; every publication compares it
with the stored one (`Owned`) as the code's `snapshot.state != capability` does,
and what happens on a difference depends on the place: the outcome writes
nothing, the request's intent and outcome raise. The history starts as a fork so
that navigation has a branch to go to.

**Compaction.** Conversations are sequences of entries with a kind, a size, the
usage the answer reported and the files touched. Both implementations are here,
the lane's and the in-process agent's; they differ in where a cut may fall and
in what becomes of the previous summary.

**DriveOwnership.** The fields `_drive_operation_id`, `_drive_cancel_scope`,
`_effect_admission_closed_for`, `_abort_settled`, and the suspended points of the
drive task and of each `request_abort` call. The scope is a single slot: a new
drive gets a new scope, and a request signals the scope that is there when its
events have been delivered. That this is right rests on two facts of the code
that the model has: the bus delivers batches in order, and a drive's last events
are delivered before the next drive can start. An emitter that is cancelled while
its events are delivered (`CancelCaller`, `CancelOther`, `Close`) takes the whole
chain down (`BreakBus`, `busDown`): other requests that wait there, and every
later one with events, get a `CancelledError` and leave their future unsettled;
a drive ends at its next events with what it committed.

**ToolBatch.** `call` is the durable record of each call, `results` the entries
placed; task `p` of drive `d` is `worker[d][p]`, with `p = 0` the drive's own
materialization. A drive that unwinds (`lost`) leaves tasks behind that go on
with what they held. `StageResult` compares the record it holds with the stored
one and, where the code raises, faults.

**EventBus.** `chain` is the bus's tail of delivery tasks, `queue` the handle's
own; a cancelled delivery cancels what it awaits and what awaits it, hence
`broken`. A push is dropped, held, buffered or queued by the handle's phase and
state; an epoch makes deliveries that were queued before a resnapshot void.

**SessionLine.** `holder` and `waiters` are the fair asyncio lock; `Release` is
the body of `_settle_and_release`, a task of its own that outlives its caller.
`mutate` and `begin_mutation` differ in how long their admission lasts
(`LastsTheCall`). `RepoClose` joins the line like a mutation, facade or not.

**HarnessLanes.** Extends `SessionLine`: each of its mutations is made once, for
a lane acquisition, for a drive of a lane or for the host. The lane lock
(`lockHolder`, `lockWaiters`), the fault and the close are the harness's; a lane
is published when its acquisition's mutation returned, whatever happened
meanwhile.

**MemoryStorage, SqliteStorage.** A commit is one action with its batch of
writes. In `SqliteStorage` the writes are applied one after the other to the
tables, under their keys and triggers, and a failure rolls back; branch reads go
through segments, rows named by sequence numbers with a base below which another
segment's rows count. `M!Spec` of the in-memory store is its abstract
specification, with the same sequences, statistics and failures.

**AgentLoop.** An action is what the task of one activity does between two
suspensions: `_run_dialogue`, the loop it drives, recovery, compaction. Inputs
are numbered as accepted; `pending` are those the loop has taken and not
committed, which is where an abort loses them (section 6). A response is its
stop reason and its calls; one that failed or was aborted (`hard`, for the "hard
exits" of `loop.py`) may carry calls too, which nobody runs.

**AgentActivity.** `run` is the sequence of `_ActiveRun` objects, as they were
made. A run's task and its idle future are known by the run they were made with,
because a chain of prompts shares both. `overtaken` is history: a compaction that
waited with prompts was superseded (section 6).
`Step` is everything the agent's tasks do; prompts, compactions, custom messages
and `close` are the environment's.

**ToolCalls.** `Execute` runs an in-process batch from a script of what its tools
and hooks do, one after the other or all at once, with an abort after a number of
looks; the hook chains of `durable/hooks.py` are folds over handlers' answers.

**CodingSession.** A file is the lines that `decode_history` reads and the `rest`
after the last line break: nothing, a whole line, or a part of one. A line
appended to a rest becomes one broken line with it, which readers skip; that is
why a manager whose write failed appends no more, until the file is saved whole. A
header counts the records it was written with, and a file with fewer is
unreadable. A session has its history, what it saved, a path, a lock; a switch is
admitted, prepared, owned and published, and everybody else runs between these
steps, the host's `Save`, `Rebind` (the `path` setters) and `CloseSession` of the
current session included. A candidate for the current session's own file is
prepared without a lock; `forsaken` is history, the files that the current session
gave up, or saved another history to, under such a candidate (section 6).

**CompletionStream, ProviderRequest, MessageFrames.** `ProviderRequest` turns a
transcript into parameters, `MessageFrames` records events as frames and reduces
frames to a message (the durable lane stores these frames, and recovery reduces
them). `CompletionStream` lets a provider send text, thinking and parts of calls
in any interleaving, in three styles, to a consumer that may lag.

**InteractiveSession.** A text or an image is a token with the conversations it was
typed in, or copied to by a fork. Keys of one read are handled before the tasks they created take their
first step, so a task is first `created`. `slips` collects, at the places where
it happens, what the code itself drops.

**EditDiff, ShellOutput.** Texts as sequences of characters with the few classes
the algorithms tell apart; bytes where a character may be split between chunks.
`ShellRun` is `exec` of `local.py` as a function of what happens to it: output,
the end of the shell or of a background child that holds the pipes, the deadline,
an abort, a cancellation, cleanup.

**HostSelection, CommandLine.** Functions of files and options. A JSON value has a
type, what the code tells apart of it, and its members; a model reference is the
sequence of its parts between slashes; a diagnostic has a source and a reason, on
which it depends whether the host may go on.

## 4. The runs

All runs are started with deadlock detection off: an idle lane, a line nobody
uses and a bus without commits are legitimate ends.

| run | question | properties |
| --- | --- | --- |
| `runs` | Is a run right over its inbox, retries, tools, an abort and two crashes? | `InputsKept`, `StateOwned`, `RestoreResumes`, `EffectsBounded`, `ImplementsOperation`, `OpenRunSettles` |
| `summary` | Are preparation, requests, result and history of a summary consistent? | `SummaryAccounted`, `RestoreResumes`, `CompactionSound`, `MarkerWins`, `ImplementsOperation`, `OpenSummarySettles` |
| `drive` | Does an abort stop exactly its own operation, whatever races with it? | `AbortReaches`, `NoEffectUnderMarker`, `DriveEnds` |
| `batch` | Does every call leave one result, in order, and no unsafe call run twice? | `OneResultEachInOrder`, `EffectsOwned`, `TextsSound`, `SettledNotRerun`, `BatchEnds` |
| `watch` | Do snapshot and stream fit together? | `WatchersSeeAll`, `ResnapshotReturns` |
| `line` | Do mutations serialize, lanes stay accounted, and does close drain? | `LanesAccounted`, `ClosesQuietly`, `HarnessCloseReturns` |
| `store` | Do branch segments spell the parent links, and is SQLite the in-memory store? | `BranchCachesSound`, `ImplementsMemory` |
| `dialogue` | Do inputs, contexts and requests of one activity stay sound? | `RequestsSound`, `CallsSound`, `InputsInOrder`, `RunSettles` |
| `activities` | Do activities take turns, and is everybody who waits released? | `ActivitiesInTurn`, `WaitersReleased` |
| `sessions` | Is what was saved read back, by one writer, through every switch? | `FilesSound`, `HandoffKeepsHistory` |
| `request` | Do request, events and frames say what was said? | `RequestWellFormed`, `AnswerFaithful` |
| `screen` | Does the screen keep what the user typed, and does startup choose what was asked for? | `NothingLost`, `StartupSound`, `ExitSettles` |

### What the properties say

*runs.* `InputsKept` joins four relations between the inbox, the payloads, the
history and what was handed back, over all five operations that move an input:
`InboxBackedByPayload`, `InputAccounted`, `KindFifo` (order over several
boundaries) and `DistinctEntries`. `CompletedRunTookInput` holds because the
checkpoint's last transaction reads the inbox again. `StateOwned` joins
`RequestSettledOnce` (intents against responses over crashes),
`TemporaryStateOwned` (every exit of every state) and `DriveOwnsState` (the
errors "no longer owns" of a run are unreachable). `EffectsBounded` joins
`RetryBound`, `OverflowOncePerTrigger`, which excludes the endless overflow
loop, and `CompletedRunTookInput`.

*summary.* `SummaryAccounted` joins `PreparationOwned`, `RequestsAccounted` and
`ResultMatchesHistory`; `MarkerWins` is the race of an outcome with a marker.
`CompactionSound`: both cuts over all conversations of four entries
(`LaneCompacts`, `AgentCompacts`), the estimate and its stale usage
(`LaneUsageGoesStale`), budgets (`BranchWithinBudget`, `SummariesFit`).

*drive.* `AbortReaches` joins `AbortFenced` (no signal to another drive),
`SignalReachesEffect` (none too late) and `ReconcilesMarked`; `DriveEnds` is the
liveness of an aborted and of a faulted drive; it excepts what waits for a request
that was cancelled before it told the drive, by its own caller or by a bus that
went down (`Forsaken`), and holds over a bus that is down otherwise.

*batch.* `EffectsOwned` joins `UnsafeOnce`, `TemporaryDataOwned`,
`FreshCheckpoint` (a task writes progress only for its own execution) and
`FaultNeedsLostDrive`; `SettledNotRerun` is an action property. `TextsSound`:
bounded output and its updates, shell commands (`RunsAccounted`: all runs of six
events), edits and mutation queues; it also says where the code is less than one
would expect (section 6).

*watch.* `WatchersSeeAll` joins `NoGap`, `InOrder` and `OverlapBounded`.

*line.* `LanesAccounted` joins `NoLostUpdate`, `LanesAreStored`,
`ClosedLanesRest` and `FaultSealsLanes`; `ClosesQuietly` joins `AdmissionsCounted`, `ClosedDrained`
and `RetiredQuiet`.

*store.* `BranchCachesSound` compares every scan through the segments with the
walk along the parent links, and bounds what a fork copies.

*dialogue.* `ContextPaired`: a request never shows a result without its call, nor
a call of this run without its result, but those of a failed response (section 6);
`RecoveryBounded`: a failing model is not called for ever; `InputsInOrder`:
inputs enter the history once and in the order of their queue
(`InputsOnceInOrder`), one steering message per request, none taken once an abort
was seen. `CallsSound`: what becomes of the calls of a batch over all scripts of
two calls, and of an event in a chain of handlers.

*activities.* `PromptsInOrder`: one activity executes at a time
(`OneExecutes`), and a prompt that was accepted waits in one place, or was
started once, or was stopped by close, in order but for prompts of different runs
once `overtaken` (`PromptsStartOnceInOrder`). `IdleIsExact`: nobody who waits is
released before the prompts of the chain have had their run
(`IdleIncludesChain`), and the agent is busy exactly while something is accepted.
`WaitersReleased` is liveness.

*sessions.* `SavedWhole` (what was reported as saved survives) and `LocksOwned`
(nobody but the current session and the candidate has a lock, each of the file it
is bound to, and no two the same), both but for `forsaken` files, of which only
the last part is known.

*request.* `AnswerFaithful` joins `EventsDescribeMessage`, `CutOffIsError` and
`FramesRebuildMessage`: frames of any prefix of the events rebuild what the
consumer was told.

*screen.* `NothingLost` joins `NothingDropped` (but where `slips` names it),
`DraftsStayHome` and `ExitCoversHistories`. `StartupSound` joins the facts about
files and options: settings keep their layers and are kept by an update
(`SettingsHold`, `UpdatesKeep`), `DirectoryKeepsBuiltins`, `DefaultReadBack`,
`UntrustedUnused`, a selection that cannot run says why and is never another one
(`SelectionsHonest`, `AllowedIsSelected`), `SessionsFound`, the command line
(`LinesRead`, `CommandsFit`), `FilesKept`.

### Bounds, and why they are enough

* `runs`: one run, one input of any of three kinds, two attempts, two crashes,
  depth three (`MaxTip` stops the model and the hooks from adding turns; inputs
  and responses still do). One input is cancelled, drained or consumed at any
  boundary; two attempts are one retry; two crashes can both fall into one step
  or one into each of two; depth three allows a tool turn, a compaction and an
  overflow after it. Two inputs and two runs, what an order or a remainder needs,
  are the configuration `MCRunLane` with `Ops = {o1, o2}`, `MaxInputs = 2`,
  `MaxTip = 2`, `MaxCrashes = 0`, `MaxAttempts = 1` and
  `SYMMETRY Symmetry`, which passes for `InputsKept` and `CompletedRunTookInput`
  (a part of `EffectsBounded`).
  The proofs cover every bound and mode.
* `summary`: two operations (the second sees the history and the tip the first
  one left), two attempts, one crash at any point, one or two requests.
* `drive`: two operations one after the other, two abort requests, two effects,
  one failing commit. Fencing needs a second operation to be hit by mistake and
  the second request to be on its way when the first has settled.
* `batch`: two calls, parallel or sequential, and one mishap: a crash, or a tool
  that raises the cancellation that ends its drive and leaves its sibling.
* `watch`: four commits, two resnapshots: commits before the snapshot, between
  it and the barrier, and after it, and a resnapshot that follows another.
* `line`: two mutations, each an acquisition, a drive or the host's, two lane
  names of which one is stored already. `SessionLine` alone with three
  mutations (one in the storage, one waiting, one that arrives during close)
  passes for all its properties.
* `store`: five entries with every parent and kind: a fork of a fork with a
  compaction in it. `MaxOther` is one write that is no entry.
* `dialogue`: two inputs, two responses with at most one call, one compaction,
  one failing hook or listener, one retry.
* `activities`: six runs, two prompts of final listeners, one custom message, two
  listeners: three compactions that supersede one another while prompts are
  handed from one to the next. With five runs no compaction that holds prompts
  is superseded.
* `sessions`: two paths (symmetric), two sessions alive, two entries, one mishap,
  and one save, export or change of a path, which may come in the middle of a
  switch. With two of them the properties hold as well.
* `request`: 4,224 transcripts with tools, images, changes of the system message
  and turns that left all calls or all but the first without results, five kinds
  of provider, answers of three pieces in two calls.
* `screen`: two texts and an image over two conversations, one fault, two
  commands (`MaxCommands` counts slash commands, Ctrl+C, external editors, exit
  requests and fork selectors).
* The pure modules are evaluated over all inputs up to a size: conversations of
  four entries, texts of up to eight characters, files of four characters, chains
  of two or three handlers, batches of two calls.

### Fairness, and why the code justifies it

The asyncio loop runs every ready task, so a task's own steps are weakly fair.
Providers, hooks, tools and storage are assumed to answer in `RunLane`,
`SummaryTask`, `SessionLine`, `AgentLoop` and `AgentActivity`; in
`DriveOwnership` an effect need never answer (`Answer` has no fairness), which is
what makes `AbortEnds` say something, and in `InteractiveSession` only the
screen's own tasks are fair, not the user. `TimePasses` is the clock. The host
drives an open operation again whenever no drive is live: that is the host's
part of the contract in `docs/durable/operations.md`, and the liveness of a lane
without it is empty; `DriveOwnership` asks for strong fairness there because an
attempt may meet a drive of another, settled operation again and again. Nobody
is forced to queue, cancel, abort, commit or close, and nothing forces a crash.
Liveness holds after the last crash, of which there are finitely many. `store`
and `sessions` state no liveness and use no fairness.

## 5. Proofs

TLAPS checks the theorems below for every value of the constants, under the
assumptions the modules name (natural bounds, at least one attempt or call,
finitely many mutations and lane names, markers that are no ids) and the
hypotheses a theorem states. Each invariant was checked by TLC first. The proofs
are about the specifications without fairness.

**RunLaneProofs.** `ControlInv` is `TypeOK` with `Control`: there is a current
operation exactly when there is an operation state, a drive exactly when its
program counter is not idle, and the three parts of `StateOwned`. None of the
three is inductive alone: the stream settles a request it can only have if the
drive still owns `effectPending`, which every other action has to respect, and
the count of unsettled requests stays natural only because a settlement finds
one. `QueueInv` joins the four parts of `InputsKept`. The order of placements
needs the bound on them (an earlier placement lies on the branch, at most at its
tip, and a new one lies above it); the central lemmas are that selections are
`Downward` (what is taken never passes over an earlier input of its kind), that
the rank of a selected input grows with the input (`RankOrder`), and that
placing a downward-closed selection above the tip preserves `QueueInv`
(`PlaceQueue`). `TookInput` is an action property: the disjunct of `Checkpoint`
that completes had an empty selection, and an empty selection with follow-ups
allowed means neither a steer nor a follow-up is queued. `RetryInv` ties the
published intents to the attempt number; `OverflowInv` says every trigger whose
recovery was spent lies on the branch and the open step knows whether its own
was. `Implements` is the refinement of `DurableOperation` under `FreshIds`
(section 6 has what happens without); it needs that an idle lane is not marked
(`IdleUnmarked`). `LaneRestoreResumes` is about the records: `ShapeInv` says
which fields a state of each kind has, so that its record is one that
`DurableRecordsProofs` reads back, and that the inbox's numbering is a sequence
(`RankTaken`, `QueueRead`).

**SummaryTaskProofs.** `IInv` has a part for each relation the code relies on.
`RecordsInv`: the durable records agree with each other. `PointInv`: where the
drive stands determines the stored state, because other callers only write the
marker. `HeldInv`: what the drive holds is the stored state but for the marker;
so `Owned` can fail for no other reason, which makes `MarkerPrevails` follow.
`RequestInv`: the requests of the current attempt, and which outcome may be about
to be published; `RequestsAccounted` is a part of it and not inductive without
the bound on earlier attempts. `ResultInv` is `ResultMatchesHistory` with the
entry inside the history, since an append must not disturb earlier results.
`SummaryImplements` is the refinement of `DurableOperation`, here without an
assumption on ids: the model's operations have fresh ones.
`SummaryRestoreResumes` needs `KindInv` besides: a state's details fit the
operation's intent, which is what `restore` refuses otherwise.

The module also has what `Compaction` promises for every conversation and every
number of tokens to keep: history, prefix and tail are the whole branch
(`PartsCover`), a retained result keeps its call (`RetainedResultsKeepCalls`),
and summary and tail hold what the conversation held (`AgentRemembers`;
`LaneRemembers` with the exception of section 6). The cut is the greatest place
of a finite set, found by well-founded induction over a fixed order
(`LeastExists`, `GreatestExists`).

**LaneRuntimeProofs**, for `DriveOwnership` and `EventBus`. A request reads the lane's fields, waits for the line,
commits, waits for the bus and then signals whatever scope the lane has. `IInv`
says for each of these points which operation the request may still name
(`Named`, `Sealed`), whose request closed admission (`Admission`), that the scope
is the driven operation's (`Scoped`), and where a request's batch lies relative
to the last batch of the drive (`Waiting`, `Placed`). `SignalsReach` and
`MarkerStopsEffects` follow; `Guarded` (a marker that appeared after the drive's
last look had closed its admission) is what the second rests on.
`DriveImplements` is the refinement of `DurableOperation`.

An event goes from its commit through the chain to the held
events, the buffer, the queue and the listener. `OrderInv` orders the events
along this way, `BarrierInv` says that a waiting resnapshot's barrier is in the
chain once and what lies before and behind it, `EpochInv` that nothing is pushed
past a resnapshot, `CoverInv` where every event is that the watcher's snapshot,
or the one it waits for, does not cover, `OverlapInv` that nothing older than
the snapshot's last commit is on its way. `WatcherSeesAll` follows.

**ToolBatchProofs.** The invariant has two halves. What the Session keeps is
ordered by `_replace_call` and the materialization, whoever wrote it: that half
is inductive for lost drives too and gives `ResultsStayInOrder`. That no write is
refused and no checkpoint stale holds because a drive that was not lost has the
only tasks, which is `Alone`: hence `EffectsStayOwned`, whose last two parts
speak of behaviours without a lost drive. `SettledStaysNotRerun` is an action
property. `UpdatesRebuild` is about the shell output a tool streams: whatever
overlap the publisher's bounded search found or missed, a client that applies
its update has the next view's text.

**SessionLineProofs.** `HolderInv`: the line belongs to the one mutation that
runs its callback or whose end is pending. `ReadInv`: what that mutation read is
still what is stored until its commit is settled, whoever was cancelled;
`UpdatesKept` follows. `WaitersInv` is needed because a waiter that is cancelled
must not be left a second time in the queue. `AdmissionStep` is the only lemma
about cardinalities: a step admits or releases one mutation and counts it.
`HarnessUsesLine` shows that every behaviour of the harness with its lanes is
one of the line, so the line's theorems carry over (`HarnessKeepsUpdates`,
`HarnessClosesQuietly`); `LanesStayAccounted` adds the harness's own `HInv`.

**AgentProofs**, for `AgentActivity` and `AgentLoop`. `TurnInv`: the activities that are not over are the
newest ones, the oldest of them alone executes, and each of the others waits for
the task of the one before it; so a prompt is handed over only to a compaction.
`PlaceInv` and `OriginInv`: a prompt is in one place, and prompts of one run
travel together. `OrderInv` has the order of what is held and started; that the
live run, which takes over at the end of its queue, holds the older prompts needs
that no compaction between it and the run that hands over holds any, which is
where the proof failed first and the model checker then found the behaviour of
section 6. `IdleInv`: a run carries the idle futures of the prompts it holds
and of the one it runs, no two runs carry the same, and none is set; the carried
futures are what `inherited` is for. `ActivitiesTakeTurns` follows.

For the loop of one activity `DialogueInv` has nine parts, of which
`RequestsAreSound` and `InputsStayInOrder` follow. A request shows only results
whose calls it shows. That needs the shape of the history (`WellFormed`): results
follow their response with nothing between, a compaction keeps a tail that begins
with an input or a response, and a response is omitted together with its results
in one go, so that a projection never cuts between the two. Conversely every call
of a usable response of the run has its result before the next request, or a task
that is about to write it (`CallsInv`), which is where the places of the task matter (`PointInv`:
while tools run, the newest response has only its results behind it;
`RecoverInv`: when the recovery compacts, the unusable response is already
omitted). `CountInv` bounds the responses without an answer by what the present
request has retried and what was spent before the one recovery. `StageInv` says
where an input is: in its queue, taken and pending, in the history, or lost to an
abort, in exactly one of these; and that two inputs of one queue pass the stages
in their order (`KeepTheirOrder`), because each step moves a head of the queue or
all of it. `DeliveredInv` is about the one steering message per request. The
theorems hold for every number of inputs, calls, retries and compactions and for
both queue modes.

**CodingAgentProofs.** `FilesAreSound` and `HandoffIsKept` are proved for every
number of paths, sessions, entries, saves and faults, and whatever the host does to
the current session in the middle of a switch. The invariant says what the holder
of a file knows of it: a manager that reports "saved" has the whole history in the
file and nothing behind it (`SavedInv`), a lock belongs to one open session and to
the path it is bound to (`LockInv`). A candidate that opens the current session's
own file has no lock of its own; until it is published, or the file is forsaken,
it counts on the current session's lock, and on the file being what it read as
long as the current history is what it was when it read (`BorrowInv`). Of a
forsaken file the invariant says what it is made of and that it has one writer. The runtime looks at that history once more before it closes the
Agent, and after that nothing is recorded; this is the step the whole argument
turns on. `DeriveInv` keeps a derived history a part of the current one. About
files, the lemmas say what an append leaves on every rest, and that whatever an
append cut short leaves still has the acknowledged history as a prefix
(`SavedSurvives`).

`NothingIsLost` is proved for every set of texts, images and conversations, from
assumptions that only keep the marks apart and ask for one conversation. The
screen's invariant says of every item where it is: given up, dropped at one of
the places `slips` names, in a history, in the editor, aside (the cleared line,
the draft, the source of a switch, the image being read, a queued input, a
stored draft) or with a task (`PlaceInv`), and which conversation it belongs to
(`HomeInv`). An action moves items between two of these places, and it may do so
only because of what the rest says: a prompt's task that has ended holds nothing
and a run belongs to the prompt that waits for it (`TasksInv`); while a
conversation is replaced no prompt, run, shell or attachment is there, a new
conversation was not known before, and a fork copies one message of the history
shown (`ReplaceInv`); no draft is stored for the current conversation or for an
unused one, so that publication overwrites none (`KnownInv`); an image in the
queue is among those a recall gives back (`QueuedInv`). `PlaceInv` also carries
what an exit needs: once it is requested nothing that is not submitted is left
that the user has not given up, and `ExitInv` what the way out has waited for.
Each part has one lemma, with a step for every action that writes to a variable
of that part.

**DurableRecordsProofs.** Lemmas read back one record class at a time, from calls
to batches to states; `StatesReadBack` and `PreparationsReadBack` put them
together, and `RestoreAccepts` says that `restore` takes every stored operation
whose state fits its intent. Its hypothesis is `Json`: numbers are scalars, and
neither null nor the mark of an error is an object. Both `RestoreResumes`
theorems have that hypothesis and `Ops \subseteq Scalars`: ids are JSON.

## 6. Where code and documents disagree

Each paragraph names a property that states the document, or what one would
expect where there is none. The properties are
defined in the modules and in no configuration; the constants with which TLC
finds the counterexample are given here, in the form of the component's own
`.cfg`.

* *Input behind the marker.* `docs/durable/operations.md:49`: "Items enqueued
  after the abort marker remain queued." `run_checkpoint` can be past the abort
  check when the marker is committed, and its transaction then takes input that
  was queued after the marker. `InputKeptAfterMarker`, `MCRunLane` with one
  operation, `MaxInputs = 1`, `MaxTip = 1`, no crash, one attempt, modes `"all"`.
* *Operation ids again.* `lane.py:309` looks only at the lane's record, so an
  operation id may be used again after it settled, which replaces its result:
  `ImplementsOperation` of `MCRunLane` with `FreshIds = FALSE`.
* *Cancelled abort caller.* `docs/durable/invariants.md:15`: "Caller cancellation,
  durable abort, close, and storage fault remain distinct". `request_abort`
  settles its future only when it returns or fails with an `Exception`; when its
  task is cancelled, or gets the `CancelledError` of another emitter's cancelled
  delivery (`events.py:398`), the drive it sealed waits for ever. `DriveNotStuck`,
  `MCDriveOwnership` with `FairSpec`, one operation, one request, `MaxEffects = 1`,
  `CallerCancels = TRUE`, `CommitFails = FALSE`.
* *Abort becomes a fault.* The same sentence. The publication of a summary's
  request intent or outcome raises when a marker was committed meanwhile, and an
  exception inside `lane.mutate` faults the harness. `AbortIsNoFault`,
  `MCSummaryTask` with one operation, one attempt, no crash.
* *Cancelled emitter.* `docs/durable/invariants.md:17`: "Watch snapshot/event
  boundaries avoid gaps". `emit_batch` awaits its delivery without a shield, so
  that one cancelled caller ends all later deliveries. `AvoidsGaps`, `MCEventBus`
  with `MaxCommits = 2`, `MaxSnapshots = 0`, `EmitterCancels = TRUE`.
* *Second cancellation.* `docs/durable/storage.md:39`: close "drains accepted
  operations". A `mutate` call that is cancelled again while its commit settles
  gives up its admission; the facade closes, and closes the backend, over the
  running commit. `ClosedAtRest`, `SessionLine` with one mutation.
* *Lane behind the fault.* `docs/durable/execution.md:42`: a fault "rejects later
  lane work". A lane that is being acquired when the harness faults is published
  unsealed (`harness.py:198`). `FaultRejectsWork`, `MCHarnessLanes` with
  `HarnessSpec`. `FaultSealsLanes` is as strong as the code allows.
* *Listener that closes.* A listener of the fault event that awaits
  `harness.close` waits for the lane lock which the fault's emission holds when
  the fault struck an acquisition: `HarnessCloseReturns` with
  `ListenerCloses = TRUE`.
* *Queues after an abort.* `docs/agent.md:1081`: "unconsumed steering and
  follow-ups remain queued". The in-process loop takes them from their queues
  before a hook and a compaction may run; an abort meanwhile leaves them in
  neither the queue nor the history. `UnconsumedStaysQueued`, the constants of
  `dialogue`.
* *Calls without results.* No document promises them; a provider may refuse the
  request. A stream that breaks off is committed with the tool calls it had ended
  (`loop.py:228`), which are not run. After an error that is not retried, input
  queued meanwhile goes on with the conversation (`agent.py:1241`), and the next
  request has the calls without their results, as has every later one.
  `CallsAnswered`, the constants of `dialogue` with this invariant.
* *Dropped prompts.* `docs/agent.md:1044`: the original caller receives an error
  when close stops an accepted prompt. The error is set on the last prompt's
  `_ActiveRun` when an earlier one went on in the same task, and the caller waits
  on the first. `DropsReported`, `MCAgentActivity` with `Spec`, `MaxRuns = 5`,
  `MaxAccepted = 3`, `MaxCustom = 0`.
* *Prompts out of order.* `docs/agent.md:1006`: "accepted prompts execute serially
  in FIFO order", and `agent.py:959` means to keep them so under the live
  activity. A run hands its prompt to a compaction that waits; another compaction
  supersedes that one, and a prompt accepted in between reaches the new one
  first. `StartedInOrder`, `MCAgentActivity` with `Spec`, `MaxAccepted = 2`,
  `MaxCustom = 0`, `Listeners = {l1}`.
* *A session without its lock.* `coding_agent/docs/session-manager.md:223`: a
  manager takes a lock "before binding a path". A candidate for the current
  session's own file takes the lock over at publication; when the current session
  was saved elsewhere, bound elsewhere or closed meanwhile there is nothing to take
  over, and the new one writes without a lock, beside any other process.
  `CurrentHoldsItsFile`, the constants of `sessions` with `MaxMishaps = 0`.
* *A save under a reopening.* `coding_agent/docs/agent-session-runtime.md:67`: "A
  same-file handoff also rejects if old history changed during preparation". When
  a failed write left the file short of the history, the candidate reads the short
  file; a save of the current session then completes the file, its history is what
  it was, and the handoff publishes a session without the saved records.
  `HandoffKeepsSaved`, the constants of `sessions`.
* *What the screen drops.* `coding_agent/docs/interactive.md:406` has the user
  asked. `AsksBeforeDropping` (`screen` with this invariant) shows the slips: a
  prompt interrupted while it flushes or compacts before its commit; an entry of
  the pending list when a shell record is committed meanwhile; a line cleared
  with Ctrl+C, or a half-typed command, when queued prompts come back; a rejected
  prompt restored into an open selector; what is given back after an exit
  request; Ctrl+D during the trust question. `BusyHasTask`: Enter for a
  management command and Escape twice in one read cancel the task before its
  first step, and the screen stays busy.

Without a property of their own:

* a commit that fails in the reconciliation after a signal is raised but does not
  fault the harness (`lane.py:857`; `FailDrive` models it);
* a resnapshot may deliver the last commit its snapshot covers once more, because
  the barrier can be queued before that commit's events; `OverlapBounded` is as
  strong as the code allows;
* a cancelled resnapshot loses what was dropped while it waited
  (`events.py:530`); `NoGap` excludes it (`torn`);
* a listener that awaits a lane operation waits for its own delivery;
* a tool that raises `CancelledError` ends the drive without a fault while its
  siblings go on, and the next drive races them (`FreshCheckpoint` and
  `FaultNeedsLostDrive` speak of behaviours without that);
* the lane's compaction of a split turn without history writes "No prior
  history." and drops the previous summary, which the in-process agent carries
  (`docs/durable/conversation-tree.md:19`; `LaneRemembers` states the exception);
  its token estimate reuses the usage of an answer older than the newest
  compaction, against `docs/agent.md` (`LaneUsageGoesStale`); and a cut that is
  pulled back over entries that are no messages counts as a split turn;
* the edit tool finds an old text that ends in a blank where the blank is
  missing, refuses a unique text that has a fuzzy twin, and normalizes the rest
  of a line it touches (`EditsBeyondTheText`); a cancelled waiter of the durable
  file mutation queue lets its successor run beside its predecessor
  (`MutationsExclude`);
* a byte that is no character loses a character split over the end of a chunk,
  and standard output and error share one decoder
  (`BrokenBytesBreakNeighbours`);
* a shell command's deadline and abort are watched until the shell itself has
  ended; then its pipes are drained whatever happens, so that a background child
  that holds them defeats the deadline, an abort and cleanup, and a cancellation
  that falls there is swallowed, where `docs/durable/public-api.md:43` has them
  "kill the subprocess group and wait for it". `cleanup` kills and does not wait.
  A listener that raises as the spill path is published ends the reading task:
  the rest of the output is lost and the command still succeeds (`RunsAccounted`
  states both);
* `settings.json` or `models.json` with bytes that are no UTF-8 raise past the
  handling of `OSError`; a saved default model whose id has a slash is refused or
  read back as another model (`DefaultReadBack`); a trust decision is written over
  what this process read, so that what another process decided is lost
  (`FilesKept`); `--provider` without `--model` passes the command line and is
  refused by the host (`AllowedIsSelected`);
* the storage document's common error contract (`docs/durable/storage.md:24`) is
  `FailuresTranslated` of `SqliteStorage`.

## 7. Limits

*Only model-checked.* Every liveness property (`OpenRunSettles`,
`OpenSummarySettles`, `DriveEnds`, `BatchEnds`, `ResnapshotReturns`,
`HarnessCloseReturns`, `RunSettles`, `WaitersReleased`, `ExitSettles`): the proof
system has no rule for fairness here. `BranchCachesSound` and `ImplementsMemory`
of `SqliteStorage`: a commit is a fold over its writes, a branch a recursive
function along the parent links, and what either computes for every input needs
an induction over data. `RequestWellFormed` and `AnswerFaithful` of
`CompletionStream`, for the same reason: what events and frames amount to is
defined by recursion over a stream. `TextsSound`, `CallsSound`,
`CompactionSound` and `StartupSound` are evaluated over bounded inputs, but for the parts section 5 names
(`PartsCover`, `RetainedResultsKeepCalls`, `AgentRemembers`, `LaneRemembers`,
`UpdatesRebuild`).

*Abstracted.* Contents of messages, summaries, frames and events; usage numbers;
settings other than queue modes, retries and compaction; telemetry. A tool batch
inside a run is its results, one materialization at a time; a compaction inside a
run is one outcome, whose stages `SummaryTask` has for the operation of its own.
A lane's branch in `RunLane` is a path, since a run never moves the tip sideways.
On the screen: completion, the selectors of models and logins, the timing of
double keys, a second process signal, the directory prompt.

*Not modelled.* Context, skills and prompts, the wire formats other than the
completions', environment variables and listings of the coding agent, the other
file tools: input and output whose faults are not a matter of order.

*Left to do*: the segment index without recursion, by an invariant between `rows`
and parent links, towards `BranchCachesSound`.

## Running the checks

`tlc -config MCRunLane_runs.cfg MCRunLane` and the same for the other pairs;
`tlapm RunLaneProofs.tla` and the same for the other proof modules. The longest
runs (`store`, `activities`, `dialogue`, `sessions`) take two to four minutes on two workers,
the proofs up to some minutes a module.
