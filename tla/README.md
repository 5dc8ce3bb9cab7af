# A verification of herdr-tether

Tether keeps long-running workloads alive in tmux sessions, on this machine or
over SSH, and shows them in Herdr. It owns none of the programs it depends on:
the tmux server, the SSH connection and Herdr all change behind its back, several
Tether processes run at once, and any of them may die between two steps. What it
can rely on is one state file, an advisory lock around each update of it, and
guards that tmux evaluates. This directory models what follows from that,
checks the models with TLC and proves some of the results with TLAPS.

Paths such as `lifecycle.rs:703` are under `src/src/` of the repository.

## 1. The system

### Components, their state and their operations

| Component | State it keeps | Operations | What is hard | What makes it correct |
|---|---|---|---|---|
| **Workload lifecycle** (`lifecycle.rs`, `cli.rs`) | none between operations; during one, a snapshot of the record, tmux's last answer, and the identity it aims at | create, stop, open, observe, restart, remove (also recover, adopt) | every load, question, kill and update is separate; processes race, die, and leave SSH commands behind | kills hit only what they were meant for; a record never says *ended* of running work; running work stays within reach; a removed record stays removed; an interrupted Stop can be concluded |
| **tmux operations** (`tmux.rs`, `backend.rs`, `quote.rs`) | the sessions of each tmux server | list, inspect, create, configure, guarded kill, attach | an outcome may be unknown; a pane may close while its session survives; ids are reused when a server restarts | a guard accepts exactly the inspected incarnation |
| **Session records** (`state.rs`, `model.rs`) | `SessionRecord`: status, tmux identity, ownership proof, times, exit status, recent immediate failures | validation, migration, pacing arithmetic | bounded history, windows, wall clock | a crash loop is remembered while it lasts, and every pace ends |
| **State storage** (`storage.rs`, `state.rs`) | `state.json`, its lock file, the lock on its directory | `update`, `exclusive`, `load`, `load_read_only` | symlinks, rename and sync errors, a migration saved before the edit, death and loss of power between any of them | each update is atomic, and durable once it was reported as successful |
| **Observer groups** (`orchestration.rs`) | groups in the state: orchestrator, workers, membership ids | create, delete, add, remove, replace, reassign, stop or restart all | what a person confirmed was read earlier | nothing unreviewed changes; no dangling member; a membership that ended never returns |
| **Cleanup and prune** (`lifecycle.rs`) | a preview | preview, apply, automatic cleanup | the previewed workload may have run again | only records that are exactly as previewed go |
| **Prompt delivery** (`mission_control.rs`, `orchestration.rs`) | reviewed memberships, one thread per destination | compose, review, deliver, report, quit | four reads before one write, in a world that moves; answers get lost | it is sent to the proven occupant; the outcome shown is true for good; it ends |
| **Mission Control projection** (`mission_control.rs`) | none: derived from state and Herdr's snapshot | bind, project tiles, focus, open, observe | stale tokens, two panes that claim one member | a tile never shows another member's pane |
| **Herdr socket client** (`herdr_socket.rs`, `interrupt.rs`) | a request counter; a subscription thread | request, prompt, snapshot, subscribe | timeouts, partial lines, signals, reconnects | bounded waits; lost events are made up for by a snapshot |
| **Observer surface** (`orchestration.rs`, `observer.rs`) | workers, captures, epochs, capture and preview threads with one-slot queues | refresh, capture, preview, key handling | results arrive after what authorized them ended | output is shown only under the authorization it was read under |
| **Observer manager** (`observer_manager.rs`) | a screen, what is selected on it, a snapshot of groups and candidates | every key; ends with a change, a view, a delete, a launch | permissions and selections survive going back and forth; another process edits the group meanwhile | a permission comes from a person, never from a screen; edits apply to what was shown |
| **Agent view** (`agent_view.rs`) | a preference file; the view in force in Herdr | set, clear, clear for a group that goes, restore | file and Herdr change one after the other; Herdr refuses, is silent, or acts late; a save fails with the file in place | the preference is the view in force, unless something that is named set them apart |
| **Herdr placement** (`herdr.rs`) | panes | place, replace the current pane | each of split, run, verify and close can fail, or act late | the source closes only for a destination that runs; every placement ends |
| **Discovery** (`discovery.rs`) | job queue, entry budget, generations | start, scan, publish, cancel | workers, deadline and cancellation race; bounded channels | *complete* means complete; nobody blocks on a full channel |
| **Status service** (`status.rs`, `interrupt.rs`) | host queue, one run; a child process with its pipes | normalize, list, probe, classify; spawn, drain, poll, kill, reap | a child that outlives its deadline, output that is cut, a connection lost halfway | a workload is reported to run or to be over only on an answer of its host; every call concludes |
| **Picker** (`tui.rs`) | rows, answers of hosts, a pending close, a stage with a cursor kept as two positions | refresh, every key, every message | messages re-sort rows under the cursor; answers are kept by name | the cursor stays on its row; actions rest on this refresh; the selection is what was chosen |
| **Audit trail** (`audit.rs`) | a bounded file in the directory of the state file | record, read | it shares the lock on the directory, is written after the update it is about, and every failure of it is dropped | it lists only what was committed, and never holds an operation up |
| **Snapshot, configuration, entry points, tools** | none | read, print | – | formatting and parsing |

### How they interact

`cli.rs` and the picker call the lifecycle service. Each of its operations loads
the record, asks tmux through a `TmuxBackend` (a child process, perhaps `ssh`),
decides, and saves through `StateStore::update`, which holds the lock from its
load to its save and compares the record with the snapshot the decision rests on.
Observer groups and prunes are transactions of the same file. Mission Control
reads the state and Herdr's snapshot, and writes to agents through Herdr's
socket. `herdr-tether open` is a loop that shows the picker and the Observer
manager in turn and carries out what they end with: a placement, a change of the
store, a change of the Agents view. The picker starts a status run and a search,
whose messages it takes between two keys; Mission Control holds a subscription to
Herdr's events, each of which makes it read a snapshot. Nothing in one process
calls back into another; they meet in the state file, in the tmux server and in
Herdr.

### The hazards

`PROJECT.json` lists every hazard of this code that a test hardly reaches, at its
line, with the properties that would notice it. The properties below come from
that list.

## 2. The plan

The order is by what is at stake: first what may end or lose somebody's work,
then what acts on a stale review, then what shows something untrue.

1. `TetherLifecycle` with `TetherLifecycleProofs` - done.
2. `OrchestrationGroups` with `OrchestrationGroupsProofs` - done.
3. `StateStorage` with `StateStorageProofs`, and the abstract `AtomicFile` it
   implements: the atomic update that 1 and 2 assume - done.
4. `PromptDelivery` and `ObserverSurface`: Mission Control's writes and reads - done.
5. `RestartPace`, `StatusService`, `BoundedProcess`, `HerdrEvents`, composed in
   `MCBackground` - done.
6. `AgentView`, `HerdrPlacement` and `ObserverManager`, composed in `FrontEnd` - done.
7. `Picker` and `Discovery`, composed in `MCPickerAndSearch` - done.
8. Proofs of the safety properties of 1 to 7, each with the inductive invariant it
   needs (section 5) - done. What is left to TLC is liveness, and three properties
   that are restricted to scopes of a run (section 5, *Only model-checked*).

Composition: `FrontEnd` takes `AgentView` and `HerdrPlacement` as instances over
its own variables and extends `ObserverManager`, whose actions it carries out;
`StateStorage` implements the update that every other module takes for one step;
`StatusService` relies on `BoundedProcess` for its answers, and `Picker` on
`StatusService` and `Discovery` for its messages, which it admits in every order.
`Ordered` has two operators they share: the elements of a set of numbers in their
order, and what a sequence has at some of its positions. They count, where the
library recurses, so that proofs can tell what is in the result.

## 3. The modules

### TetherLifecycle

One workload, the tmux servers that may hold its session, and the processes that
operate on it.

| In the model | In the code |
|---|---|
| `record` | the `SessionRecord`; `rev` stands for the fields only compared (`last_used_at`, `closed_at`, `exit_status`, failures) |
| `session[s]` | the tmux session with the workload's name and proof on the server at socket `s`; `inc` tells incarnations apart, which no code can see |
| `nextId[s]` | the server's `$N` counter |
| `client[c]` | a process inside an operation: where it is, its snapshot, tmux's answer, what it aims at, the socket its environment resolves |
| `late` | commands whose sender timed out, which may still run |
| `Begin`, `Load` | the entry of an operation and its first load (`lookup_owned`, `owned_record`) |
| `Ask`, `AskSession` | `inspect`/`list`, and the second question without the pane |
| `StopDeclares`, `StopVerifies`, `Kill`, `FinishClose` | `stop_owned`: `ensure_stopping`, re-inspection, the guarded kill, `finish_close` |
| `OpenRecords`, `OpenAttaches` | `open_owned` |
| `ObserveAlive`, `ObserveOver` | `observe_owned`, `mark_ended` |
| `RestartPromotes`, `ReapInspects`, `ReapVerifies`, `Retire` | `restart_owned` and `remove_owned` |
| `Reserve`, `Reload`, `CreateSession`, `Configure`, `Rollback`, `DropReservation`, `Activate` | a restart's and a create's second half (`tmux.rs` create, `create_and_attach`, `promote_running`) |
| `Abandon`, `TimesOut`, `SshDrops`, `LateKill`, `LateCreate` | a death or a failed question; a timeout; ssh's exit 255; the command that still runs |
| `WorkExits`, `SessionEndsOutside`, `ActivePaneChanges`, `LaunchedPaneCloses`, `ServerExits` | what tmux and people do |

An update is one step because the lock is held from its load to its save. A
question is one step because tmux answers at one moment. Everything between them
is separate, and all other processes may act there.

### OrchestrationGroups

Groups over records. `records`, `groups` and `minted` are the state file (a
membership id is named by the update that minted it), `clients` what a manager, a
group action or a prune holds under review, `departed` the history of memberships
that ended. Edits are one update each, with the guards of the code and
`State::validate`. The operations of one workload appear as the updates of its
record they end in, since `TetherLifecycle` has the rest. A group action checks
the membership (`CheckMember`) and acts (`ActOnMember`) in two steps, as the code
does.

### RestartPace

One record, and what tmux holds of its workload, in ticks of the clock. Instants
are ages up to a horizon past which the code tells none apart, so behaviours are
infinite and the states finite. `Remembered` is what `note_immediate_failure`
keeps, and `loop` is the history the record should remember.

### PromptDelivery

The Observer (`surface`), one `threads` entry per destination, the `requests`
Herdr was asked, and what Herdr knows of its panes. The surroundings edit the
group, end workloads, and close, move, rename, replace and relabel panes. `proven`
is the set of terminals that were, at one instant since SEND, the exact and
settled occupant of a reviewed membership in force; `written` says which send
reached which terminal; `told` what the person was shown.

Three of its actions are Herdr's (`Handle`, `Meant`, `PaneChanges`). They follow
what `herdr_socket.rs:972-1007` relies on: which errors come before the first
byte and which do not.

### ObserverSurface

Mission Control while it is open: the thread that draws and decides, and its two
helpers. Each helper has a queue of one and answers through a channel, so what it
brings may be about a membership, an incarnation or a pane that is gone.

| In the model | In the code |
|---|---|
| `grouped`, `member`, `work` | the group, the membership and the record of each worker in the state file |
| `panes`, `reachable` | the panes in Herdr's snapshot that carry a worker's tokens, and whether there is a snapshot |
| `tile` | `ObserverWorker` and what `ObserverState` keeps of it; output is what authorized it and who read it |
| `seen`, `bound`, `mark` | `capture_fingerprints`, `bound_occupants`, `sampled_states` of `run_observer` |
| `asked`, `captured`; `wanted`, `sampling`, `samples` | `CaptureWorker`; `PreviewWorker` |
| `reading` | a read by `v`, in which the surface blocks |
| `Refresh` | `refresh_observer_metadata` and what `run_observer` does with it: projection (`Projection`, `Agent`), output carried forward or blanked (`NextTile`), occupants remembered (`NextBound`), failures told (`IsNews`), the next capture requested |
| `MergeCapture`, `MergeSample` | `merge_captured_workers` with its comparison of authorizations; the merge of a sample, which compares nothing |
| `AskSamples`, `SampleAges` | `workers_needing_sample`, `PREVIEW_MAX_AGE` |
| `StartRead`, `FinishRead`, `Open`, `Leave`, `FindDeleted` | `v`, `Enter`, `q`, and a group that is gone |
| `Capture`, `TakeSamples`, `Sample` | the two threads |
| `EditGroup`, `DeleteGroup`, `WorkMoves`, `PaneMoves`, `HerdrMoves` | other processes, the workload and Herdr |

`told` and `shownLive` are histories: what was announced, and who was shown live
since the last open. A whole capture is one step, and so is a sample: how long a
request is under way cannot be told from how long its answer waits.

`RefreshesShowTheirOwn` is exact for captures and reads. For samples it says that
the worker may be shown output at all: a sample is merged by worker id, and may be
of an earlier membership until the next one replaces it (section 6).

### AtomicFile and StateStorage

`AtomicFile` says what everything above relies on: an update is applied whole to
the value the previous one left, and once it was reported as successful, no loss
of power undoes it. `StateStorage` is how the code gets there.

| In the model | In the code |
|---|---|
| `visible`, `onDisk` | what opening `state.json` or `audit.json` gives, and the contents a loss of power may leave there |
| `dirLock`, `fileLock` | the two `flock`s of `with_advisory_lock_mode`: the directory, which both files share, and the file's own lock file |
| `proc[p]` | a process inside an operation: the content it is about to save, whether that is a migration, what its temporary file is worth, the result it will return |
| `Begin`, `EnterDirectory`, `LockFile` | `update`, `exclusive`, `load`, `load_read_only`, and the two locks |
| `LoadState`, `Edit` | `load_unlocked_with_migration`; the caller's closure |
| `LoadTrail`, `Retained` | `load_trail`, the unreadable trail that `record_at` sets aside, `retain_bounded` |
| `WriteTemp`, `SyncTemp`, `Rename`, `SyncDirectory` | `atomic_write_prepared_mode_with` |
| `Leave` | both unlocks, the result, and `note`, which records a transition in an operation of its own |
| `FailsToLock`, `Fails` | every `?`: before the rename nothing happened, after it the update is there and reported as failed (`PostCommitDurability`) |
| `Dies`, `PowerFails` | the process, or the machine, stops |

An update is a mark that its value carries from then on, so that a lost update is
a missing mark. The refinement maps `value` to the marks of the visible state
file and `safe` to those of `onDisk`; a migration, which rewrites the file and
changes no mark, is a stutter. A file renamed before it was synced would be torn
by a loss of power; that the code never does it is one of the things proved.

### ObserverManager, AgentView, HerdrPlacement and FrontEnd

`FrontEnd` is the loop of `herdr-tether open` (`cli.rs:1020-1250`): where it is
(`flow`), the action it carries out, and what the three modules below keep.

| In the model | In the code |
|---|---|
| `screens` (`ObserverManager`) | `ObserverManagerState`: the screen, the cursor, the snapshot of groups, the candidates, what is selected and which workers may be prompted |
| `Key` and its actions | `handle_key`: one action per key and screen that does something |
| `preference`, `inForce`, `holder`, `call` (`AgentView`) | the preference file, what Herdr shows, the file's lock, a call of the service in each process |
| `EnterView`, `DropView`, `SaveView`, `AskHerdr`, `UndoView` | the lock with the read under it, the preference removed or saved, Herdr's answer, the old preference put back |
| `apart` | a history, not in the code: what may have set file and Herdr apart since the last confirmed change |
| `unanswered`, `HandlesLate`, `HerdrRestarts` | a request that timed out and still acts; a Herdr that forgets the view |
| `pane`, `job` (`HerdrPlacement`) | what runs in each pane; a placement under way |
| `Confirm` ... `CloseSource` | `confirm_replacement`, `replace_current_with_destination`, one step per request to Herdr |
| `Closes`, `LateClose` | a close that closes, is refused, or nobody knows |
| `Stores`, `Deletes`, `DeleteRefused`, `Launches` | the branches of the loop, with the checks of the store they end in |
| `OthersChangeStore`, `HerdrRestores`, `PaneChanges` | other processes, the plugin hook at a start of Herdr, people |

A command handed to a pane is `"starting"` until its shell ran it or failed to,
which is what the verification of `herdr.rs:566-605` is there to tell apart. The
model numbers groups and workloads, since the screens work with positions.

Each save of a preference has three outcomes, those of `atomic_write`
(`storage.rs:152-248`, which `StateStorage` models in full): it succeeds; it fails
before the rename and changes nothing; or it fails after the rename, because the
directory cannot be synced, with the new file in place. The `?` behind
`save_preference` (`agent_view.rs:124`, 137, 159, 172) treats the last two alike:
Herdr is not asked, and nothing is put back. `SaveView` and `DropView` have all
three, and `UndoView` too, where failing after the rename is as good as success.
`apart` then says `"save"`; a rollback that failed says the same. A restore that
drops a group that is gone while its view is in force says `"groupgone"`, a Herdr
that starts again `"restart"`. After a silence, a death between the save and the
end, or two of these, it is `"unknown"`. A confirmed change makes it `"nothing"`,
unless a request is still unanswered. `Agrees` says what file and Herdr have in
common in each case.

### Picker and Discovery

`Picker` has one action per key and stage and one per kind of message. Its rows
are numbers whose order is the order of a listing; answers are kept by host
*name*, as in the code, and every message of a refresh comes once, at any moment.
`ui.meant` and `fresh` are histories: what was chosen on the way to the placement
screen, and which answers are of this refresh.

`Discovery` has the job queue (`next`), the budget (`remaining`), one bounded
channel per location, the supervisor that empties them in the order of the
request, and the flag, the deadline and the drop that may come between any two
steps. Directories found are not told apart.

### StatusService, BoundedProcess, HerdrEvents

`StatusService`: one refresh. A request is a list of hosts and workloads as the
caller wrote it; `Normalized` keeps each once, at its first place (`OneEach`). A
worker takes a host, asks it (what the host holds and what it answers are chosen
then and kept with the report as a history), classifies the answer, and asks after
health and usage. `told` is a bag: the channel, as workers mix.

A host may give any answer, whatever it holds. The list is that of the server the
environment leads to (`status_spec` names no socket), so a session that is
`"elsewhere"` is not in it (`MayPrint`). A `"clipped"` list is one whose last read
failed, see below. Exit status 1 is read as a server without sessions, whatever
tmux meant by it (`status.rs:987`).

`BoundedProcess`: `run_bounded` with one child and its process group, a pipe of
bounded capacity, a capture limit, the poll, the deadline, the flag, the kill and
the last read; a signal may interrupt any call of the caller. A read that fails
(`ReadFails`) ends the command; in the last read, after its end, the error is
dropped (`let _ = drain_pipe(..)`, `status.rs:1333`), and `caller.unread` keeps as
a history that it was.

`HerdrEvents`: the subscription thread, the pieces of lines on their way to it,
the one-slot signal channel and the loop that reads a snapshot. A read that times
out between the two halves of a line forgets the first one
(`herdr_socket.rs:648` ff.); the rest is no record and ends the subscription,
which the next one makes up for. The timed refresh of Mission Control is left out
on purpose, but for a failed refresh that is owed: what is shown must not need it.

## 4. The runs

| Run | Question | Answer |
|---|---|---|
| `MCLifecycle` | all six operations on one workload, in the first four scopes below | `TypeOK`, `KillsHitTheirTarget`, `ReapsSparePinnedWork`, `EndedIsTrueOfPinned`, `LoneWorkIsActionable`, `OneIncarnation` hold |
| `MCSettled` | two processes, deaths, late kills and sessions ended from outside, and liveness | `StopIsDeclared`, `StopsConclude`, `OverWorkIsSettled` hold |
| `MCGroups` | edits, group actions, removals and prunes overtake a review | `NoDanglingMember`, `ReturningWorkersAreNew`, `ConfirmedMembersStayed`, `EditsSpareTheUnseen`, `PruneDropsWhatWasPreviewed` hold |
| `MCPromptDelivery` | a reviewed prompt against four steps of its surroundings | `SendsWereAuthorized`, `OutcomesAreTrue`, `DeliveryEnds` hold |
| `MCObserver` | edits, restarts, panes that change hands, a Herdr that comes and goes, and keys, beside late answers | `RefreshesShowTheirOwn`, `OneOccupantIsLive`, `FailuresAreToldOnce`, `LiveTilesGetOutput` hold |
| `MCStateStorage` | two processes update, load, read and record while steps fail, processes die and the power goes | `AckedIsKept`, `TrailIsTrue`, `StateIsAtomic`, `EveryoneFinishes` hold |
| `MCFrontEnd` | the loop of picker and manager with its actions, a Herdr that refuses, is silent or starts again, other processes, people at panes | `PermissionsAreExplicit`, `PreferenceIsInForce`, `SourceClosesLast`, `ActionsConclude` hold |
| `MCPicker` | messages between any two keys; a search in every order | `CursorStaysOnItsRow`, `SelectionIsWhatWasChosen`, `ActionsAreProven`, `CompleteIsComplete`, `SearchGoesOn` hold |
| `MCBackground` | restart pacing, a status refresh, a bounded command, Herdr's events | `LoopIsRemembered`, `PaceEnds`, `ReportsRestOnAnswers`, `OnlyTheLastReadIsLost`, `CallsConclude`, `NothingIsMissed` hold |
| `MCRemovedComesBack` | a restart races a picker and a remove | violated: a removed record becomes Running |
| `MCReservationEnded` | a create races a picker | violated: a session runs out of reach |
| `MCSharedName` | a retained group has the name of a configured host | violated: an action is offered on another host's answer |

The last three say where the code disagrees with its own documentation;
`PROJECT.json` quotes the lines.

Runs that explore several mechanisms at once choose one at the start of a
behaviour: `scope` in `MCLifecycle` and `MCSettled`, `part` in `MCPicker` and `MCBackground`. The
parts share no variable, so nothing between them is lost by that; the scopes
share everything, and each is a restriction that its properties name:

- *Deaths*: one process at a time with all operations, deaths, sessions that end
  from outside, servers that exit, and records without an ownership proof.
- *Servers*: the same over two sockets, the environment resolving either, with
  windows that are split.
- *Old records*: one process with late commands, dropped connections, split
  windows, deaths, and records of before panes and sockets were recorded.
- *Pair*: two processes stop, observe, restart and remove, with late kills.
- *Settling*, the only one of `MCSettled`: two processes stop, open, observe and
  remove, with deaths, late kills and sessions that end from outside.

`EndedIsTrueOfPinned` is about Deaths and Servers, `LoneWorkIsActionable` too,
`ReapsSparePinnedWork` about all but Old records; the others of that run are about all four.

### Bounds, and why they are enough

- `MaxIncarnations` 2: one incarnation that is aimed at and a newer one that may
  be hit. `MCSettled` has 1, because its operations create none.
- `MaxRevisions` 2 or 3: no operation begins once the record was updated that
  often. Each operation saves at most three times, so at 3 a complete operation
  can run in between two saves of another. The bound limits beginnings, so that
  every operation that began may end.
- Two processes: every property is about a pair of operations; a late command acts
  as a third.
- `MCGroups` has three workloads (an orchestrator, the one worker the ceiling of
  1 allows, and a substitute), two minting updates (a membership and its
  successor) and one reviewer; edits by others need no reviewer.
- `MCPromptDelivery` allows four changes: each of the four reads may be overtaken,
  and leaving and returning takes two.
- `MCObserver` has one worker, whose tile and threads no other worker's state
  decides on (workers share the queues, which one worker alone can find full), two occupants of two panes, and two steps of the
  surroundings or keys: a connection lost and back, a pane closed and taken, a
  member gone and returned, an answer overtaken by either. The three safety
  properties also hold with three steps (1.2 million states), which takes longer
  than a run beside liveness should. Each channel holds one answer.
- `MCStateStorage` has two processes, two updates and a trail of one entry: one
  update can overwrite or follow the other, each can be recorded, and the ceiling
  drops the first line when the second comes. Loads, reads and failures are not
  bounded.
- `MCFrontEnd`: three workloads make an orchestrator, a worker and one that is not
  chosen, or two workers; two groups make one that is created beside one that is
  edited; two actions follow each other, of which one opening of the manager goes
  through the topology screens; one change by others falls before or after any
  check. Two processes share the view: the loop, and a Herdr start. Two panes are a
  source and its destination, and two verifications a failed one and another.
  Refusals, silences, failed saves and rollbacks, deaths and starts of Herdr are not
  bounded.
  `VERIFY_ATTEMPTS` is 20 in the code; only *last or not* matters.
- `MCPicker`: two groups, one configured and one retained, two workloads of either
  host of which two exist, and one external session: every order of rows, and a
  row or a host that appears or vanishes before or after the cursor. Keys are not
  bounded. The search has three locations, one remote, and two workers, so that
  one location waits for a worker; budget and limit are below what a location
  holds.
- `MCBackground`: the pacing memory is longer than the longest pace and holds two
  entries, so that ceiling, window and doubling all bite. The status requests name
  a host twice, with a workload twice, and one without workloads; every host gives
  every answer to every holding. A command writes
  more than the capture limit and the pipe hold. Herdr changes three times and its
  connection breaks twice: before, between and after two subscriptions.

Symmetry is used over processes (`ScopeSymmetry`), workloads, groups and the
workers of a search (`WorkersAreAlike`), only in runs without liveness, and only
over constants that no definition tells apart.

### Faults that passing runs leave out

- *Old records* and *Pair* leave out `serverexit`: see *reused ids* below.
- *Pair* leaves out `crash`, and creation beside another process: those are the
  races of the two lifecycle findings.
- *Deaths* and *Servers* leave out `late` and `sshdrop`: a late create is adopted
  or not depending on who looks first, which `RunningWorkIsActionable` does not
  describe.
- `EndedIsTrue` does not hold in *Old records*: a record that does not name its
  launched pane is judged by the active pane, which may be a dead one of a window
  that was split. It does not hold in *Pair* either: an observer ends the
  reservation of a restart whose session is just being made, the race of
  `MCReservationEnded`.

### Fairness

- `WF(Step(c))` in `MCSettled`: a process that runs takes its next step, since
  each transport call has a timeout and the lock is held for one update at a
  time. Death is not fair or unfair: `StopsConclude` and `OverWorkIsSettled` speak
  of behaviours with finitely many interruptions in which somebody keeps asking.
- `BackgroundFairness`: time passes (`Tick`, `DeadlineIsDue`), and the caller of a
  command runs on. No operation on a paced workload is fair, and observations may
  be arbitrarily frequent; a signal may arrive at every call, without end.
- `WF(ThreadStep(t))` and `WF(Report)` in `MCPromptDelivery`: threads are
  scheduled, both directions of the socket have a timeout, and the Observer polls
  for the result. Herdr is not fair: it may never handle a request.
- Weak fairness of the loop of `ObserverSurface` (refresh, both merges, the request
  for samples, the end of a read), of its threads and of the window of a sample:
  `run_observer` passes all of them before it looks at a key, and every request has
  a deadline. Keys and surroundings are not fair, and `FinishRead` may fail for ever.
- `WF(Step(p))` and `SF(EnterDirectory(p))` in `MCStateStorage`: a process takes
  its steps, and the kernel serves those who wait for the lock on the directory in
  their order, so others cannot keep it away for ever. Failures, deaths and losses
  of power are not fair: `EveryoneFinishes` holds with and without them.
- `WF(LoopStep)`, `WF(PlacementGoesOn)` and `WF(ViewGoesOn(p))` in `MCFrontEnd`:
  every request to Herdr is a child process that is killed at its deadline, so each
  of them is answered, by a failure if by nothing else. Keys are not fair.
  `ActionsConclude` speaks of behaviours in which Herdr is started finitely often,
  since each start takes the lock of the preference.
- `SearchGoesOn` is an invariant: as long as a search is not over, one of its
  threads can take a step. No step of a search repeats, so it is over after
  finitely many.

`CHECK_DEADLOCK FALSE` is set where everybody may be done for good: processes have
used up their bounds, the surroundings their changes, or the screens are closed.
In `StateStorage` somebody can always load, and it is checked for deadlock.

## 5. What is proved

Each theorem holds for every value of the constants: any number of processes,
sockets, workloads, groups, panes, incarnations and steps of the surroundings,
without the symmetry, the scopes and the bounds of the runs. Each comes from an
invariant that is inductive: the initial states satisfy it, every action keeps it,
and it implies the property. Most properties are not inductive themselves, and
what has to be added is why the code is right. The modules named `...Proofs` hold
them; a lemma says what an action does to one part of the invariant.

### The lifecycle (`TetherLifecycleProofs`)

- `TypeCorrect`: `TypeOK`. It needs `EnvOK` (a process inside an operation runs on
  a real socket), because what a process reads from a session has a type only on
  one.
- `KillsAreExact`: `KillsHitTheirTarget`, assuming `ServersStay`, that no tmux
  server exits with its last session. When a kill is due the property speaks of the
  present, but why it holds is that ids were never reused since the inspection.
  `KillInv` says so: every session's id is below its server's counter
  (`IdsBelowNext`), and whatever a process or a late command knows about an id
  *names* one incarnation, now and in the future (`Names`: the id is below the
  counter, and if it is in use it is that incarnation). `ServersAdvance` is what
  each step does to the servers (a session stays, goes, or is new under a fresh
  id), from which `Names` survives every step; then each action of the process
  itself is shown to learn only names.
- `ReapsAreHarmless`: `ReapsSpareRunningWork`, assuming `ServersStay` and
  `WindowsStayWhole`, that nobody splits a session's window. `ReapInv` adds to
  `KillInv` that an id some process or late command means to reap is *over* (`Over`:
  below the counter, and if in use, of work that does not run), which stays so
  because work never starts again under its id (`WorkAdvances`). Whether an answer
  *Ended* is about the workload depends on the pane that was asked: `PaneIsOld`
  says that the pane a record names is not of the future, and `OwnIsActive` that
  where the record names none, the active pane is the launched one. That is what a
  split breaks. The run checks `ReapsSparePinnedWork`, with splits and for records
  that name their pane; the theorem is about all records, without splits.
- `StopsAreDeclared`: `StopIsDeclared`, assuming `RestartIsAbsent`, under every
  fault, servers that exit included. `DeclaredInv` says that while a Stop is on its
  way to its kill, and while its kill may come late, the record is Stopping, Ended
  or Removed; nothing but a restart leaves these. With restarts it does not hold: a
  restart that finds the workload alive promotes the record to Running while the
  kill of the Stop is still under way. `MCSettled`, where it is checked, has no
  restarts either.
- `LoneSessionIsOne`, `LoneEndIsTrue`, `LoneWorkStaysActionable` and
  `LoneReapsAreHarmless`: `OneIncarnation`, `EndedIsTrue`,
  `RunningWorkIsActionable` and `ReapsSpareRunningWork` of any number of processes
  that take turns, `Spec /\ []OneAtATime`, assuming `AnswersArrive`: no command runs
  after its process gave up on it; and processes die in the middle of their
  operations, or work on records that name no pane, only where windows are whole and
  there is one server. Servers may exit and count anew, work and sessions end, and
  windows be split otherwise. These are *Deaths* and *Servers* of `MCLifecycle`
  without their bounds. Section 4 tells how the properties fail without the
  restrictions. `AloneInv` says what the process at work knows at each of its steps:
  the record names the one session there may be (`RecordNames`) unless a session is
  being made, then the process names it (`MakerKnows`); its snapshot is the record
  wherever it decides (`LookerKnows`); an answer *Missing* means that there is no
  session on any server, *Ended* that nothing runs, and they stay true because
  everything around the process only ends sessions. That a session is looked for
  where it is (`AsksAtHome`) is what makes them true of all servers. Because one
  process at work leaves the record agreeing with the servers (`RecordAgrees`,
  `RecordIsTrue`), also where it dies, the next one starts from the same knowledge.
  `LoneReapsAreHarmless` covers what `ReapsAreHarmless` has to exclude: reused ids
  harm nobody whose inspection is still true.

### Groups (`OrchestrationGroupsProofs`)

- `TypeCorrect`: `TypeOK`, which no run checks beside it, with `Editing` (an edit is
  always of a group somebody was shown) as the strengthening.
- `ReturningIsNew`: `ReturningWorkersAreNew`. Its strengthening `Numbered` bounds
  every membership, in force or departed, by the number of updates that minted one;
  `Inherits` says what a step may do to memberships: keep one, drop one, or add one
  with the next number.
- `NothingDangles`: `NoDanglingMember`, by what each step does to the names in
  groups: an edit adds only running workloads, an operation keeps what is there, and
  what goes is dropped in the same update.
- `PrunesAreReviewed`, `EditsSpare`, `ConfirmedStay`: the action properties
  `PruneDropsWhatWasPreviewed`, `EditsSpareTheUnseen` and `ConfirmedMembersStayed`.
  The first two need the types alone: the comparison with what was shown is in the
  update itself, and the proofs show that no other step of the same process, and no
  step of another, drops a record or a worker on its behalf. The third rests on
  `ReturningWorkersAreNew`: a membership that is in the group never ended.

### Storage (`StateStorageProofs`)

- `TypeCorrect`: `TypeOK` of the storage, which includes that each lock is held by
  exactly the process it admitted.
- `AckedStays`, by `StorageInv`: what is visible may also be on disk; a process
  about to save holds what is visible with its own edit (`Current`), because the
  lock on the directory keeps everybody else out; a process about to rename has
  synced its temporary file; and a process about to report success has settled its
  update (`Durable`).
- `UpdatesAreAtomic`: `StateIsAtomic`, that is, `StateStorage` implements
  `AtomicFile`. Initial states map to its initial state, a rename to `Update` or,
  for a migration, to a stutter, the sync of the directory to `Settle`, a successful
  return to `Acknowledge`, a loss of power to `LosePower`, and everything else to a
  stutter. `StorageInv` is what makes the rename an update of the latest value.
- `TrailTellsTheTruth`: `TrailIsTrue`, strengthened by `RecordsCommitted`: also what
  a process is about to write into the trail was reported as successful before.

### Prompts (`PromptDeliveryProofs`)

- `TypeCorrect`: `TypeOK`, strengthened by how the phase of the surface, the steps
  of the threads and the bounds go together (`TypeInv`).
- `PromptsAreAuthorized`: `SendsWereAuthorized`, by `AuthInv`. A thread that waits
  for the second read of the state has *looked*: the occupant it found was proven if
  the reviewed membership is still in force (`Looked`), since then it was in force
  all along: a membership that ended never returns, because the next one is newer
  than any that was reviewed (`NewIds`). After the second read it was (`Rechecked`).
  Only a reviewed worker has a thread (`ThreadsAreChosen`).
- `OutcomesStayTrue`: `OutcomesAreTrue`, by `OutcomeInv`: a send asks Herdr at most
  once for a worker (`OneRequest`); requests are of sends that began, by threads
  that asked (`Asked`); what was written was asked for (`Written`); and what an
  outcome claims holds when the thread concludes (`PendingHolds`) and since it was
  told (`ToldHolds`). A late answer cannot undo it, since a request that was refused
  or failed is never handled again.

### Screens, views and panes (`FrontEndProofs`)

About `FrontEnd!Spec`, so with every interleaving of the loop and its surroundings.

- `PermissionsArePressedFor`: `PermissionsAreExplicit`, by `ScreensInv`. On the
  screens that lead to a topology every permission was pressed for there or is one
  of the group that is edited (`Given`), wherever the keys went before.
- `SavedIsShown`: `PreferenceIsInForce`, by `ViewInv`. The preference is locked by
  the one call between its load and its end (`LockIsExclusive`); the preference that
  such a call found agrees with Herdr as far as `apart` says, and so does the one in
  the file until it is saved over (`Follows`); and a request is unanswered only while
  `apart` is `"unknown"`. What the property exempts is therefore exactly the five
  causes that `AgentView` names, at the steps where they happen.
- `SourceGoesLast`: `SourceClosesLast`, by `PlaceInv`. A source is closed only in a
  replacement whose destination was seen to run; and no close that is late is of
  that destination, since a destination is a pane that was free when it was split.

### The picker (`PickerProofs`)

About `Picker!PickerSpec`: any groups, workloads and external sessions, and messages
between any two keys. All three by `PickerInv`.

- `CursorKeepsToItsRow`: `CursorStaysOnItsRow`. The cursor is on a row whenever there
  is one (`CursorIsOnARow`). A message that re-sorts the rows finds the row under the
  cursor again by its identity, first its group and then the row in it; that the
  group and the row it finds are those is where the proof needs that a row is listed
  once in a group, and in one group.
- `SelectionStaysWhatWasChosen`: `SelectionIsWhatWasChosen`. Each screen past the
  list is about what was chosen on the way to it (`ScreenIsForWhatWasChosen`), for
  every way forth and back. The placement screen alone would not be inductive: the
  choice was made three screens earlier, and messages came in between.
- `ActionsStayProven`: `ActionsAreProven`, assuming `NamesAreOwn`: no two groups
  share a name. Whatever an action may rest on, a host that answered and a workload
  that runs, was told in the refresh under way (`AnswersAreFresh`). A refresh forgets by name, so two groups of one name would
  keep each other's answers; `MCSharedName` shows that they do.

### Search, status, command, pace and events (`PickerProofs`, `BackgroundProofs`)

- `SearchIsComplete`: `CompleteIsComplete`, by `SearchInv`. An outcome is settled
  before any thread is told of a cancellation (`IsSettledFirst`); as long as none
  is, a scan that ended says how with its last message, and a location whose
  channel is closed did (`EndsAreSaid`); a location whose turn is over was published
  with its completion, and the overall one is complete only if all of them are
  (`TurnsAreOver`).
- `SearchIsNeverStuck`: as long as a search is not over, a guard of the supervisor or
  of a worker holds (`SomeoneMayGoOn`), assuming that there is a worker
  (`discovery.rs:214` starts at least one). `SearchGoesOn` says the same with ENABLED,
  which no prover has; the guards are written out in `SupervisorMay` and `WorkerMay`,
  and TLC finds them equal to ENABLED in every state of `MCPicker`'s search. The
  supervisor waits for one location in turn, so the danger is that its worker waits
  in turn, or that there is none. `QueueInv` says why not: a job that was taken is
  held by a worker until its channel is closed (`TakenAreHeld`, `HeldAreOpen`); jobs
  are taken in the order in which the supervisor empties the channels, and what it
  passed is closed (`PassedAreClosed`, `ClosedWereTaken`); so the location it waits
  for is with a worker that may send, or still in the queue, and then no worker holds
  any other (`QueueIsDropped`: they did not all leave, either).
- `WhatIsToldWasAnswered`: `ReportsRestOnAnswers`, by `StatusInv`. A worker that is
  about to tell knows something of each workload it will tell of (`KnowsWhatItTells`):
  *Running* and *Ended* were so when the host was asked, and *Missing* is what an
  answer of the host showed. A listing that is marked as cut, a failed connection or
  another host's answer never says any of them. *Missing* is no proof of absence, see
  section 6.
- `LoopStaysRemembered`: `LoopIsRemembered`, by `PaceInv`. Counted from the end,
  whatever failed at once and is within the memory is matched by a failure of the
  record that is no older (`Covers`). That survives the ceiling and the window of
  `note_immediate_failure` because the history is in the order of time
  (`InOrderOfTime`): what goes first is what is oldest. The end of a record is the
  last of its loop (`EndsTheLoop`), so counting it again adds nothing that is older.
- `OutputIsWholeIfRead`: `OnlyTheLastReadIsLost`, by `ProcessInv`. What was written is
  in the pipe or kept, unless it is marked as cut (`PipeIsCounted`); and when the last
  tick begins nobody writes any more, and it reads what a pipe can hold, unless a read
  fails (`PipeIsEmptied`). What is lost then is what the pipe held.
- `ShownIsUpToDate`: `NothingIsMissed`, by `EventInv`. Something will tell, or the
  snapshot is up to date (`Owed`). A line is sent as a whole, so that a
  subscription that forgot the head of one finds its tail (`LinesAreWhole`).

### The surface (`ObserverSurfaceProofs`)

All three by `SurfaceInv`, about any number of workers, occupants, memberships and
incarnations:

- `OneIsLive`: `OneOccupantIsLive`. Whoever was shown live in the incarnation that
  runs is the occupant remembered for it (`OccupantsOK`), also while its tile is
  gone.
- `FailuresAreNewsOnce`: `FailuresAreToldOnce`. A failing end that was told is the
  last of its incarnation, and a tile of the worker shows that end (`ToldOK`), so
  the next refresh finds no news.
- `RefreshesShowWhatMayBeRead`: `RefreshesShowTheirOwn`. Every authorization, of
  output, of a request or of a read, is of now or of before (`IsPast`), and that of
  retained output no older than the last refresh (`IsRecent`): if it was the same at
  both refreshes it never changed in between.

### Assumptions

The assumptions on constants are named in the modules, and TLC evaluates them in
every run: bounds are numbers, null values are not values (`None` is no occupant,
no record, no pane), a worker may have some occupant, the last read of a command
holds a pipe, workloads and groups are finitely many. Theorems with a hypothesis of
their own state it: `ServersStay`, `WindowsStayWhole`, `RestartIsAbsent` and
`AnswersArrive`, with `OneAtATime`, are about what may happen around the processes;
`NamesAreOwn` is about the configuration; and `Workers # {}` is what the code
provides. Section 6 or 4 tells what happens without the former. Each is satisfied
by the constants of some scope of a run.

### Only model-checked

- Liveness: `StopsConclude`, `OverWorkIsSettled`, `DeliveryEnds`,
  `EveryoneFinishes`, `LiveTilesGetOutput`, `ActionsConclude`, `PaceEnds`,
  `CallsConclude`. Fairness is out of the prover's reach.
- `SearchGoesOn`, because it is stated with ENABLED. Its guards are proved
  (`SearchIsNeverStuck`).
- `ReapsSparePinnedWork`, `EndedIsTrueOfPinned` and `LoneWorkIsActionable` of
  `MCLifecycle`. They restrict `ReapsSpareRunningWork`, `EndedIsTrue` and
  `RunningWorkIsActionable` to scopes, and to records that name their pane, which is
  how one run can ask them beside the other scopes. For *Deaths* and *Servers* the
  unrestricted properties are proved (`LoneReapsAreHarmless`, `LoneEndIsTrue`,
  `LoneWorkStaysActionable`). For *Pair*, where only the first is asked,
  `ReapsAreHarmless` is its proof.

No recursive operator is declared.

## 6. What is known and not a run

Met while reading and modelling, each at its line:

- *Reused ids* (`tmux.rs:369` against `model.rs:205`). With `"serverexit"` added to
  the scope `Pair` of `MCLifecycle`, TLC finds a Stop whose kill ends a newer incarnation,
  because the server that exited counts from `$0` again.
- `finish_close` (`lifecycle.rs:432`) returns success for a record that is Ended,
  also when that is the end of a newer incarnation. No property ties the success of
  a Stop to its own incarnation: `StopsConclude` says that it ends, and
  `EndedIsTrueOfPinned` is true of the newer one.
- A create whose connection drops exits 255 and is reported as failed for certain
  (`tmux.rs:656`), so its reservation is deleted although the session may be
  running: with `"sshdrop"` and `"create"`, `RunningWorkIsActionable` fails.
- A pane recovered after its window was split (`lifecycle.rs:652`) may be promoted
  although it is not the launched one.
- A group action checks the membership, releases the lock and then acts
  (`orchestration.rs:685-697`). `ConfirmedMembersStayed` states what the check
  gives: the member stayed until it was taken up. It does not extend to the act.
- An update fails as a concurrent modification after the wall clock was set back,
  since validation wants times not before `created_at` (`state.rs:545-682`).
- The pace is checked before the restart and not with it (`cli.rs:1617`,
  `orchestration.rs:701`).
- A pane replaced between the second snapshot and Herdr's handling gets the
  prompt. `SendsWereAuthorized` is about the moment before the request, and
  `OutcomesAreTrue` about what is said of it: UNCERTAIN, never DELIVERED.
- Opening a workload stamps `last_used_at` (`lifecycle.rs:512`), from which
  `ended_immediately` takes its start: a workload that ran for a day and fails
  within ten seconds of being opened counts as one that failed as it started.
- The trail is written after the locks of its update are released, so the lines of
  two processes may be in another order than their transitions (`audit.rs:5` says
  *in order*). `TrailIsTrue` is about which lines there are.
- `record_at` sets any trail aside that it fails to read, also when the failure
  would have passed (`audit.rs:205`).
- A link in the path of a file is resolved before the locks are taken
  (`storage.rs:34`); that it is replaced in between is not modelled.
- *A failure counted twice* (`lifecycle.rs:920` against `state.rs:165`, "how many
  times in a row"). `mark_ended` notes an immediate failure each time an ended
  workload is observed, so the wait before a restart grows with every refresh of a
  picker. `RestartPace` has it so; `LoopIsRemembered` is the direction that holds.
- A preview is merged by worker id without the comparison of authorizations that a
  capture makes (`orchestration.rs:1280` and `1886`).
- `carry_forward_capture` (`orchestration.rs:1761`) hands the retained output to
  `update_workers` as if it had just been captured. After Herdr is lost, a tile
  that has output therefore becomes UNREACHABLE and not STALE, forgets when it was
  last observed, and loses its output to the next capture that fails
  (`observer.rs:754-767`). `docs/architecture.md` says that the last capture, its
  time and its status are retained as STALE; the test in `tests/observer.rs:1525`
  reaches the branch for a tile without retained output. The same call makes a
  truncated capture look complete at the next refresh.
- The tile of a replaced occupant is STALE, whose remedy is to open the workload
  again (`observer.rs:206-208`), but `can_open` (`observer.rs:249-257`) refuses
  STALE. In the model `Open` and `ReplacedOccupant` exclude each other.
- A worker is marked as sampled also when its request is dropped because one is
  queued, so that the window of `PREVIEW_MAX_AGE` (`orchestration.rs:1960-1965`) is
  no upper limit on the age of a sample; `LiveTilesGetOutput` is what remains.

- *A review that shows a stale orchestrator* (`observer_manager.rs:850-858` with
  `511-553`). The candidate chosen for a reassignment stays selected when its
  screen is left and the workers of the group are edited next; the review of that
  edit then names it as the orchestrator, though only workers are replaced.
  `README.md:193` and `docs/quickstart.md:166` call the review an exact one.
- The workers that may be prompted are not cleared when the screen for workers of a
  new group goes back to the choice of an orchestrator
  (`observer_manager.rs:427-433`, `772-778`): a worker that is unselected and
  selected again still may. `PermissionsAreExplicit` is what remains: somebody
  pressed `p` for it.
- Dismissing a delete puts the cursor on entry 5, while delete is entry 7.
- A delete that is refused after its view was cleared puts the view back with the
  filter *All* (`cli.rs:1159`). A Herdr start whose group is deleted drops the
  preference and does not clear the view that may be in force (`"groupgone"`).
- The source of a replacement is compared with its captured occupant
  (`herdr.rs:609`) and closed by another request: what is started in between goes
  with it. `docs/configuration.md:287` promises that a changed source is kept.
  `SourceClosesLast` holds for panes nobody else touches.
- *A preference that is in place although its save failed* (`agent_view.rs:124`, 137,
  172 with `storage.rs:247`). When the directory cannot be synced after the rename,
  the caller is told that its change failed, while the file holds the new preference
  and Herdr shows the old view; the next start of Herdr puts the new one in force.
  `docs/troubleshooting.md:111` says: "If applying or clearing the view fails, the
  prior preference is preserved", and `docs/configuration.md:276` that both "change
  transactionally". `PreferenceIsInForce` exempts it by name (`"save"`), as it does a
  rollback that fails.
- *Missing is not gone* (`status.rs:987` and `383-388`). The list that the picker and
  `snapshot` rest on reads every exit status 1 as a host without sessions, where the
  inspection of one workload reads stderr first and says of the other reasons that
  "nothing here is evidence that the workload has gone" (`tmux.rs:892-897`). It also
  names no socket, so a workload on another one is missing from it, which
  `docs/lifecycle.md:137-141` says and makes up for: the picker asks again, through the
  workload's own socket, before it offers an action. `ReportsRestOnAnswers` claims no
  more than that somebody answered.
- *A loss that is not marked* (`status.rs:1333-1334`). An error of the last read of a
  completed command is dropped, and its output is handed on as whole. A list of
  sessions without its last lines is then read as one in which their workloads are
  missing; a line that is cut in the middle makes the list unreadable.
- The local scan gives up at a directory when its share of the entry budget runs out
  (`discovery.rs:699-728`), where it keeps no more
  children than the budget has left: with a budget that is used up exactly it may
  have left children out and still report *Complete*. `CompleteIsComplete` is about what the
  locations report.
- The comment of `interrupt.rs:21-24` allows an interrupted call its own window
  plus one more; up to three windows may pass.
- A read of Herdr's events that times out in the middle of a line forgets its head,
  so that a sound record becomes a broken one and the subscription is made anew.
  Nothing is missed (`NothingIsMissed`).
- A close that failed withholds Enter from a row (`close_failed`) also after the
  workload ended some other way, until the picker is left.

## 7. What is not modelled

- *Snapshot export*: one load of the state, rendered and redacted. It changes
  nothing, and its ages are formatting.
- *Configuration and paths*: TOML, environment and `ssh -G` output, parsed once.
- *Entry points*: arguments, `setup`, `doctor`, host checks, output. The loop of
  `open` and the restore of the view are in `FrontEnd`.
- *Recover and adopt* of sessions that Tether does not own: `tmux` is asked and a
  record is written, in the same two steps as a create that finds its session.
- *Picker*: pruning, which no key begins; directories, commands and their filter are
  taken as data. *Agents view*: a machine that stops, which may undo a rename that was
  not synced; `StateStorage` has that for the same atomic write. *Observer surface*: pages, focus, wait and explain, which change
  nothing. *Herdr*: opening the plugin pane and reporting a pane's group, single
  requests whose outcome nobody waits for. *Status*: the numbers of a usage report.
- Formatting, wording, layout and key bindings; quoting and the text of shell
  commands; terminal attachment; the release and documentation tools.

External programs (tmux, ssh, Herdr, the kernel's pipes and locks) are modelled
from how the code uses them and marked external in the map.
