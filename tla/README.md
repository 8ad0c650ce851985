# soute: a formal model

soute versions one project file. A daemon watches the file and records a
snapshot of it after each save; commands list, take, restore and prune
snapshots beside the daemon. This directory holds TLA+ modules that model the
parts of soute that share state, the configurations with which TLC checks them
on small instances, and theorems that TLAPS proves for every instance.

Line numbers refer to the repository; `PROJECT.json` maps each definition to
the lines it models.

## 1. Inventory

### Components

| component | source (`src/internal/`) | state | operations |
|---|---|---|---|
| evaluation pipeline | `watcher/evaluator.go` | pause flag, baseline (mtime, hash and time of the last snapshot), mutex | `NewEvaluator`, `Evaluate`, `Pause`, `Resume` |
| IPC handler | `watcher/handler.go` | none of its own | `ping`, `pause`, `resume`, `status`, `prune`, `stop` |
| debouncer | `watcher/debounce.go` | timer; channels `trigger`, `acked`, `out` | `Trigger`, `loop`, `Close` |
| main loop | `watcher/daemon.go` | watcher, listener, context | `Run`: start-up, select loop, deferred clean-up |
| retries, clock | `watcher/retry.go`, `clock.go` | none | `Do` |
| manifest | `store/manifest.go` | `manifest.json` | `Load`, `Save`, `Newest`, `SortByTimestampDesc`, `HashSet` |
| blob store | `store/blobstore.go` | `data/<sha256>` | `HasBlob`, `CommitBlob`, `OpenBlob` |
| garbage collection | `store/gc.go` | works on both stores | `Prune` |
| `backup`, `restore`, `prune` | `cli/backup.go`, `restore.go`, `prune.go`, `ipc.go` | a copy of the manifest, an open blob | a sequence of steps, fenced by pause and resume (`prune` is not) |
| `watch`, `stop` | `cli/watch.go`, `stop.go`, `daemon.go`, `state/state.go` | `daemon.json`, the socket file | ping, clean up, spawn, wait; dial, call |
| IPC server, client, transport | `ipc/` | connections; the socket by name | `Serve`, `Call`, `Dial`, `Listen`, `Cleanup` |
| atomic writes | `atomicwrite/atomicwrite.go` | a temporary file | `Bytes`, `JSON` |
| configuration, namespace | `config/config.go`, `cli/resolve.go`, `init.go` | `config.json` | `Validate`, `ResolvePaths`, `autoDetect` |
| picker | `tui/picker.go` | a filtered list, a cursor | `Pick`, `Update` |
| `status`, `list`, detachment, hashing | `cli/`, `process/`, `hashing/` | none | read and format; start a process; read a file |

### Interactions

- The daemon's *main goroutine* selects among file events, the debouncer's
  signal, interrupts and the stop context; it calls `Evaluate`, one call at a
  time. The *debouncer's goroutine* turns bursts of triggers into signals. Each
  *IPC connection* has a goroutine that runs the handler. `Evaluate` and
  `Resume` share `Evaluator.mu`; `Pause` and the IPC `prune` take no lock.
- The *commands* are processes of their own. `backup` and `restore` pause the
  daemon by IPC if it answers a ping, write the manifest, the blobs and (restore)
  the target, and resume it. `prune` works on the same files with no fence.
- The *user's editor* saves the target at any moment, also between two reads of
  one evaluation.
- `watch`, `stop` and each daemon create and remove `daemon.json` and the socket
  by name, without knowing whose they are.

### What is hard

Reads of the target at different moments (stat, hash, copy); a pause that does
not wait for an evaluation; a copy of the manifest that is written back late;
blobs that are deleted before the manifest that stops naming them is saved;
temporary files with a name that two processes share; what a crash of the
machine makes of files that were not synced; late replies and late matches;
crashes, kills and errors between any two of these steps; a restart that
rebuilds the baseline from the manifest; a one-place signal channel beside a
timer that is armed again; and processes that clean up after each other by
name. `PROJECT.json` lists these hazards, each at its line, with the properties
that would notice.

### What makes each component correct

- *Pipeline*: the newest entries can be restored at every instant; history only
  grows by later entries and shrinks from its old end; content is not recorded
  twice in a row; what the file is left with is captured; nothing waits for ever.
- *Stores*: a blob exists exactly while an entry needs it; the manifest is
  bounded; order and trimming do not depend on ties in the clock.
- *Debouncer and main loop*: no change is forgotten, bursts collapse, signals
  are raised when the file is quiet, a stop ends both goroutines.
- *Commands*: a closed fence keeps the daemon out; a restore can be undone; no
  entry without its blob; no daemon left paused; no echo of a restore.
- *Life cycle*: one daemon for a target, and it can be reached; reports are
  true.
- *Files*: no reader and no crash ever sees half a manifest, blob or target; the
  blob reaches the disk before the manifest that names it; no temporary file stays.
- *Picker*: the entry that is restored is the one that was chosen.
- *Calls*: a reply is taken for the answer to its own request only; a command is
  answered by the daemon of its own target.

## 2. Modules

| module | models |
|---|---|
| `SnapshotHistory` | the abstract promise: a set of snapshots that is only added to at its new end and only cut to its newest members |
| `Evaluator` | `Evaluate`, `Pause`, `Resume`, the IPC `prune`, both stores, saves, crashes and restarts |
| `Debounce` | fsnotify's queue, the select loop, the debouncer, the stop |
| `Fence` | extends `Evaluator` by the processes of `backup`, `restore` and `prune` |
| `Files` | `atomicwrite`, `CommitBlob` and restore's copy and swap by system calls, on a disk that may lose what was not synced |
| `Manifest` | the manifest as the slice it is, with equal and decreasing timestamps |
| `Picker` | extends `Manifest` by the choice of a snapshot, by id or in the list |
| `Lifecycle` | `watch`, `stop`, and daemons that start and end |
| `Namespace` | where the files of a target are, `init`, and how a directory's target is found |
| `Calls` | extends `Namespace` by daemons, connections and calls |
| `EvaluatorProofs`, `PipelineProofs` | theorems about `Evaluator` |
| `ManifestProofs` | theorems about `Manifest` and `Picker` |
| `DebounceProofs`, `FenceProofs`, `FilesProofs`, `LifecycleProofs`, `CallsProofs` | theorems about the module of that name |
| `MC...` | instances for TLC (symmetric sets) |

How they fit together: `Evaluator` takes the debouncer for one bit and the save of
a file for one step; `Debounce` and `Files` are the modules that justify it.
`Fence` adds the commands to the daemon, and takes the choice of a snapshot for
any entry and a call for its effect; `Picker`, `Lifecycle` and `Calls` have the
detail. `Evaluator` takes the manifest for a set; `Manifest` compares that view
with the slice (`SetView`).

### Evaluator

A step is the longest piece of code between two points at which another thread
or the editor can be observed. `Evaluate` is the chain `EvStart` (lines 117-121),
`EvStat`, `EvGate` (first critical section), `EvHash`, `EvDedup` (second critical
section begins), `EvCommit`/`EvCopy` (`CommitBlob`), `EvLoad`, `EvSave`, and with
too many entries `EvScan`, `EvRemove`, `EvTrim` (`Prune`, then the save at 179).
`EvDrop`, `EvIOError` and `EvGcError` are its error returns. `Pause`,
`ResumeLock`/`Stat`/`Hash`/`Error` and `PruneLoad`/`Scan`/`Remove`/`Trim`/`Error`
are the handlers, one request of each client at a time. `Exit` is the end of the
process at any moment, `Start` is `NewEvaluator`, which swallows an error of the
manifest's read (line 77): the history variable `blind` says that the daemon began
so and has recorded nothing since. `Save` is the editor; `FsEvent` an event without
a save.

State: `target`, `blobs`, `manifest` are the disk; `paused`, `base`, `mu` the
fields of `Evaluator`; `ev`, `rpc`, `call` the local variables of threads.
`pending` stands for the debouncer, of which it needs one fact that `Debounce`
establishes: an event is followed by an evaluation that begins after it.

`History` is refinement: `Evaluator` with `history <- manifest, aware <- ~blind`
implements `SnapshotHistory!Spec`, in which a daemon that has lost sight of the history
may record one snapshot too early.

### Fence

A command is a program counter that moves along the table `Then`, which is the
order of the calls in `runBackup` and `runRestore`; each step is an action
(`CliCommit` and `CliCopy` are `CommitBlob`, and so on). `Users` run one command at a
time each; `Clients` are connections, of which every command takes a new one.
`CliFail` ends a command anywhere: an error return, a kill and a timeout have the same
effect, as none of them resumes the daemon. The handler of a call that the command has
given up goes on, and may pause or resume the daemon beside the user's next command.
`CliPingLate` is a ping that fails beside a daemon that is up, after which the command
works without a fence; a restore whose stat fails (`CliStat`, line 77) makes no
pre-flight backup and swaps.

The history variable `crossed` records what the fence is not made for: an evaluation
that was under way when a fence was closed or while a command ran without one (a
`prune`, or a daemon not noticed), a resume of another command or of one that has ended
that opened a fence, a daemon that started under a command. The properties whose names
end in `IfClear` are about behaviours where that has not happened; section 6 says what
the code does where it has.

### Debounce, Manifest, Lifecycle

In `Debounce` the two unbuffered channels are joint steps of both goroutines
(`Trigger`, `Ack`), the buffered one a count; time is a timer that runs down and a
`quiet` counter that runs up. `Manifest` translates the sort, the choice of the
newest entry and `Prune` on sequences with repeated timestamps, and compares them
with the set view of `Evaluator` (`SetView`); `PruneStops` is a collection that
removed some or all of its orphans and saved nothing. `Lifecycle` has a step for each
creation and removal of the socket and of `daemon.json`, by each of the processes
that do so. A request to stop reaches the daemon with the dial (`asked`); its
handler starts `Shutdown` on a goroutine of its own and replies, in either order and
whether or not the command still waits (`StopReply`, `StopLate`). `StopLoadError` and
`StopDialError` are the errors that `stop` takes for the absence of a daemon
(`stop.go:36`, `45`), `WatchPingLate` the one that `watch` does. The history variable
`disorder` records that a command began beside another or while a daemon was starting
or ending, or took a daemon that lives for none.

### Files

A file is an inode with parts; a copy writes one part at a time. `mem` is what a
read finds, `disk` what is safe; `dir` and `dirDisk` are the same of names. `Sync`
makes the parts safe; names become safe only when the file system commits them
(`Commit`), since nothing in the code syncs a directory. The names of all directories
become safe together, in the order of the calls, as in a journal that keeps that order;
a file system that orders the two directories of a blob and of the manifest otherwise
could break `EntryBackedIfAlone`. `Kill` ends a process,
`Crash` the machine: of each part that was not synced either the old or the new
is left. The three kinds of job are a blob and the manifest after it
(`Snapshot`) and the swap of a restore (`Restore`). `TmpName` has what matters
most: `CreateTemp` gives the manifest's temporary file a name of its own, while
the others are fixed (`data/<hash>.tmp` in `CommitBlob`, one name beside the
target in `runRestore`), and a second writer truncates the file that is there.
`RenameAgain` and `GiveUp` are `Doer.Do` around the swap. The history variable
`shared` records that two writers had one temporary name at once.

### Picker

`SelectByID` and `SelectByPicker` are the two ways of `selectSnapshot`. The list is
that of the bubbles library and marked external: keys move the cursor among the
items that are shown, `/` begins a filter, each change of the text starts a
computation of matches (`Type`) whose result (`Matches`) arrives after any number of
further keys. `Update` takes enter, space, q, esc and ctrl+c before the list sees
them, also while a filter is typed: `Enter` and `Cancel` have no guard on it.

### Namespace, Calls

A namespace is a directory and a sanitized name; `Sanitize` is a constant that may
send two names to one. `Detected` is `autoDetect`. The history variable `clash`
records that a namespace came to be used for two targets (two names with one
sanitized form, or a copied directory). In `Calls` a connection is two queues; ids
and versions travel with requests; `CallError` is the deadline or a broken pipe,
after which the decoder keeps its error (`stuck`); `Serve` and `Refuse` are one
turn of `handleConn`. Nothing is said of how long a call takes: the client sets a
deadline for the reply (`client.go:54`) and none for the request.

## 3. Runs

Each passing run finishes within two minutes or so with two workers.

| run | configuration | shows |
|---|---|---|
| `pipeline` | two contents, limit 2, interval 2, 4 saves or events, 2 failures (a failed start among them) or crashes, one pause and resume | `TypeOK`, `NewestRestorable`, `RefCounted`, `SizeBound`, `BaselineIsNewest`, `NoConsecutiveDuplicates`, `History` |
| `pipeline_live` | two contents, limit 1, 3 events, a failure, 2 calls of any command | `LatestSaveCaptured`, `NoneWaitsForever` |
| `debounce` | window 2, queue 2, 8 events | `NoLostEvent`, `OneEvalPerTrigger`, `FireWhenQuiet`, `ChangeEvaluated`, `StopEnds` |
| `fence_one` | 2 restores one after the other, 2 saves, a failure, kill, missed call or crash | `SoleWriterIfClear`, `UndoableIfClear`, `OneAutoPerSave` |
| `fence_pair` | 2 users, a `backup` or `restore` each, at once, a save | `EntriesBacked`, `CommandsEnd`, `DaemonResumes` |
| `fence_collect` | limit 1, 2 of `backup` and `prune` one after the other, 2 saves, a failure, kill, missed call or crash | `NewestRestorableIfClear`, `SoleWriterIfClear` |
| `files` | 2 writers, 2 documents (one recorded before), files of 2 parts, 2 jobs, one retry, a kill or crash | `ManifestWhole`, `WholeIfAlone`, `EntryBackedIfAlone`, `NoLitter`, `ChangesWholeIfAlone`, `JobsEnd` |
| `manifest` | 3 hashes, 3 clock readings in any order, 5 entries, limit 2; the picker on up to 3 entries, with filters | `SortsByRank`, `BaselineStable`, `KeptRestorable`, `SetView`, `IndexInRange`, `RestoresShownUnfiltered` |
| `lifecycle` | 2 users, 3 commands, 2 faults | `InOrder`, `Truthful`, `StoppedEnds`, `CommandEnds` |
| `calls` | 2 directories, 3 names of which 2 collide, a command with 2 calls, 3 changes of namespaces and daemons | `OwnReply`, `ServesTarget` |
| `fence_stale`, `picker` | the smallest that do | a disagreement of the code with its documentation each (section 6) |

### Bounds, and why they are enough

- *Contents*: two distinguish "the same as before" from "new"; a third content
  adds nothing to the pipeline, whose steps compare a hash with one baseline or
  with the set of hashes kept.
- *Limit of 1 or 2* with more events than that: collections happen, also two in a
  row, also after one that failed. A limit of 2 lets an entry that stays share its
  blob with one that goes. Where no collection is meant the limit is 50, the
  default, which is never reached (a daemon's configuration must have one,
  `config.go:45`).
- *Interval 2* against a clock that advances with each save and each reading:
  evaluations fall inside the interval and exactly at its end.
- *Two writers, files of two parts*: a reader, a crash or another writer finds a file
  half written; one writer truncates, renames or removes what the other has open. A
  crash may hit after one job was finished and while another is under way. Ten
  inodes and two random numbers are enough for every file that two jobs create.
- *Three entries in the picker*: a filter can drop the first, keep the order or
  change it, and match nothing; one computation may be under way while keys go on.
- *Two names that collide and one that does not, two directories*: namespaces that
  are shared and not, a lone namespace and several, a copy of either.
- *Two calls on a connection*: the reply to the first may come during the second.
- *Failures*: one puts an interruption at each possible step; two, an interruption
  of the recovery from the first.
- *Window 2, queue 2, 8 events*: a timer is re-armed before, at and after expiry,
  the queue overflows, a signal waits while another is raised.
- *3 commands, 2 daemons at a time*: a `watch` beside a `watch`, a `stop` or a
  daemon that is ending; a `stop` that fails and a command after it.
- *A connection for each command of a fence*: a handler that outlives its command
  takes effect in the next one.
- Counters (`events`, `faults`, `calls`, `commands`, `jobs`, `changes`, `clock`) are
  bounded in the guards; `MaxListed` and `MaxFlight` bound the picker. `Rest` lets a behaviour stop where nothing is left to do, so that a
  deadlock TLC reports is one.

### Fairness

Go's scheduler runs each goroutine that can run, and the operating system each
process: `WF` of the main goroutine's steps, of each handler's and of each
command's. Nothing is assumed of the editor, of the clock beyond `Debounce`'s
`Tick`, of failures, crashes or restarts, nor that a user gives a command; where
the picker waits for the user, `fence_pair` assumes that the user picks. `mu` is
held for finitely many steps and contended by finitely many calls, so weak
fairness of the waiting thread is enough. A writer of `Files` that is not killed goes on (`WF` of its steps; a
failure of a call is possible and never assumed). `Calls` checks safety only and
assumes nothing.
`files` and `calls` do not check for deadlock: there the system may come to rest
when the bounds are used up.

## 4. Proofs

`EvaluatorProofs`, for every set of contents and clients, every limit and every
interval:

- `TypeCorrect`: `Spec => []TypeOK`. `TypeOK` is not inductive: `AutoSnapshot`
  would be ill-typed with an unset hash, so the invariant carries `HashKnown`.
- `NewestAlwaysRestorable`: `Spec => []NewestRestorable` if `"prune" \notin Cmds`.
  The inductive invariant is `StoreInv`. `NewestRestorable` alone says nothing of
  the copy of the manifest an evaluation works on; `PipelineInv` says that this
  copy is still what is on disk (plus the new entry), that the new entry's blob is
  there before the entry, and that no blob of an entry that stays is in the list to
  delete; `MutexInv` says why nobody else changes the stores meanwhile. The lemmas
  `KeptMonotone` and `KeptAfterAppend` are the arithmetic: an entry that is among
  the newest of a manifest is so in each part of it, so appending never brings an
  entry back whose blob a failed collection deleted.
- `PipelineKeepsHistory`: `Spec => History`, under the same assumption. The inductive
  invariant adds `HistoryInv`: the reading of the clock an evaluation carries is
  later than every entry and, past the gate, by the interval at least; the baseline
  is no earlier than any entry also after `Resume`, the two last only for a daemon that
  is not `blind`. Each step then is a `Record`, a `Trim`, a `Lose`, a `Find` or a
  stutter of the abstract module.

`DebounceProofs`, for every window, queue and number of events: `TypeCorrect`;
`NoEventForgotten` (with `Handshake`: the two goroutines stand at the
acknowledgement together, with the timer armed); `EvaluationsAreTriggered`
(triggers pay for the armed timer, the firing, the signal and the evaluation);
`SignalledWhenQuiet` (with `TimerInv`: an armed timer and the time since the last
trigger add up to the window).

`PipelineProofs`, first about a daemon that no client has called (`calls = 0`), with no
assumption on what clients could send: `BaselineFollowsManifest`
(`BaselineIsNewest`) and `NeverTwiceInARow` (`NoConsecutiveDuplicates`). `CalmInv`
adds to the invariants above that the baseline is the one `NewEvaluator` would read
(the empty one for a daemon that is `blind`),
that an evaluation past the comparison holds a hash other than the baseline's, and
that entries are told apart by their times. The lemmas show that the newest entry is
unique and stays through a collection, that cutting the old end makes no two entries
successive that were not, and that a later entry with a hash other than the newest's
adds no repetition.

`PipelineProofs`, then without `prune` by IPC: `ManifestBounded` (`SizeBound`) and
`BlobsCounted` (`RefCounted`). For the first, `KeptBound`: all entries that a
collection leaves, but the oldest of them, are newer than that one, and so fewer
than the limit; `SizeInv` then says that each failure leaves one entry too many at
most. `CountInv` says which blobs there are at each point of an evaluation.

`FenceProofs`, for any number of clients, commands, failures and crashes:
`FenceTypeCorrect`, with `Staged`, which says what each command knows at each of its
steps; `EntriesStayBacked` (`EntriesBacked` until something is collected: with
no `prune`, and along behaviours in which the daemon starts no collection).
`BackedInv` says it of every copy of the manifest in memory too, so that it does
not matter which of them is saved last. `Effect` is what a step of a command can do
to the stores, and is shown once for each action.

`FenceKeepsOut` (`SoleWriterIfClear`) is about any number of users too, and about
handlers that outlive their commands. `ClosedInv` says that a command enters its fence
only after the daemon has answered its pause; that, unless something has crossed, a
daemon which is up is paused as long as some fence is closed; that one which is paused
evaluates nothing; and that nothing is evaluated beside a command without a fence.

The other theorems of `FenceProofs` are about one command at a time, over any number
of connections, and say how far the fence carries:

- `FenceKeepsRestorable` (`NewestRestorableIfClear`) and `RestoresAreUndoable`
  (`UndoableIfClear`). `ClearInv` adds to `ClosedInv` that `PipelineInv` holds for the
  daemon and `Holds` for the command, unless something has crossed: what
  it read of the stores is still so, its blob is there before its entry, and the
  entry that makes a restore undoable is on disk before the swap, if it could look at
  the file at all. Both theorems
  assume that the daemon collects nothing while a `restore` is under way
  (`[](Restoring => ~Collects)`). A `restore` reads the manifest before its fence
  (`restore.go:41`) and saves that copy (`restore.go:96`): an entry that was collected
  in between would come back without its blob, and `Holds` would be false. The runs
  `fence_one` and `fence_collect` meet the condition: the one collects nothing, the
  other does not restore.
- `SavesRecordedOnce` (`OneAutoPerSave`). `PastInv`: every time that is known anywhere
  was handed out by the clock, so that a new save has an mtime of its own. `TrueInv`:
  a manifest that an evaluation saves is the one on disk with its entry, and, as long as
  nothing fails, the daemon serves only requests that are waited for. `OnceInv`:
  the mtime of the target, the one an evaluation carries and the one a resume has
  read are each that of the baseline or one that no automatic entry has, on disk
  or in a command's copy of the manifest.
- `OnlyRestoresForget`: without `restore`, an entry leaves the manifest only when
  `MaxSnapshots` newer ones are there, unless something has crossed. This is
  `RecentKept` under its condition, and says that the divergence of `fence_stale` has
  no cause but the one described in section 6. `CurrentInv`: what a backup is about to
  save has all that is on disk, and a `prune` trims what is there.

`FilesProofs`, for any number of writers, documents, parts and faults: `TypeCorrect`,
`ManifestNeverTorn`, `WholeWhenAlone`, `EntriesBackedAfterCrash`, `ChangesWhole`. The
invariant `FilesInv` has four parts: `TypeInv`; `NamesInv` (a file has one name in
the directory and one on disk, a temporary file is nobody's final one, and a writer
that is alone with its temporary file is alone with its inode); `ContentInv` (what
such a writer has written is there; what it is about to rename is complete and on
disk; so is all that has a final name); `BackedInv` (the blob is there before the
manifest names it, in both directories). The parts need each other:
what is renamed is whole because its inode is the writer's own. `NothingLeftOver`
(`NoLitter`) needs no writer to be alone: without faults, each temporary file that is
there is the one that some writer is at work on (`Claimed`), also where two have the
same, since each of them removes or renames what it finds under the name.

`ManifestProofs`, for any hashes, clock readings, limits and lengths, and whatever is
typed into the picker: `SortCorrect` (`SortsByRank`), `BaselineSurvives`
(`BaselineStable`), `KeptStayRestorable` (`KeptRestorable`), `SetsSuffice` (`SetView`),
`IndexNeverPanics` (`IndexInRange`), `ShownIsRestored` (`RestoresShownUnfiltered`).
`SortByTimestampDesc` and `Newest` are folds over the positions of a slice. The library's
induction theorems are out of reach, so each induction is a least counterexample, which
`Least` takes from the well-foundedness of `<`: first that the recursive function
behind a fold exists, then that inserting an entry leaves a sorted permutation whose
equal timestamps stand in their old order (`Arranges`), whence each entry has the place
that the number of entries before it gives. `KeptRestorable` is inductive by itself,
given that trimming a trimmed manifest changes nothing. The picker's behaviours are
behaviours of `Manifest` (`PickerSpec => Spec`, with the manifest at rest while the
picker is open); `PickerInv` says of what is shown that it is made of positions of
the list, also after matches that arrive late.

`LifecycleProofs`, for any number of users, commands and faults: `TypeCorrect`,
`OrderedCommandsReach` (`InOrder`), `ReportsTruthful` (`Truthful`). `BirthInv` says that
numbers of daemons are given once; `SoloInv`, as long as there was no `disorder`, that
there is one command and one daemon alive at most, that a daemon that serves is
found under both names, and how far each command and each daemon can be at once;
`WaitInv` that a `watch` waits for a daemon that is on its way. That `stop` says
"stopped" only when each daemon that serves has been asked to is part of `Truthful`;
that such a daemon ends is `StoppedEnds`, with TLC.

`CallsProofs`, for any directories, names, commands and calls, and whatever names
are sanitized to: `RepliesAreOwn` (`OwnReply`), with `Numbered`: the ids that are
served, answered and waiting on a connection grow in the order they were sent, and
a reply has the id of its request; `RightTargetServed` (`ServesTarget`), with `Owned`
and `Connected`: until a clash each namespace was made for the one target whose it
is, and so were its daemon and the connections to it.

The assumptions are those named in the modules: `NoContent` is no content, limits
and bounds are natural numbers, clients are told apart from the main goroutine, the
window, the queue and the parts of a file are positive, there are inodes for the
files that are there at the beginning. TLC evaluates them in the runs.

Type correctness is a theorem for `Evaluator`, `Debounce`, `Fence`, `Files`,
`Manifest` and `Lifecycle`; that of `Evaluator` is checked in a run as well.

Each safety invariant and each safety property of a step that a passing run checks
is a theorem, for the actors and under the conditions named above. Model-checked
only: everything about liveness (`LatestSaveCaptured`, `NoneWaitsForever`,
`ChangeEvaluated`, `StopEnds`, `CommandsEnd`, `DaemonResumes`, `StoppedEnds`,
`CommandEnds`, `JobsEnd`), since `ENABLED` and fairness are out of the
prover's reach; and what the runs `fence_stale` and `picker` refute.

## 5. Not modelled

- `config.json` edited by hand: its settings are constants of the modules, which
  assume what `Validate` demands, and its target is what `init` wrote.
- `status` and `list` beyond the call that `status` makes: they read and format.
- Output and logs, `process`, the command tree: no state, or system calls only.
- The Windows transport: named pipes leave nothing behind to clean up.
- A target that is a symbolic link: the daemon watches the file the link leads to
  (`daemon.go:25`), while a restore renames over the link (`restore.go:111`).
- Two saves with one mtime, and a save between two attempts of a retried read.
- In `Files`, a source that changes while it is copied (`Evaluator` has the save
  between two reads, as one content each), and a manifest of more than one entry.

## 6. Divergences

Where the code and its documentation disagree, with the run that shows it:

- `restore` writes back the manifest it read before the picker and the pause, and so
  may erase an entry the daemon has recorded since, or bring back entries that were
  collected in between (`fence_stale`).
- With a filter, the picker returns a position among the items that are shown, and
  restore takes the entry at that position among all, another than the one that is
  highlighted (`picker`). Enter and space end
  the picker also while a filter is typed, as do q and esc.

Three more, each with a configuration of its own that is no run of the table
(`tlc -config MCEvaluatorIntact.cfg MCEvaluator`, and so on; TLC reports the violation
of its last invariant):

- A save between the hash (`evaluator.go:139`) and the copy (`blobstore.go:35`)
  is stored under the wrong name (`MCEvaluatorIntact.cfg`, module `MCEvaluator`). From
  then on the content that has this name is taken for stored and is not;
  `LatestSaveCaptured` leaves such behaviours out.
- `Pause` does not wait for an evaluation that has begun, which then writes inside
  the fence (`MCFenceSole.cfg`, module `MCFence`). Among the consequences: it may
  erase the pre-restore entry before the swap, which is why `UndoableIfClear` has
  its condition.
- Two `watch` commands at once leave two daemons (`MCLifecycleTwo.cfg`, module
  `MCLifecycle`).

Others are documented by the condition that a property needs:

- Two writers of one blob, or two restores, use one temporary file. Together with a
  kill or a crash, a torn blob may stay under its final name, where `HasBlob` takes
  it for complete; and a restore may swap in what another has half written
  (`shared` in `WholeIfAlone`, `EntryBackedIfAlone`, `ChangesWholeIfAlone`).
- The copy of a restore stays beside the target if `chmod` fails, since its removal
  is deferred only after the copy (`NoLitter` counts that failure as a fault).
- Two names with one sanitized form share a namespace, and with it the manifest and
  the daemon; a directory that is copied with its namespace leads commands to the
  target of the original (`clash` in `ServesTarget`).
- A command that fails between pause and resume, or whose pause is late, leaves the
  daemon paused (`DaemonResumes` is checked without failures).
- Of two commands that overlap, the first to resume opens the other's fence; so does
  the resume of a command that was killed or timed out when it takes effect during the
  next one. A ping that fails (`restore.go:64`, `backup.go:71` ignore the error) makes a
  command work without a fence beside a daemon that is up (`crossed` in the properties
  that end in `IfClear`).
- A restore takes any error of the stat for the absence of the target
  (`restore.go:77`): it makes no pre-flight backup and overwrites what is there
  (`UndoableIfClear` leaves out the restore whose look has failed).
- A daemon that cannot read the manifest when it begins (`evaluator.go:77`) has an empty
  baseline: the next event is recorded whatever it is and however soon (`blind` in
  `NoConsecutiveDuplicates` and `History`).
- `prune` may delete the blob of a snapshot the daemon is about to record
  (`NewestRestorableIfClear`).
- `Resume` takes unsaved content for the baseline, after which content may be
  recorded twice in a row (`NoConsecutiveDuplicates` is for a daemon that was not
  called), and a save between pause and resume is not captured.
- A collection that is interrupted leaves old entries without blobs
  (`NewestRestorable` is about the newest).
- A signal in the debouncer's channel is not withdrawn when the timer is armed
  again (`FireWhenQuiet` is about raising it).
- A change whose event the operating system dropped is not looked at
  (`NoLostEvent`, `ChangeEvaluated` leave it out).
- `stop` says "stopped" as soon as the handler replies, when the daemon is still to end
  or even to begin to (`spec.md:115`: "waits for a clean exit"). What is true then, that
  each daemon that serves has been asked to, is in `Truthful`. A `watch` right after it
  may start a daemon whose socket the ending one removes (`disorder` in `InOrder`).
- `stop` takes any error of reading `daemon.json` or of the dial for the absence of a
  daemon (`stop.go:36`, `45`), removes the files of one that serves and says "not
  running" (`disorder` in `InOrder` and `Truthful`).

## 7. Plan

Done, in this order: `SnapshotHistory` and `Evaluator` with their proofs, `Debounce`
with its proofs, `Fence`, `Manifest`, `Lifecycle`; then `Files`, `Picker`,
`Namespace` and `Calls`, and the proofs about `Evaluator`'s baseline and
collections, `Fence`, `Files`, `Lifecycle` and `Calls`; then those about what the
fence carries, about what is left of temporary files, and about `Manifest` and
`Picker`.

Next:

1. `Files` as a refinement of the stores of `Evaluator`, with one step for each
   document that readers see change (`ChangesWholeIfAlone` is its core).
2. The other theorems about the fence for more than one command at a time, as
   `FenceKeepsOut` is: two fences that overlap open each other, so each needs its own
   condition.
3. Targets that are symbolic links.
