------------------------------ MODULE Evaluator ------------------------------
(***************************************************************************)
(* The heart of a soute daemon: the evaluation pipeline that turns a       *)
(* debounced file event into a snapshot (internal/watcher/evaluator.go),   *)
(* the IPC commands that interfere with it (internal/watcher/handler.go),  *)
(* and the two stores both work on, the blob directory and the manifest    *)
(* (internal/store).                                                       *)
(*                                                                         *)
(* Two kinds of thread share the state.  The daemon's main goroutine runs  *)
(* Evaluate, one call at a time; each IPC connection has a goroutine that  *)
(* runs Pause, Resume or prune.  A step of the model is the longest piece  *)
(* of code between two points where the other threads, or the program that *)
(* saves the target file, can be observed.                                 *)
(*                                                                         *)
(* Simplifications:                                                        *)
(*  - time is a counter; a save of the target and a reading of the clock   *)
(*    each get an instant of their own, so that mtimes are fresh and ids   *)
(*    ("snap_" + nanoseconds of the timestamp) are unique;                 *)
(*  - the editor replaces the target atomically, so a read of it sees one  *)
(*    content; reads at different moments may see different ones;          *)
(*  - the manifest is the set of its entries (module Manifest relates it   *)
(*    to the slice the code keeps); ids and sizes are left out;            *)
(*  - the debouncer is one bit, "a signal is on its way" (module Debounce  *)
(*    has its channels and timer);                                         *)
(*  - a failed stat, open, read, write or rename is a fault that may occur *)
(*    MaxFaults times, after the retries of retry.go are used up.          *)
(***************************************************************************)
EXTENDS Integers, FiniteSets

CONSTANTS
  Contents,       \* what the target file may hold
  NoContent,      \* a blob that does not exist
  MinInterval,    \* config: min_interval_seconds, 0 disables the gate
  MaxSnapshots,   \* config: max_snapshots, 0 disables garbage collection
  Clients,        \* IPC connections
  Cmds,           \* the commands they send
  MaxEvents,      \* bound: saves and other file events
  MaxFaults,      \* bound: failed operations and exits of the daemon
  MaxCalls,       \* bound: IPC calls
  MaxClock        \* bound: passage of time other than by saves and readings

ASSUME ContentAssumption == NoContent \notin Contents /\ Contents # {}
ASSUME ConfigAssumption == MinInterval \in Nat /\ MaxSnapshots \in Nat
ASSUME ClientAssumption ==
  /\ Clients \cap {"free", "eval"} = {}
  /\ Cmds \subseteq {"pause", "resume", "prune"}
ASSUME BoundAssumption == {MaxEvents, MaxFaults, MaxCalls, MaxClock} \subseteq Nat

-----------------------------------------------------------------------------
(* Data.                                                                   *)

Hash(c) == <<"sha256", c>>
Hashes == {Hash(c) : c \in Contents}
NoHash == <<"">>                \* the zero value of lastHash

ZeroTime == -1 - MinInterval    \* time.Time{}: before any reading, by more than
                                \* the minimum interval
Times == {ZeroTime} \cup Nat

Tags == {"auto", "Manual Backup", "pre-restore backup"}

Snapshot == [ts : Nat, hash : Hashes, mtime : Nat, tag : Tags]

Baseline == [mtime : Times, hash : Hashes \cup {NoHash}, time : Times]
NoBaseline == [mtime |-> ZeroTime, hash |-> NoHash, time |-> ZeroTime]

\* The local variables of a call of Evaluate.
EvPcs == {"idle", "stat", "gate", "hash", "dedup", "commit", "copy",
          "load", "save", "scan", "sweep"}
IdleEv == [pc |-> "idle", now |-> 0, mtime |-> 0, hash |-> NoHash,
           man |-> {}, doomed |-> {}]

\* The state of the one request a client has; "paused", "ok" and "err" are
\* replies.  The handler's local variables are in call.
Replies == {"none", "paused", "ok", "err"}
RpcPcs == Replies \cup {"pause", "resume", "prune", "rstat", "rhash",
                        "pscan", "psweep"}
NoCall == [mtime |-> 0, man |-> {}, doomed |-> {}]

VARIABLES
  target,   \* the watched file: its content and mtime
  blobs,    \* data/: the content stored under each hash
  manifest, \* manifest.json: the set of snapshots
  clock,    \* the last instant handed out
  up,       \* whether a daemon runs
  paused,   \* Evaluator.paused
  base,     \* Evaluator.lastMtime, lastHash, lastSnapshotTime
  blind,    \* history: the daemon could not read the manifest when it began,
            \* and has recorded nothing since
  mu,       \* Evaluator.mu: "free", "eval" or the client that holds it
  pending,  \* the debouncer will signal, or has signalled, the main loop
  ev,       \* the main goroutine's call of Evaluate
  rpc,      \* the request of each client
  call,     \* the local variables of its handler
  events, faults, calls   \* how much of each bound is used

stores == <<blobs, manifest>>
daemon == <<up, paused, base, blind, mu, pending, ev>>
handlers == <<rpc, call>>
bounds == <<events, faults, calls>>
vars == <<target, stores, clock, daemon, handlers, bounds>>

Fault == faults < MaxFaults /\ faults' = faults + 1

-----------------------------------------------------------------------------
(* The stores.                                                             *)

HasBlob(h) == blobs[h] # NoContent

HashSet(m) == {s.hash : s \in m}

Newer(s, m) == {t \in m : t.ts > s.ts}

\* What Prune leaves of the manifest m: its newest MaxSnapshots entries.
Kept(m) ==
  {s \in m : MaxSnapshots > 0 => Cardinality(Newer(s, m)) < MaxSnapshots}

\* Variant: collection starts one entry late.
OverLimit_Late(m) == MaxSnapshots > 0 /\ Cardinality(m) > MaxSnapshots + 1

OverLimit(m) == MaxSnapshots > 0 /\ Cardinality(m) > MaxSnapshots

\* Variant: the blobs of the removed entries go, whoever else refers to them.
Garbage_Shared(m) == {h \in Hashes : HasBlob(h)} \cap HashSet(m \ Kept(m))

\* Variant: keepHashes is not rebuilt once the entries are cut.
Garbage_Uncut(m) == {h \in Hashes : HasBlob(h)} \ HashSet(m)

\* The blobs Prune finds unreferenced when it lists the data directory.
Garbage(m) == {h \in Hashes : HasBlob(h)} \ HashSet(Kept(m))

Newest(m) == {s \in m : Newer(s, m) = {}}

-----------------------------------------------------------------------------
(* The world around the daemon.                                            *)

Init ==
  /\ \E c \in Contents : target = [content |-> c, mtime |-> 0]
  /\ blobs = [h \in Hashes |-> NoContent]
  /\ manifest = {}
  /\ clock = 0
  /\ up = TRUE
  /\ paused = FALSE
  /\ base = NoBaseline
  /\ blind = FALSE
  /\ mu = "free"
  /\ pending = FALSE
  /\ ev = IdleEv
  /\ rpc = [p \in Clients |-> "none"]
  /\ call = [p \in Clients |-> NoCall]
  /\ events = 0 /\ faults = 0 /\ calls = 0

\* The user's editor saves the file.  A running daemon is told.
Save(c) ==
  /\ events < MaxEvents
  /\ events' = events + 1
  /\ clock' = clock + 1
  /\ target' = [content |-> c, mtime |-> clock + 1]
  /\ pending' = up
  /\ UNCHANGED <<stores, up, paused, base, blind, mu, ev, handlers, faults, calls>>

\* Another event of the target (a chmod, a second event of the same save).
FsEvent ==
  /\ up
  /\ ~pending
  /\ events < MaxEvents
  /\ events' = events + 1
  /\ pending' = TRUE
  /\ UNCHANGED <<target, stores, clock, up, paused, base, blind, mu, ev, handlers,
                 faults, calls>>

\* Time passes.
Tick ==
  /\ clock < MaxClock
  /\ clock' = clock + 1
  /\ UNCHANGED <<target, stores, daemon, handlers, bounds>>

\* The daemon process ends, at any moment: a crash, a kill, a power failure,
\* or a stop, which ends the handlers wherever they are.  Its memory is lost
\* and its clients' connections break; the files stay as they are.
Exit ==
  /\ up
  /\ Fault
  /\ up' = FALSE
  /\ paused' = FALSE
  /\ base' = NoBaseline
  /\ blind' = FALSE
  /\ mu' = "free"
  /\ pending' = FALSE
  /\ ev' = IdleEv
  /\ rpc' = [p \in Clients |-> IF rpc[p] \in Replies THEN rpc[p] ELSE "err"]
  /\ call' = [p \in Clients |-> NoCall]
  /\ UNCHANGED <<target, stores, clock, events, calls>>

\* NewEvaluator: the baseline is that of the newest snapshot, if there is one.
\* The file is not evaluated before its next event.
BaselineFrom(m) ==
  IF Newest(m) = {} THEN NoBaseline
  ELSE LET s == CHOOSE t \in Newest(m) : TRUE
       IN [mtime |-> s.mtime, hash |-> s.hash, time |-> s.ts]

\* Variant: a restarted daemon begins with an empty baseline.
Start_Blank ==
  /\ ~up
  /\ up' = TRUE
  /\ base' = NoBaseline
  /\ UNCHANGED <<target, stores, clock, paused, blind, mu, pending, ev, handlers, bounds>>

\* A manifest that cannot be read leaves the baseline empty: the error is
\* swallowed, and the daemon takes whatever it sees next for new.
Start ==
  /\ ~up
  /\ up' = TRUE
  /\ \/ base' = BaselineFrom(manifest) /\ UNCHANGED <<blind, faults>>
     \/ Fault /\ base' = NoBaseline /\ blind' = TRUE
  /\ UNCHANGED <<target, stores, clock, paused, mu, pending, ev, handlers, events, calls>>

-----------------------------------------------------------------------------
(* Evaluate, on the main goroutine.                                        *)

evFrame == <<target, clock, up, paused, pending, handlers, events, calls>>

\* Variant: Evaluate does not look at the flag.
EvStart_Unpaused ==
  /\ up
  /\ ev.pc = "idle"
  /\ pending
  /\ pending' = FALSE
  /\ clock' = clock + 1
  /\ ev' = [IdleEv EXCEPT !.pc = "stat", !.now = clock + 1]
  /\ UNCHANGED <<target, stores, up, paused, base, blind, mu, handlers, bounds>>

\* The main loop receives the debouncer's signal and calls Evaluate, which
\* returns at once when paused and reads the clock when not.
EvStart ==
  /\ up
  /\ ev.pc = "idle"
  /\ pending
  /\ pending' = FALSE
  /\ IF paused
       THEN UNCHANGED <<clock, ev>>
       ELSE /\ clock' = clock + 1
            /\ ev' = [IdleEv EXCEPT !.pc = "stat", !.now = clock + 1]
  /\ UNCHANGED <<target, stores, up, paused, base, blind, mu, handlers, bounds>>

EvStat ==
  /\ ev.pc = "stat"
  /\ ev' = [ev EXCEPT !.pc = "gate", !.mtime = target.mtime]
  /\ UNCHANGED <<evFrame, stores, base, blind, mu, faults>>

\* Variant: the interval is one unit short.
WithinInterval_Short(now) == MinInterval # 0 /\ now - base.time < MinInterval - 1

WithinInterval(now) == MinInterval # 0 /\ now - base.time < MinInterval

\* The two cheap gates, under the mutex.
EvGate ==
  /\ ev.pc = "gate"
  /\ mu = "free"
  /\ ev' = IF ev.mtime = base.mtime \/ WithinInterval(ev.now)
             THEN IdleEv
             ELSE [ev EXCEPT !.pc = "hash"]
  /\ UNCHANGED <<evFrame, stores, base, blind, mu, faults>>

\* The file is read in full, without the mutex.
EvHash ==
  /\ ev.pc = "hash"
  /\ ev' = [ev EXCEPT !.pc = "dedup", !.hash = Hash(target.content)]
  /\ UNCHANGED <<evFrame, stores, base, blind, mu, faults>>

\* stat or hash fails through all its retries: the event is dropped.
EvDrop ==
  /\ ev.pc \in {"stat", "hash"}
  /\ Fault
  /\ ev' = IdleEv
  /\ UNCHANGED <<evFrame, stores, base, blind, mu>>

\* Under the mutex from here on: the content was already captured, or is new.
EvDedup ==
  /\ ev.pc = "dedup"
  /\ mu = "free"
  /\ IF ev.hash = base.hash
       THEN ev' = IdleEv /\ UNCHANGED mu
       ELSE ev' = [ev EXCEPT !.pc = "commit"] /\ mu' = "eval"
  /\ UNCHANGED <<evFrame, stores, base, blind, faults>>

\* CommitBlob: nothing to do when a blob has that name, else the file is read
\* again and its content, whatever it is by now, stored under the hash.
EvCommit ==
  /\ ev.pc = "commit"
  /\ ev' = [ev EXCEPT !.pc = IF HasBlob(ev.hash) THEN "load" ELSE "copy"]
  /\ UNCHANGED <<evFrame, stores, base, blind, mu, faults>>

EvCopy ==
  /\ ev.pc = "copy"
  /\ blobs' = [blobs EXCEPT ![ev.hash] = target.content]
  /\ ev' = [ev EXCEPT !.pc = "load"]
  /\ UNCHANGED <<evFrame, manifest, base, blind, mu, faults>>

\* Variant: the entry gets the hash of the last snapshot, not of this one.
AutoSnapshot_LastHash ==
  [ts |-> ev.now, hash |-> base.hash, mtime |-> ev.mtime, tag |-> "auto"]

AutoSnapshot ==
  [ts |-> ev.now, hash |-> ev.hash, mtime |-> ev.mtime, tag |-> "auto"]

\* The manifest is read and the new entry appended to the copy in memory.
EvLoad ==
  /\ ev.pc = "load"
  /\ ev' = [ev EXCEPT !.pc = "save", !.man = manifest \cup {AutoSnapshot}]
  /\ UNCHANGED <<evFrame, stores, base, blind, mu, faults>>

\* Variant: the baseline gets the time of the commit, not of the entry.
EvSave_CommitTime ==
  /\ ev.pc = "save"
  /\ manifest' = ev.man
  /\ blind' = FALSE
  /\ base' = [mtime |-> ev.mtime, hash |-> ev.hash, time |-> clock]
  /\ IF OverLimit(ev.man)
       THEN ev' = [ev EXCEPT !.pc = "scan"] /\ UNCHANGED mu
       ELSE ev' = IdleEv /\ mu' = "free"
  /\ UNCHANGED <<evFrame, blobs, faults>>

\* Variant: the baseline gets the mtime the file has at the end.
EvSave_LateMtime ==
  /\ ev.pc = "save"
  /\ manifest' = ev.man
  /\ blind' = FALSE
  /\ base' = [mtime |-> target.mtime, hash |-> ev.hash, time |-> ev.now]
  /\ IF OverLimit(ev.man)
       THEN ev' = [ev EXCEPT !.pc = "scan"] /\ UNCHANGED mu
       ELSE ev' = IdleEv /\ mu' = "free"
  /\ UNCHANGED <<evFrame, blobs, faults>>

\* The manifest is replaced and the baseline moved; over the limit, garbage
\* collection follows before the mutex is released.
EvSave ==
  /\ ev.pc = "save"
  /\ manifest' = ev.man
  /\ blind' = FALSE
  /\ base' = [mtime |-> ev.mtime, hash |-> ev.hash, time |-> ev.now]
  /\ IF OverLimit(ev.man)
       THEN ev' = [ev EXCEPT !.pc = "scan"] /\ UNCHANGED mu
       ELSE ev' = IdleEv /\ mu' = "free"
  /\ UNCHANGED <<evFrame, blobs, faults>>

\* A blob or manifest operation fails: Evaluate returns, the event is dropped.
EvIOError ==
  /\ ev.pc \in {"commit", "copy", "load", "save"}
  /\ Fault
  /\ ev' = IdleEv
  /\ mu' = "free"
  /\ UNCHANGED <<evFrame, stores, base, blind>>

\* Prune: choose what stays, list the data directory, delete one by one.
EvScan ==
  /\ ev.pc = "scan"
  /\ ev' = [ev EXCEPT !.pc = "sweep", !.doomed = Garbage(ev.man)]
  /\ UNCHANGED <<evFrame, stores, base, blind, mu, faults>>

EvRemove(h) ==
  /\ ev.pc = "sweep"
  /\ h \in ev.doomed
  /\ blobs' = [blobs EXCEPT ![h] = NoContent]
  /\ ev' = [ev EXCEPT !.doomed = @ \ {h}]
  /\ UNCHANGED <<evFrame, manifest, base, blind, mu, faults>>

\* Only then is the trimmed manifest saved.
EvTrim ==
  /\ ev.pc = "sweep"
  /\ ev.doomed = {}
  /\ manifest' = Kept(ev.man)
  /\ ev' = IdleEv
  /\ mu' = "free"
  /\ UNCHANGED <<evFrame, blobs, base, blind, faults>>

\* Listing, deleting or saving fails: the error is swallowed, the snapshot
\* counts as committed and the manifest on disk keeps all its entries.
EvGcError ==
  /\ ev.pc \in {"scan", "sweep"}
  /\ Fault
  /\ ev' = IdleEv
  /\ mu' = "free"
  /\ UNCHANGED <<evFrame, stores, base, blind>>

-----------------------------------------------------------------------------
(* The IPC handlers, one goroutine for each connection.                    *)

hFrame == <<target, up, pending, ev, events, calls>>

Reply(p, r) == rpc' = [rpc EXCEPT ![p] = r] /\ call' = [call EXCEPT ![p] = NoCall]

\* A client sends a command and waits for the reply.  The commands of the CLI
\* resume only what they paused; one that fails in between resumes nothing.
Request(p, cmd) ==
  /\ up
  /\ rpc[p] \in Replies
  /\ cmd = "resume" => rpc[p] = "paused"
  /\ calls < MaxCalls
  /\ calls' = calls + 1
  /\ rpc' = [rpc EXCEPT ![p] = cmd]
  /\ UNCHANGED <<target, stores, clock, daemon, call, events, faults>>

\* Pause sets the flag and returns; it does not wait for an Evaluate that
\* has begun.
Pause(p) ==
  /\ rpc[p] = "pause"
  /\ paused' = TRUE
  /\ Reply(p, "paused")
  /\ UNCHANGED <<hFrame, stores, clock, base, blind, mu, faults>>

ResumeLock(p) ==
  /\ rpc[p] = "resume"
  /\ mu = "free"
  /\ mu' = p
  /\ rpc' = [rpc EXCEPT ![p] = "rstat"]
  /\ UNCHANGED <<hFrame, stores, clock, paused, base, blind, call, faults>>

\* Variant: resume waits, with the mutex, until the file is as it was.
ResumeStat_Wait(p) ==
  /\ rpc[p] = "rstat"
  /\ rpc' = [rpc EXCEPT ![p] = IF target.mtime = base.mtime THEN "rhash" ELSE "rstat"]
  /\ call' = [call EXCEPT ![p].mtime = target.mtime]
  /\ UNCHANGED <<hFrame, stores, clock, paused, base, blind, mu, faults>>

ResumeStat(p) ==
  /\ rpc[p] = "rstat"
  /\ rpc' = [rpc EXCEPT ![p] = "rhash"]
  /\ call' = [call EXCEPT ![p].mtime = target.mtime]
  /\ UNCHANGED <<hFrame, stores, clock, paused, base, blind, mu, faults>>

\* Variant: the baseline stays what it was.
ResumeHash_OldBase(p) ==
  /\ rpc[p] = "rhash"
  /\ clock' = clock + 1
  /\ paused' = FALSE
  /\ mu' = "free"
  /\ Reply(p, "ok")
  /\ UNCHANGED <<hFrame, stores, base, blind, faults>>

\* Variant: the flag is reset only when the file cannot be read.
ResumeHash_Paused(p) ==
  /\ rpc[p] = "rhash"
  /\ clock' = clock + 1
  /\ base' = [mtime |-> call[p].mtime, hash |-> Hash(target.content),
              time |-> clock + 1]
  /\ mu' = "free"
  /\ Reply(p, "ok")
  /\ UNCHANGED <<hFrame, stores, paused, blind, faults>>

\* What the file holds becomes the baseline; no snapshot of it is taken.
ResumeHash(p) ==
  /\ rpc[p] = "rhash"
  /\ clock' = clock + 1
  /\ base' = [mtime |-> call[p].mtime, hash |-> Hash(target.content),
              time |-> clock + 1]
  /\ paused' = FALSE
  /\ mu' = "free"
  /\ Reply(p, "ok")
  /\ UNCHANGED <<hFrame, stores, blind, faults>>

\* The file cannot be read: evaluation resumes with the old baseline.
ResumeError(p) ==
  /\ rpc[p] \in {"rstat", "rhash"}
  /\ Fault
  /\ paused' = FALSE
  /\ mu' = "free"
  /\ Reply(p, "err")
  /\ UNCHANGED <<hFrame, stores, clock, base, blind>>

\* prune: the same work as the pipeline's garbage collection, without the
\* mutex.
PruneLoad(p) ==
  /\ rpc[p] = "prune"
  /\ rpc' = [rpc EXCEPT ![p] = "pscan"]
  /\ call' = [call EXCEPT ![p].man = manifest]
  /\ UNCHANGED <<hFrame, stores, clock, paused, base, blind, mu, faults>>

PruneScan(p) ==
  /\ rpc[p] = "pscan"
  /\ rpc' = [rpc EXCEPT ![p] = "psweep"]
  /\ call' = [call EXCEPT ![p].doomed = Garbage(call[p].man)]
  /\ UNCHANGED <<hFrame, stores, clock, paused, base, blind, mu, faults>>

PruneRemove(p, h) ==
  /\ rpc[p] = "psweep"
  /\ h \in call[p].doomed
  /\ blobs' = [blobs EXCEPT ![h] = NoContent]
  /\ call' = [call EXCEPT ![p].doomed = @ \ {h}]
  /\ UNCHANGED <<hFrame, manifest, clock, paused, base, blind, mu, rpc, faults>>

\* The manifest is saved only if entries were removed.
PruneTrim(p) ==
  /\ rpc[p] = "psweep"
  /\ call[p].doomed = {}
  /\ manifest' = IF OverLimit(call[p].man) THEN Kept(call[p].man) ELSE manifest
  /\ Reply(p, "ok")
  /\ UNCHANGED <<hFrame, blobs, clock, paused, base, blind, mu, faults>>

\* An error anywhere yields an empty result, not an error reply.
PruneError(p) ==
  /\ rpc[p] \in {"prune", "pscan", "psweep"}
  /\ Fault
  /\ Reply(p, "ok")
  /\ UNCHANGED <<hFrame, stores, clock, paused, base, blind, mu>>

-----------------------------------------------------------------------------
EvRun ==
  \/ EvStart \/ EvStat \/ EvGate \/ EvHash \/ EvDedup \/ EvCommit \/ EvCopy
  \/ EvLoad \/ EvSave \/ EvScan \/ (\E h \in Hashes : EvRemove(h)) \/ EvTrim

EvFail == EvDrop \/ EvIOError \/ EvGcError

HandlerRun(p) ==
  \/ Pause(p)
  \/ ResumeLock(p) \/ ResumeStat(p) \/ ResumeHash(p)
  \/ PruneLoad(p) \/ PruneScan(p) \/ (\E h \in Hashes : PruneRemove(p, h))
  \/ PruneTrim(p)

HandlerFail(p) == ResumeError(p) \/ PruneError(p)

\* The daemon's own steps, as opposed to what its surroundings do.
DaemonStep ==
  EvRun \/ EvFail \/ \E p \in Clients : HandlerRun(p) \/ HandlerFail(p)

Surroundings ==
  (\E c \in Contents : Save(c)) \/ FsEvent \/ Tick \/ Exit \/ Start

\* Nothing is left to do: with this step, a deadlock that TLC reports is a
\* thread that waits for ever, not a bound that is used up.
Rest ==
  /\ ~pending
  /\ ev.pc = "idle"
  /\ \A p \in Clients : rpc[p] \in Replies
  /\ UNCHANGED vars

Next ==
  \/ DaemonStep
  \/ Surroundings
  \/ \E p \in Clients, cmd \in Cmds : Request(p, cmd)
  \/ Rest

Spec == Init /\ [][Next]_vars

\* The Go scheduler runs every goroutine that can run.  Nothing is assumed of
\* the surroundings, nor that an operation ever fails.
Fairness == WF_vars(EvRun) /\ \A p \in Clients : WF_vars(HandlerRun(p))

LiveSpec == Spec /\ Fairness

-----------------------------------------------------------------------------
(* Properties.                                                             *)

EvRecords ==
  [pc : EvPcs, now : Nat, mtime : Nat, hash : Hashes \cup {NoHash},
   man : SUBSET Snapshot, doomed : SUBSET Hashes]

CallRecords == [mtime : Nat, man : SUBSET Snapshot, doomed : SUBSET Hashes]

\* Every variable holds a value of its kind; in particular, no entry of the
\* manifest has the empty hash or the zero time of an unset baseline.
TypeOK ==
  /\ target \in [content : Contents, mtime : Nat]
  /\ blobs \in [Hashes -> Contents \cup {NoContent}]
  /\ manifest \in SUBSET Snapshot /\ IsFiniteSet(manifest)
  /\ clock \in Nat
  /\ up \in BOOLEAN /\ paused \in BOOLEAN /\ pending \in BOOLEAN
  /\ base \in Baseline /\ blind \in BOOLEAN
  /\ mu \in {"free", "eval"} \cup Clients
  /\ ev \in EvRecords /\ IsFiniteSet(ev.man)
  /\ rpc \in [Clients -> RpcPcs]
  /\ call \in [Clients -> CallRecords]
  /\ \A p \in Clients : IsFiniteSet(call[p].man)
  /\ events \in Nat /\ faults \in Nat /\ calls \in Nat

\* Each of the newest MaxSnapshots entries can be restored at every instant,
\* also between the deletions of a garbage collection, after a crash in the
\* middle of one and after any failed step.  This is what deleting blobs
\* before saving the trimmed manifest (gc.go, evaluator.go) must not break.
NewestRestorable == \A s \in Kept(manifest) : HasBlob(s.hash)

\* Why NewestRestorable holds, when no IPC prune runs.  The mutex is held by
\* the main goroutine exactly while it commits, by a handler exactly while it
\* resumes.
Committing == {"commit", "copy", "load", "save", "scan", "sweep"}

MutexInv ==
  /\ mu = "eval" <=> ev.pc \in Committing
  /\ \A p \in Clients : mu = p <=> rpc[p] \in {"rstat", "rhash"}

HashKnown == ev.pc \in {"dedup"} \cup Committing => ev.hash \in Hashes

\* So the manifest the pipeline loaded stays the one on disk until it saves
\* its own, the blob of the new entry is there before the entry is, and no
\* blob of an entry that stays is ever chosen for deletion.
PipelineInv ==
  /\ ev.pc \in {"load", "save"} => HasBlob(ev.hash)
  /\ ev.pc = "save" => ev.man = manifest \cup {AutoSnapshot}
  /\ ev.pc \in {"scan", "sweep"} => ev.man = manifest
  /\ ev.pc = "sweep" => ev.doomed \cap HashSet(Kept(manifest)) = {}

NoPrune == \A p \in Clients : rpc[p] \notin {"prune", "pscan", "psweep"}

StoreInv == HashKnown /\ MutexInv /\ PipelineInv /\ NoPrune /\ NewestRestorable

\* Why History holds: an evaluation's reading of the clock is later than all
\* entries and, once past the gate, late enough; the baseline in memory is no
\* earlier than any entry, also when Resume has moved it.  A daemon that began
\* with an empty baseline does without the interval until it has recorded one.
HistoryInv ==
  /\ \A s \in manifest : s.ts <= clock /\ (up /\ ~blind => s.ts <= base.time)
  /\ ev.pc # "idle" => up
  /\ ev.pc \notin {"idle", "scan", "sweep"} =>
       ev.now <= clock /\ \A s \in manifest : s.ts < ev.now
  /\ ~blind /\ ev.pc \in {"hash", "dedup", "commit", "copy", "load", "save"} =>
       \A s \in manifest : ev.now - s.ts >= MinInterval
  /\ ev.pc \in {"scan", "sweep"} => OverLimit(ev.man)

\* Reference counting is exact: as long as nothing failed, whenever no
\* evaluation is under way, a blob exists if and only if an entry refers to it,
\* however many entries share it.
RefCounted ==
  faults = 0 /\ ev.pc \in {"idle", "stat", "gate", "hash", "dedup"} =>
    {h \in Hashes : HasBlob(h)} = HashSet(manifest)

\* Without garbage collection failing, the manifest exceeds its limit by the
\* one entry that triggers a collection; each failure can add one more, and
\* the next collection that succeeds removes them all.
SizeBound ==
  MaxSnapshots > 0 => Cardinality(manifest) <= MaxSnapshots + 1 + faults

\* The baseline in memory is the one a restart would read from the manifest,
\* so that neither a failed step nor a restart changes what counts as new.  Only
\* Resume, which moves the baseline on purpose, may make a difference, and the
\* read that fails at a start, after which there is none.
BaselineIsNewest ==
  up /\ calls = 0 => base = IF blind THEN NoBaseline ELSE BaselineFrom(manifest)

\* The successive entries of m that have the same content.
Repeats(m) ==
  {p \in m \X m :
     /\ p[1].ts < p[2].ts /\ p[1].hash = p[2].hash
     /\ \A u \in m : u.ts <= p[1].ts \/ u.ts >= p[2].ts}

\* A daemon never records what the newest entry has already (spec.md 5.3, step
\* 3), also when a failed step, a collection or a crash lies between the two.
\* This is for a daemon that was never called, since Resume takes content for
\* captured that is not, and that has read the manifest at its start.
NoConsecutiveDuplicates ==
  [][calls = 0 /\ ~blind => Repeats(manifest') \subseteq Repeats(manifest)]_vars

\* A blob holds the content its name is the hash of.
Intact == \A h \in Hashes : HasBlob(h) => h = Hash(blobs[h])

Promise == INSTANCE SnapshotHistory WITH history <- manifest, aware <- ~blind

\* The manifest is a history in the sense of module SnapshotHistory: Evaluate
\* only appends later entries, far enough apart unless the daemon could not read
\* those before, and Prune only cuts old ones.
History == Promise!Spec

Captured ==
  events > 0 =>
    \E s \in Newest(manifest) :
      s.hash = Hash(target.content) /\ blobs[s.hash] = target.content

\* What the file last held ends up as the newest snapshot, and in its blob,
\* provided the daemon heard of a save, nothing failed, no interval holds it
\* back and nobody called the daemon: each save is seen by an evaluation that
\* starts after it, or by a later read of one that was already running.  The
\* stat comes before the hash and the baseline is moved to what was read, never
\* to what is there now.  What this leaves out is a save between the hash and
\* the copy: its content is then stored under the name of another (~Intact),
\* and a later save of that other finds the name taken.
LatestSaveCaptured == <>[](faults > 0 \/ calls > 0 \/ ~Intact \/ Captured)

\* No call waits for ever, neither a client's for a reply nor the main loop's
\* Evaluate for the mutex: whoever takes the mutex gives it back on each of its
\* ways out, the failing ones included.
NoneWaitsForever ==
  /\ ev.pc # "idle" ~> ev.pc = "idle"
  /\ \A p \in Clients : rpc[p] \notin Replies ~> rpc[p] \in Replies
=============================================================================
