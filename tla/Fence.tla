-------------------------------- MODULE Fence --------------------------------
(***************************************************************************)
(* The commands that work on the stores of a target beside its daemon:     *)
(* backup, restore and prune (internal/cli), each a process of its own.    *)
(* backup and restore fence themselves against the daemon by IPC: pause    *)
(* it if it answers a ping, write, resume it.  prune does not.             *)
(*                                                                         *)
(* The daemon and the stores are those of module Evaluator, all of whose   *)
(* steps may come between any two steps of a command.  Each user runs one  *)
(* command at a time.                                                      *)
(*                                                                         *)
(* Simplifications: the target always exists; its permissions, the names   *)
(* of temporary files and the custom tags of backup are left out; a        *)
(* command makes both its calls over one connection; an error and a kill   *)
(* of a command have the same effect, as has a call that times out: it is  *)
(* over where it is, while a handler it has called goes on, also beside    *)
(* the commands that follow.                                               *)
(***************************************************************************)
EXTENDS Evaluator

CONSTANTS
  Users,        \* who runs commands; Clients are their connections
  Commands,     \* the commands they run
  MaxCommands   \* bound: how many

ASSUME CommandAssumption == Commands \subseteq {"backup", "restore", "prune"}
ASSUME CommandBound == MaxCommands \in Nat /\ MaxCalls >= 2 * MaxCommands
\* Each command finds a connection of its own.
ASSUME ConnectionAssumption ==
  "none" \notin Clients /\ (IsFiniteSet(Clients) => Cardinality(Clients) >= MaxCommands)

VARIABLES
  cli,       \* the command of each user
  commands,  \* how many were begun
  crossed    \* history: an evaluation was under way when a fence was closed or
             \* while an unfenced command ran, a resume that was not its own
             \* opened a fence, or a daemon started under a command

cliVars == <<cli, commands, crossed>>
fvars == <<vars, cliVars>>

\* The order of each command's steps.
First == [backup |-> "stat", restore |-> "list", prune |-> "read"]

\* Variant: restore swaps first and backs up what it finds then.
Then_SwapFirst ==
  [backup |->
     [stat |-> "hash", hash |-> "ping", ping |-> "pause", pause |-> "pausing",
      pausing |-> "commit", commit |-> "copy", copy |-> "append",
      append |-> "save", save |-> "resume", resume |-> "resuming",
      resuming |-> "idle"],
   restore |->
     [list |-> "open", open |-> "ping", ping |-> "pause", pause |-> "pausing",
      pausing |-> "swap", stat |-> "hash", hash |-> "commit",
      commit |-> "copy", copy |-> "append", append |-> "save", save |-> "resume",
      swap |-> "chtimes", chtimes |-> "stat", resume |-> "resuming",
      resuming |-> "idle"]]

\* Variant: backup writes its entry before the blob.
Then_EntryFirst ==
  [backup |->
     [stat |-> "hash", hash |-> "ping", ping |-> "pause", pause |-> "pausing",
      pausing |-> "append", append |-> "save", save |-> "commit",
      commit |-> "copy", copy |-> "resume", resume |-> "resuming",
      resuming |-> "idle"],
   restore |->
     [list |-> "open", open |-> "ping", ping |-> "pause", pause |-> "pausing",
      pausing |-> "stat", stat |-> "hash", hash |-> "commit",
      commit |-> "copy", copy |-> "append", append |-> "save", save |-> "swap",
      swap |-> "chtimes", chtimes |-> "resume", resume |-> "resuming",
      resuming |-> "idle"]]

Then ==
  [backup |->
     [stat |-> "hash", hash |-> "ping", ping |-> "pause", pause |-> "pausing",
      pausing |-> "commit", commit |-> "copy", copy |-> "append",
      append |-> "save", save |-> "resume", resume |-> "resuming",
      resuming |-> "idle"],
   restore |->
     [list |-> "open", open |-> "ping", ping |-> "pause", pause |-> "pausing",
      pausing |-> "stat", stat |-> "hash", hash |-> "commit",
      commit |-> "copy", copy |-> "append", append |-> "save", save |-> "swap",
      swap |-> "chtimes", chtimes |-> "resume", resume |-> "resuming",
      resuming |-> "idle"]]

CliPcs == {"idle", "stat", "hash", "ping", "pause", "pausing", "commit", "copy",
           "append", "save", "resume", "resuming", "list", "open", "swap",
           "chtimes", "read", "scan", "sweep"}

\* The local variables of a command; open is what the opened blob holds.
IdleCli == [cmd |-> "none", pc |-> "idle", conn |-> "none", running |-> FALSE,
            mtime |-> 0, hash |-> NoHash, man |-> {}, pick |-> 0,
            open |-> NoContent, doomed |-> {}]

FenceInit ==
  /\ Init
  /\ cli = [p \in Users |-> IdleCli]
  /\ commands = 0
  /\ crossed = FALSE

-----------------------------------------------------------------------------
(* Steps.                                                                  *)

At(p, pc) == cli[p].pc = pc

Becomes(p, r) == cli' = [cli EXCEPT ![p] = r]

\* Where p goes after its present step, and after the step s.
After(p, s) == Then[cli[p].cmd][s]
Onward(p) == [cli[p] EXCEPT !.pc = After(p, @)]

\* What a command leaves alone unless it says otherwise.
cFrame == <<up, paused, base, blind, mu, ev, call, events, commands, crossed>>

Begin(p, cmd) ==
  /\ At(p, "idle")
  /\ commands < MaxCommands
  /\ commands' = commands + 1
  /\ Becomes(p, [IdleCli EXCEPT !.cmd = cmd, !.pc = First[cmd]])
  /\ crossed' = (crossed \/ (cmd = "prune" /\ ev.pc # "idle"))
  /\ UNCHANGED vars

\* restore reads the manifest; it may then wait for the user to pick.
RestoreList(p) ==
  /\ At(p, "list")
  /\ Becomes(p, IF manifest = {} THEN IdleCli
                                 ELSE [Onward(p) EXCEPT !.man = manifest])
  /\ UNCHANGED <<cFrame, target, stores, clock, pending, rpc, faults, calls>>

\* The user has picked an entry; its blob is opened and stays readable even
\* if it is deleted.  A blob that is gone is an error.
RestoreOpen(p) ==
  /\ At(p, "open")
  /\ \E s \in cli[p].man :
       Becomes(p, IF HasBlob(s.hash)
                    THEN [Onward(p) EXCEPT !.pick = s.mtime, !.open = blobs[s.hash]]
                    ELSE IdleCli)
  /\ UNCHANGED <<cFrame, target, stores, clock, pending, rpc, faults, calls>>

\* A restore takes any error for the absence of the file, of which there is
\* nothing to save.
CliStat(p) ==
  /\ At(p, "stat")
  /\ \/ Becomes(p, [Onward(p) EXCEPT !.mtime = target.mtime]) /\ UNCHANGED faults
     \/ /\ cli[p].cmd = "restore"
        /\ Fault
        /\ Becomes(p, [cli[p] EXCEPT !.pc = After(p, "save")])
  /\ UNCHANGED <<cFrame, target, stores, clock, pending, rpc, calls>>

\* restore saves nothing if the manifest it read has the content.
CliHash(p) ==
  /\ At(p, "hash")
  /\ LET h == Hash(target.content)
         known == cli[p].cmd = "restore" /\ h \in HashSet(cli[p].man)
     IN Becomes(p, [cli[p] EXCEPT !.hash = h,
                                  !.pc = After(p, IF known THEN "save" ELSE @)])
  /\ UNCHANGED <<cFrame, target, stores, clock, pending, rpc, faults, calls>>

CliPing(p) ==
  /\ At(p, "ping")
  /\ Becomes(p, [cli[p] EXCEPT !.running = up,
                               !.pc = After(p, IF up THEN @ ELSE "pausing")])
  /\ UNCHANGED <<cFrame, target, stores, clock, pending, rpc, faults, calls>>

\* A daemon that does not answer in time, or fails to, is taken for none, and
\* the command goes on without a fence.
CliPingLate(p) ==
  /\ At(p, "ping")
  /\ up
  /\ Fault
  /\ Becomes(p, [cli[p] EXCEPT !.pc = After(p, "pausing")])
  /\ crossed' = (crossed \/ ev.pc # "idle")
  /\ UNCHANGED <<up, paused, base, blind, mu, ev, call, events, commands,
                 target, stores, clock, pending, rpc, calls>>

\* The connections that nobody has used yet.
FreeConns == {c \in Clients : rpc[c] = "none"}

\* The call; a daemon that is gone by now is an error.
CliPause(p) ==
  /\ At(p, "pause")
  /\ IF up
       THEN \E c \in FreeConns :
              Request(c, "pause") /\ Becomes(p, [Onward(p) EXCEPT !.conn = c])
       ELSE Becomes(p, IdleCli) /\ UNCHANGED vars
  /\ UNCHANGED <<commands, crossed>>

\* Variant: the reply of a resume is waited for.
CliPaused_Ok(p) ==
  /\ At(p, "pausing")
  /\ rpc[cli[p].conn] \in Replies
  /\ Becomes(p, IF rpc[cli[p].conn] = "ok" THEN Onward(p) ELSE cli[p])
  /\ UNCHANGED <<cFrame, target, stores, clock, pending, rpc, faults, calls>>

CliPaused(p) ==
  /\ At(p, "pausing")
  /\ rpc[cli[p].conn] \in Replies
  /\ Becomes(p, IF rpc[cli[p].conn] = "paused" THEN Onward(p) ELSE IdleCli)
  /\ UNCHANGED <<cFrame, target, stores, clock, pending, rpc, faults, calls>>

\* CommitBlob, as in module Evaluator.
CliCommit(p) ==
  /\ At(p, "commit")
  /\ Becomes(p, [cli[p] EXCEPT !.pc = After(p, IF HasBlob(cli[p].hash) THEN "copy" ELSE @)])
  /\ UNCHANGED <<cFrame, target, stores, clock, pending, rpc, faults, calls>>

CliCopy(p) ==
  /\ At(p, "copy")
  /\ blobs' = [blobs EXCEPT ![cli[p].hash] = target.content]
  /\ Becomes(p, Onward(p))
  /\ UNCHANGED <<cFrame, target, manifest, clock, pending, rpc, faults, calls>>

Entry(p, tag) ==
  [ts |-> clock + 1, hash |-> cli[p].hash, mtime |-> cli[p].mtime, tag |-> tag]

\* backup reads the manifest inside the fence; restore appends to the one it
\* read at its beginning.
BackupAppend(p) ==
  /\ At(p, "append")
  /\ cli[p].cmd = "backup"
  /\ clock' = clock + 1
  /\ Becomes(p, [Onward(p) EXCEPT !.man = manifest \cup {Entry(p, "Manual Backup")}])
  /\ UNCHANGED <<cFrame, target, stores, pending, rpc, faults, calls>>

RestoreAppend(p) ==
  /\ At(p, "append")
  /\ cli[p].cmd = "restore"
  /\ clock' = clock + 1
  /\ Becomes(p, [Onward(p) EXCEPT !.man = @ \cup {Entry(p, "pre-restore backup")}])
  /\ UNCHANGED <<cFrame, target, stores, pending, rpc, faults, calls>>

CliSave(p) ==
  /\ At(p, "save")
  /\ manifest' = cli[p].man
  /\ Becomes(p, Onward(p))
  /\ UNCHANGED <<cFrame, target, blobs, clock, pending, rpc, faults, calls>>

\* The copy of the blob is renamed over the target; then it gets the mtime
\* the entry has, or whatever has been saved over it in between does, unless
\* that fails, which is ignored.  The watcher sees both.
RestoreSwap(p) ==
  /\ At(p, "swap")
  /\ clock' = clock + 1
  /\ target' = [content |-> cli[p].open, mtime |-> clock + 1]
  /\ pending' = up
  /\ Becomes(p, Onward(p))
  /\ UNCHANGED <<cFrame, stores, rpc, faults, calls>>

RestoreChtimes(p) ==
  /\ At(p, "chtimes")
  /\ \/ /\ target' = [target EXCEPT !.mtime = cli[p].pick]
        /\ pending' = up
        /\ UNCHANGED faults
     \/ Fault /\ UNCHANGED <<target, pending>>
  /\ Becomes(p, Onward(p))
  /\ UNCHANGED <<cFrame, stores, clock, rpc, calls>>

\* Nothing is resumed that was not paused; a failing resume is a warning.
CliResume(p) ==
  /\ At(p, "resume")
  /\ IF cli[p].running /\ up
       THEN Request(cli[p].conn, "resume") /\ Becomes(p, Onward(p))
       ELSE Becomes(p, IdleCli) /\ UNCHANGED vars
  /\ UNCHANGED <<commands, crossed>>

CliResumed(p) ==
  /\ At(p, "resuming")
  /\ rpc[cli[p].conn] \in Replies
  /\ Becomes(p, IdleCli)
  /\ UNCHANGED <<cFrame, target, stores, clock, pending, rpc, faults, calls>>

\* prune does what the daemon's garbage collection does, in its own process.
CliRead(p) ==
  /\ At(p, "read")
  /\ Becomes(p, [cli[p] EXCEPT !.pc = "scan", !.man = manifest])
  /\ UNCHANGED <<cFrame, target, stores, clock, pending, rpc, faults, calls>>

CliScan(p) ==
  /\ At(p, "scan")
  /\ Becomes(p, [cli[p] EXCEPT !.pc = "sweep", !.doomed = Garbage(cli[p].man)])
  /\ UNCHANGED <<cFrame, target, stores, clock, pending, rpc, faults, calls>>

CliRemove(p, h) ==
  /\ At(p, "sweep")
  /\ h \in cli[p].doomed
  /\ blobs' = [blobs EXCEPT ![h] = NoContent]
  /\ Becomes(p, [cli[p] EXCEPT !.doomed = @ \ {h}])
  /\ UNCHANGED <<cFrame, target, manifest, clock, pending, rpc, faults, calls>>

CliTrim(p) ==
  /\ At(p, "sweep")
  /\ cli[p].doomed = {}
  /\ manifest' = IF OverLimit(cli[p].man) THEN Kept(cli[p].man) ELSE manifest
  /\ Becomes(p, IdleCli)
  /\ UNCHANGED <<cFrame, target, blobs, clock, pending, rpc, faults, calls>>

\* An error, a timeout or a kill: the command ends.  A daemon it has paused
\* is not resumed.
CliFail(p) ==
  /\ ~At(p, "idle")
  /\ Fault
  /\ Becomes(p, IdleCli)
  /\ UNCHANGED <<cFrame, target, stores, clock, pending, rpc, calls>>

-----------------------------------------------------------------------------
CliRun(p) ==
  \/ RestoreList(p) \/ RestoreOpen(p) \/ CliStat(p) \/ CliHash(p)
  \/ CliPing(p) \/ CliPause(p) \/ CliPaused(p)
  \/ CliCommit(p) \/ CliCopy(p) \/ BackupAppend(p) \/ RestoreAppend(p) \/ CliSave(p)
  \/ RestoreSwap(p) \/ RestoreChtimes(p) \/ CliResume(p) \/ CliResumed(p)
  \/ CliRead(p) \/ CliScan(p) \/ (\E h \in Hashes : CliRemove(p, h)) \/ CliTrim(p)

Working == \E p \in Users : ~At(p, "idle")

\* p writes between its pause and its resume, or has its pause confirmed.
Critical == {"stat", "hash", "commit", "copy", "append", "save", "swap", "chtimes"}
Fenced(p) == cli[p].running /\ cli[p].pc \in Critical \cup {"resume"}
Closed(p) == Fenced(p) \/ (At(p, "pausing") /\ rpc[cli[p].conn] = "paused")

\* p works on the stores and has paused nobody.
Unfenced(p) ==
  \/ cli[p].cmd = "prune"
  \/ ~cli[p].running /\ cli[p].pc \in Critical \ (IF cli[p].cmd = "backup"
                                                    THEN {"stat", "hash"} ELSE {})

\* A step of the daemon or of the world around it, beside the commands.
Beside(A) ==
  /\ A
  /\ UNCHANGED <<cli, commands>>
  /\ crossed' = \/ crossed
                \/ paused' /\ ~paused /\ ev.pc # "idle"
                \/ paused /\ ~paused' /\ up' /\ \E p \in Users : Closed(p)
                \/ up' /\ ~up /\ Working
                \/ ev'.pc # "idle" /\ \E p \in Users : Unfenced(p)

FenceRest == Rest /\ ~Working /\ UNCHANGED cliVars

FenceNext ==
  \/ Beside(DaemonStep)
  \/ Beside(Surroundings)
  \/ \E p \in Users :
       CliRun(p) \/ CliPingLate(p) \/ CliFail(p) \/ \E cmd \in Commands : Begin(p, cmd)
  \/ FenceRest

FenceSpec == FenceInit /\ [][FenceNext]_fvars

\* The processes run; users pick what they are asked to pick.
FenceLiveSpec ==
  /\ FenceSpec
  /\ WF_fvars(Beside(EvRun))
  /\ \A c \in Clients : WF_fvars(Beside(HandlerRun(c)))
  /\ \A p \in Users : WF_fvars(CliRun(p))

-----------------------------------------------------------------------------
(* Properties.                                                             *)

CliRecords ==
  [cmd : Commands \cup {"none"}, pc : CliPcs, conn : Clients \cup {"none"},
   running : BOOLEAN, mtime : Nat, hash : Hashes \cup {NoHash}, man : SUBSET Snapshot, pick : Nat,
   open : Contents \cup {NoContent}, doomed : SUBSET Hashes]

\* Every variable holds a value of its kind, also while commands write the
\* stores: in particular, what is renamed over the target is a content.
FenceTypeOK ==
  /\ TypeOK
  /\ cli \in [Users -> CliRecords]
  /\ commands \in Nat
  /\ crossed \in BOOLEAN

\* The daemon writes nothing while a command is between its pause and its
\* resume (restore.go:72: "the CLI is the sole manifest/data writer").
SoleWriter == \A p \in Users : Fenced(p) => ev.pc \notin Committing

\* The fence holds if no evaluation was under way when it was closed, no resume
\* of another command, or of one that has ended, comes while it is, and no daemon
\* has started since the command did.
SoleWriterIfClear == ~crossed => \A p \in Users : Fenced(p) => ev.pc = "idle"

\* The newest entries stay restorable if no evaluation overlaps with a command
\* that writes, however the commands and the daemon fail.
NewestRestorableIfClear == ~crossed => NewestRestorable

\* Until a collection is due each entry has its blob at every instant, whatever
\* two commands and the daemon do at once, and wherever they fail: each of them
\* writes the blob before the entry.
EntriesBacked == \A s \in manifest : HasBlob(s.hash)

\* What p overwrites is in the manifest, unless it was saved after p looked at
\* it, or p's look at it has failed.
Overwritten(p) ==
  (/\ RestoreSwap(p)
   /\ \/ cli[p].hash = Hash(target.content)
      \/ cli[p].hash = NoHash /\ faults = 0)
  => Hash(target.content) \in HashSet(manifest)

\* A restore overwrites nothing that is not in the manifest (README.md: "When
\* restoring, we automatically save a pre-restore snapshot"), if no evaluation
\* overlaps with it and the file could be looked at.
UndoableIfClear == [][\A p \in Users : ~crossed => Overwritten(p)]_fvars

\* A daemon that is not restarted takes the file that a restore has put there
\* for what it is: it never records one save of the file twice.
OneAutoPerSave ==
  ~crossed /\ faults = 0 =>
    \A s, t \in manifest :
      s.tag = "auto" /\ t.tag = "auto" /\ s.mtime = t.mtime => s = t

\* An entry leaves the manifest only when MaxSnapshots newer ones are there
\* (README.md: "we keep only the 50 most recent backups").
RecentKept ==
  [][\A s \in manifest \ manifest' :
       MaxSnapshots > 0 /\ Cardinality(Newer(s, manifest')) >= MaxSnapshots]_fvars

\* Every command ends: none waits for a reply that does not come.
CommandsEnd == \A p \in Users : ~At(p, "idle") ~> At(p, "idle")

\* A daemon is not left paused, also not by two commands of which each resumes
\* what the other has paused.
DaemonResumes == paused ~> ~paused
=============================================================================
