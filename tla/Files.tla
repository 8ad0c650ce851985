-------------------------------- MODULE Files --------------------------------
(***************************************************************************)
(* How soute's processes write files, at the grain of system calls:        *)
(* atomicwrite.Bytes for the manifest, store.CommitBlob for a blob, and    *)
(* copyToFile with the swap that follows it in restore.  Each writes a     *)
(* temporary file, syncs it and renames it; the first under a name that    *)
(* nobody else has, the others under a name that every process would use.  *)
(*                                                                         *)
(* A file is an inode with Parts parts.  A name leads to an inode in the   *)
(* directory as processes see it (dir) and as a crash of the machine would *)
(* leave it (dirDisk); a part is what a read finds (mem) and what is on    *)
(* disk for sure (disk).  Nobody syncs a directory: it reaches the disk    *)
(* when the file system commits it (Commit), in the order of the changes.  *)
(*                                                                         *)
(* Simplifications: the source of a copy is a document that does not       *)
(* change while it is read (module Evaluator is about one that does); a    *)
(* manifest names the one snapshot that its writer adds; the pre-flight    *)
(* backup of a restore is a snapshot of its own.                           *)
(***************************************************************************)
EXTENDS Integers, FiniteSets, Functions

CONSTANTS
  Writers,    \* the processes: the daemon and the commands
  Docs,       \* contents of the target, and the names of their blobs
  Nothing,    \* no content, no file
  Seed,       \* the document recorded before, or Nothing
  Parts,      \* how many writes a copy takes
  Inodes,     \* bound: files at a time
  Numbers,    \* bound: the random part of the names of CreateTemp
  MaxRetries, \* the retries of Doer.Do
  MaxJobs,    \* bound: jobs
  MaxFaults   \* bound: kills, crashes, and failures to chmod the copy of a restore

ASSUME PartsAssumption == Parts \in Nat \ {0}
ASSUME NothingAssumption == Nothing \notin Docs /\ Nothing \notin Inodes
ASSUME SeedAssumption == Seed \in Docs \cup {Nothing}
ASSUME FilesBounds == MaxRetries \in Nat /\ MaxJobs \in Nat /\ MaxFaults \in Nat

VARIABLES
  dir, dirDisk,  \* the inode of each name, or Nothing
  mem, disk,     \* the parts of each inode
  job,           \* what each writer does
  jobs, faults,  \* how many
  shared         \* history: two writers had one temporary name at once

vars == <<dir, dirDisk, mem, disk, job, jobs, faults, shared>>

Blob(d) == <<"blob", d>>
Manifest == <<"manifest", "">>
Target == <<"target", "">>
BlobTmp(d) == <<"blob.tmp", d>>
RestoreTmp == <<"restore.tmp", "">>
JsonTmp(k) == <<"json.tmp", k>>

Finals == {Blob(d) : d \in Docs} \cup {Manifest, Target}
Temps == {BlobTmp(d) : d \in Docs} \cup {RestoreTmp} \cup {JsonTmp(k) : k \in Numbers}
Names == Finals \cup Temps

Part == 1 .. Parts
Data == [Part -> Docs \cup {Nothing}]
Whole(d) == [i \in Part |-> d]
Blank == Whole(Nothing)

\* kind is what is being written, tmp and fd the temporary file, at how much
\* of it is written.
Idle == [pc |-> "idle", kind |-> "none", doc |-> Nothing, tmp |-> Target,
         fd |-> Nothing, at |-> 0, tries |-> 0]

At(p, pc) == job[p].pc = pc
Holding == {"write", "sync", "rename", "remove"}
Holds(p) == job[p].pc \in Holding
Overlap == \E p, q \in Writers :
             p # q /\ Holds(p) /\ Holds(q) /\ job[p].tmp = job[q].tmp

Used == {dir[n] : n \in Names} \cup {dirDisk[n] : n \in Names}
          \cup {job[p].fd : p \in Writers}
Unused == Inodes \ Used

\* soute may have run before: Seed is what it has recorded and restored.
Seeded == IF Seed = Nothing THEN {} ELSE {Blob(Seed), Manifest, Target}

\* There is room for them.
ASSUME InodesAssumption == \E at \in [Seeded -> Inodes] : IsInjective(at)

Init ==
  /\ \E at \in {CHOOSE f \in [Seeded -> Inodes] : IsInjective(f)} :
       /\ dir = [n \in Names |-> IF n \in Seeded THEN at[n] ELSE Nothing]
       /\ mem = [i \in Inodes |-> Whole(IF \E n \in Seeded : at[n] = i THEN Seed ELSE Nothing)]
  /\ dirDisk = dir
  /\ disk = mem
  /\ job = [p \in Writers |-> Idle]
  /\ jobs = 0 /\ faults = 0
  /\ shared = FALSE

\* An inode that has neither a name nor a descriptor any more is freed.
Settle(m, s) ==
  /\ LET used == Used'
     IN /\ mem' = [i \in Inodes |-> IF i \in used THEN m[i] ELSE Blank]
        /\ disk' = [i \in Inodes |-> IF i \in used THEN s[i] ELSE Blank]
  /\ shared' = (shared \/ Overlap')

\* p goes on with job j; the names become d, the parts m and s.
Does(p, j, d, m, s) ==
  /\ job' = [job EXCEPT ![p] = j]
  /\ dir' = d
  /\ UNCHANGED dirDisk
  /\ Settle(m, s)

-----------------------------------------------------------------------------
(* The writers.                                                            *)

Job(pc, kind, d) == [Idle EXCEPT !.pc = pc, !.kind = kind, !.doc = d]

Begin(p, j) ==
  /\ At(p, "idle")
  /\ jobs < MaxJobs /\ jobs' = jobs + 1
  /\ Does(p, j, dir, mem, disk)
  /\ UNCHANGED faults

\* An evaluation, a backup or the pre-flight of a restore records d.
Snapshot(p, d) == Begin(p, Job("has", "blob", d))

\* A restore of d has opened its blob.
Restore(p, d) == dir[Blob(d)] # Nothing /\ Begin(p, Job("create", "restore", d))

\* Variant: a temporary file counts as the blob.
HasBlob_Tmp(p) ==
  /\ At(p, "has")
  /\ LET d == job[p].doc
         j == IF {dir[Blob(d)], dir[BlobTmp(d)]} # {Nothing}
                THEN Job("create", "manifest", d) ELSE Job("create", "blob", d)
     IN Does(p, j, dir, mem, disk)

\* A blob that is there is not written again; the manifest follows.
HasBlob(p) ==
  /\ At(p, "has")
  /\ LET d == job[p].doc
         j == IF dir[Blob(d)] # Nothing THEN Job("create", "manifest", d)
                                        ELSE Job("create", "blob", d)
     IN Does(p, j, dir, mem, disk)

\* Variant: one temporary name for all JSON files.
TmpName_Fixed(p, n) ==
  n = CASE job[p].kind = "blob" -> BlobTmp(job[p].doc)
        [] job[p].kind = "restore" -> RestoreTmp
        [] OTHER -> JsonTmp(CHOOSE k \in Numbers : TRUE)

\* The names p may create: CreateTemp tries numbers until it finds a free name.
TmpName(p, n) ==
  CASE job[p].kind = "blob" -> n = BlobTmp(job[p].doc)
    [] job[p].kind = "restore" -> n = RestoreTmp
    [] OTHER -> n \in {JsonTmp(k) : k \in Numbers} /\ dir[n] = Nothing

\* A file that is there is truncated, and shared with whoever has it open.
Create(p) ==
  /\ At(p, "create")
  /\ \E n \in Temps :
       LET new == dir[n] = Nothing
           i == IF new THEN CHOOSE u \in Unused : TRUE ELSE dir[n]
       IN /\ TmpName(p, n)
          /\ new => Unused # {}
          /\ Does(p, [job[p] EXCEPT !.pc = "write", !.tmp = n, !.fd = i],
                  [dir EXCEPT ![n] = i], [mem EXCEPT ![i] = Blank], disk)

Write(p) ==
  /\ At(p, "write")
  /\ LET j == job[p]
         k == j.at + 1
     IN Does(p, [j EXCEPT !.at = k, !.pc = IF k = Parts THEN "sync" ELSE "write"],
             dir, [mem EXCEPT ![j.fd] = [@ EXCEPT ![k] = j.doc]], disk)

\* Variant: the file is closed without a sync.
Sync_None(p) ==
  /\ At(p, "sync")
  /\ Does(p, [job[p] EXCEPT !.pc = "rename", !.fd = Nothing], dir, mem, disk)

\* Sync, Close and Chmod.
Sync(p) ==
  /\ At(p, "sync")
  /\ LET i == job[p].fd
     IN Does(p, [job[p] EXCEPT !.pc = "rename", !.fd = Nothing],
             dir, mem, [disk EXCEPT ![i] = mem[i]])

Final(j) == CASE j.kind = "blob" -> Blob(j.doc)
              [] j.kind = "manifest" -> Manifest
              [] OTHER -> Target

Continue(j) == CASE j.kind = "blob" -> Job("create", "manifest", j.doc)
              [] j.kind = "manifest" -> Idle
              [] OTHER -> [j EXCEPT !.pc = "remove"]

\* Variant: a final file that is there is removed first.
Rename_RemoveFirst(p) ==
  LET j == job[p]
  IN /\ At(p, "rename") /\ dir[j.tmp] # Nothing
     /\ IF dir[Final(j)] # Nothing
          THEN Does(p, j, [dir EXCEPT ![Final(j)] = Nothing], mem, disk)
          ELSE Does(p, Continue(j), [dir EXCEPT ![Final(j)] = dir[j.tmp], ![j.tmp] = Nothing],
                    mem, disk)

\* Whatever has the temporary name by now gets the final one.
Rename(p) ==
  LET j == job[p]
  IN /\ At(p, "rename") /\ dir[j.tmp] # Nothing
     /\ Does(p, Continue(j), [dir EXCEPT ![Final(j)] = dir[j.tmp], ![j.tmp] = Nothing],
             mem, disk)

\* Variant: the attempts are not counted.
RenameAgain_Forever(p) ==
  At(p, "rename") /\ job[p].kind = "restore"
  /\ Does(p, [job[p] EXCEPT !.tries = 1 - @], dir, mem, disk)

\* A restore's rename fails (the target is in use, or the temporary file is
\* gone) and is tried again.
RenameAgain(p) ==
  /\ At(p, "rename") /\ job[p].kind = "restore" /\ job[p].tries < MaxRetries
  /\ Does(p, [job[p] EXCEPT !.tries = @ + 1], dir, mem, disk)

\* Variant: an error leaves the temporary file.
Cleanup_None(p) == Does(p, Idle, dir, mem, disk)

\* The job is over; the temporary file, if there can be one, is removed by name.
Cleanup(p) ==
  Does(p, Idle, IF Holds(p) THEN [dir EXCEPT ![job[p].tmp] = Nothing] ELSE dir, mem, disk)

\* The removal that restore has deferred.
Remove(p) == At(p, "remove") /\ Cleanup(p)

\* Doer.Do gives up, or there is nothing to rename.
GiveUp(p) ==
  /\ At(p, "rename")
  /\ IF job[p].kind = "restore" THEN job[p].tries = MaxRetries
                                ELSE dir[job[p].tmp] = Nothing
  /\ Cleanup(p)

\* Any other call fails.
Fail(p) ==
  /\ job[p].pc \in {"create", "write", "sync", "rename"}
  /\ At(p, "rename") => job[p].kind # "restore"
  /\ Cleanup(p)

Fault == faults < MaxFaults /\ faults' = faults + 1 /\ UNCHANGED jobs

\* The process is killed.
Kill(p) == ~At(p, "idle") /\ Fault /\ Does(p, Idle, dir, mem, disk)

\* copyToFile leaves its file when chmod fails; the removal is deferred later.
ChmodError(p) ==
  /\ At(p, "rename") /\ job[p].kind = "restore" /\ job[p].tries = 0
  /\ Fault
  /\ Does(p, Idle, dir, mem, disk)

Step(p) ==
  /\ \/ HasBlob(p) \/ Create(p) \/ Write(p) \/ Sync(p)
     \/ Rename(p) \/ RenameAgain(p) \/ GiveUp(p) \/ Remove(p)
  /\ UNCHANGED <<jobs, faults>>

-----------------------------------------------------------------------------
(* The operating system.                                                   *)

\* The names reach the disk.
Commit ==
  /\ dirDisk # dir
  /\ dirDisk' = dir
  /\ UNCHANGED <<dir, job, jobs, faults>>
  /\ Settle(mem, disk)

\* The machine goes down.  Of what was not synced any part may be lost.
Crash ==
  /\ Fault
  /\ dir' = dirDisk /\ UNCHANGED dirDisk
  /\ job' = [p \in Writers |-> Idle]
  /\ \E lost \in SUBSET {x \in Inodes \X Part : mem[x[1]][x[2]] # disk[x[1]][x[2]]} :
       LET m == [i \in Inodes |->
                   [k \in Part |-> IF <<i, k>> \in lost THEN disk[i][k] ELSE mem[i][k]]]
       IN Settle(m, m)

Next ==
  \/ \E p \in Writers, d \in Docs : Snapshot(p, d) \/ Restore(p, d)
  \/ \E p \in Writers : \/ Step(p)
                        \/ Fail(p) /\ UNCHANGED <<jobs, faults>>
                        \/ Kill(p) \/ ChmodError(p)
  \/ Commit \/ Crash

Spec == Init /\ [][Next]_vars

\* A writer that is not killed goes on.
FairSpec == Spec /\ \A p \in Writers : WF_vars(Step(p))

-----------------------------------------------------------------------------
(* Properties.                                                             *)

TypeOK ==
  /\ {dir, dirDisk} \subseteq [Names -> Inodes \cup {Nothing}]
  /\ {mem, disk} \subseteq [Inodes -> Data]
  /\ job \in [Writers ->
       [pc : {"idle", "has", "create"} \cup Holding,
        kind : {"none", "blob", "manifest", "restore"}, doc : Docs \cup {Nothing},
        tmp : Temps \cup {Target}, fd : Inodes \cup {Nothing},
        at : 0 .. Parts, tries : 0 .. MaxRetries]]
  /\ jobs \in 0 .. MaxJobs /\ faults \in 0 .. MaxFaults
  /\ shared \in BOOLEAN

\* What a reader finds under a name: the parts, or Nothing.
Reads(names, parts, n) == IF names[n] = Nothing THEN Nothing ELSE parts[names[n]]

\* The contents that the file of name n may have.
Proper(n) == {Whole(d) : d \in {e \in Docs : n \in {Blob(e), Manifest, Target}}}

Sound(n) == Reads(dir, mem, n) \in Proper(n) \cup {Nothing}

\* No kill, no crash of the machine and no other writer ever leaves a torn
\* manifest.  atomicwrite.go:1-3 promises it; daemon.json and config.json are
\* written by the same function.
ManifestWhole == Sound(Manifest)

\* As long as no two writers had the same temporary file at once, a blob is
\* complete and what its name says, and the target is some complete document,
\* also after a crash.
WholeIfAlone == ~shared => \A n \in Finals : Sound(n)

\* Under the same condition the manifest that a crash leaves does not name a
\* snapshot whose blob is not there: CommitBlob syncs before it renames, and
\* the manifest is written after it.
EntryBackedIfAlone ==
  ~shared => \A d \in Docs :
               Reads(dir, mem, Manifest) = Whole(d) => Reads(dir, mem, Blob(d)) = Whole(d)

\* What readers see changes by one complete document of one file at a time, or
\* goes back, with a crash, to what was on disk; nothing in between is seen.
ChangesWholeIfAlone ==
  [][~shared' =>
       LET see == [n \in Finals |-> Reads(dir, mem, n)]
       IN \/ see' = see
          \/ \E p \in Writers : LET j == job[p]
               IN see' = [see EXCEPT ![Final(j)] = Whole(j.doc)]
          \/ see' = [n \in Finals |-> Reads(dirDisk, disk, n)]]_vars

\* When all writers are done and none was killed, no temporary file is left,
\* whichever calls failed and whoever shared a name.
NoLitter ==
  faults = 0 /\ (\A p \in Writers : At(p, "idle")) => \A n \in Temps : dir[n] = Nothing

\* Every job ends: the retries are bounded, and nobody waits for another.
JobsEnd == \A p \in Writers : []<>At(p, "idle")
=============================================================================
