----------------------------- MODULE FenceProofs -----------------------------
(***************************************************************************)
(* Theorems about module Fence, for every set of contents and connections  *)
(* and every number of commands, failures and crashes, on top of those     *)
(* about the daemon.  The first three, and the one about the fence, hold   *)
(* for any number of commands at a time, the others for one.               *)
(*                                                                         *)
(* The argument for EntriesBacked: as long as no garbage is collected,     *)
(* blobs only come, and each manifest that the daemon or a command has in  *)
(* memory is made of entries whose blobs were there when it was made.      *)
(*                                                                         *)
(* The argument for SoleWriterIfClear: a command enters its fence after    *)
(* the daemon has answered its pause; a resume that is not its own, as of  *)
(* a command that is over, is what crossed records.                        *)
(*                                                                         *)
(* The argument for NewestRestorableIfClear and UndoableIfClear: so a      *)
(* command that writes has the stores to itself, also where it found no    *)
(* daemon to pause, and what it has read of them stays true.               *)
(*                                                                         *)
(* The argument for OneAutoPerSave: times are handed out once, and the     *)
(* mtime that the daemon is about to compare with its baseline is either   *)
(* that of the baseline or one that no automatic entry has.                *)
(*                                                                         *)
(* RecentKept fails, since restore saves an old copy of the manifest; the  *)
(* last theorem says that nothing else makes it fail.                      *)
(***************************************************************************)
EXTENDS Fence, EvaluatorProofs

Stages ==
  [backup |-> {"stat", "hash", "ping", "pause", "pausing", "commit", "copy", "append", "save",
               "resume", "resuming"},
   restore |-> {"list", "open", "ping", "pause", "pausing", "stat", "hash", "commit", "copy",
                "append", "save", "swap", "chtimes", "resume", "resuming"},
   prune |-> {"read", "scan", "sweep"}]

\* A command is at a step of its own and knows what it needs there.
Staged(r) ==
  /\ r.pc # "idle" => r.cmd \in {"backup", "restore", "prune"} /\ r.pc \in Stages[r.cmd]
  /\ r.cmd = "backup" /\ r.pc \notin {"idle", "stat", "hash"} => r.hash \in Hashes
  /\ r.pc \in {"commit", "copy", "append"} => r.hash \in Hashes
  /\ r.cmd = "restore" /\ r.pc \notin {"idle", "list", "open"} => r.open \in Contents
  /\ IsFiniteSet(r.man)

\* The steps of p's commands.
CliStep(p) == CliRun(p) \/ CliPingLate(p) \/ CliFail(p) \/ \E c \in Commands : Begin(p, c)

FenceInv == FenceTypeOK /\ HashKnown /\ \A p \in Users : Staged(cli[p])

-----------------------------------------------------------------------------
(* The order of the steps.                                                 *)

\* The table of each command.
LEMMA ThenFacts ==
  /\ Then["backup"]["stat"] = "hash" /\ Then["backup"]["hash"] = "ping"
  /\ Then["restore"]["stat"] = "hash" /\ Then["restore"]["hash"] = "commit"
  /\ Then["restore"]["list"] = "open" /\ Then["restore"]["open"] = "ping"
  /\ Then["backup"]["pausing"] = "commit" /\ Then["restore"]["pausing"] = "stat"
  /\ Then["backup"]["save"] = "resume" /\ Then["restore"]["save"] = "swap"
  /\ Then["restore"]["swap"] = "chtimes" /\ Then["restore"]["chtimes"] = "resume"
  /\ \A c \in {"backup", "restore"} :
       /\ Then[c]["ping"] = "pause" /\ Then[c]["pause"] = "pausing"
       /\ Then[c]["commit"] = "copy" /\ Then[c]["copy"] = "append"
       /\ Then[c]["append"] = "save" /\ Then[c]["resume"] = "resuming"
BY DEF Then

\* Which command is at a step.
LEMMA StageFacts ==
  ASSUME NEW r, Staged(r), r.pc # "idle"
  PROVE  /\ r.cmd \in {"backup", "restore", "prune"}
         /\ r.pc \in {"list", "open", "swap", "chtimes"} => r.cmd = "restore"
         /\ r.pc \in {"read", "scan", "sweep"} <=> r.cmd = "prune"
<1>1. r.cmd \in {"backup", "restore", "prune"} /\ r.pc \in Stages[r.cmd]
  BY DEF Staged
<1>2. CASE r.cmd = "backup"
  BY <1>1, <1>2 DEF Stages
<1>3. CASE r.cmd = "restore"
  BY <1>1, <1>3 DEF Stages
<1>4. CASE r.cmd = "prune"
  BY <1>1, <1>4 DEF Stages
<1> QED
  BY <1>1, <1>2, <1>3, <1>4

\* What is staged, by step and command.
LEMMA StagedIf ==
  ASSUME NEW r, IsFiniteSet(r.man),
         \/ /\ r.cmd = "backup" /\ r.pc \in Stages["backup"]
            /\ r.pc \notin {"stat", "hash"} => r.hash \in Hashes
         \/ /\ r.cmd = "restore" /\ r.pc \in Stages["restore"]
            /\ r.pc \in {"commit", "copy", "append"} => r.hash \in Hashes
            /\ r.pc \notin {"list", "open"} => r.open \in Contents
         \/ r.cmd = "prune" /\ r.pc \in Stages["prune"]
  PROVE  Staged(r)
<1>1. CASE r.cmd = "backup"
  BY <1>1 DEF Staged, Stages
<1>2. CASE r.cmd = "restore"
  BY <1>2 DEF Staged, Stages
<1>3. CASE r.cmd = "prune"
  BY <1>3 DEF Staged, Stages
<1> QED
  BY <1>1, <1>2, <1>3

\* A command that has ended.
LEMMA IdleFacts == IdleCli \in CliRecords /\ Staged(IdleCli) /\ IdleCli.man = {}
<1>1. IdleCli \in CliRecords
  BY DEF IdleCli, CliRecords, CliPcs
<1>2. IdleCli.pc = "idle" /\ IdleCli.cmd = "none" /\ IdleCli.man = {}
  BY DEF IdleCli
<1> QED
  BY <1>1, <1>2, FS_EmptySet DEF Staged

-----------------------------------------------------------------------------
(* Type correctness.                                                       *)

\* A step of the daemon beside the commands.
LEMMA BesideKinds ==
  ASSUME FenceInv, Beside(DaemonStep) \/ Beside(Surroundings)
  PROVE  FenceInv'
<1>1. DaemonStep \/ Surroundings
  BY DEF Beside
<1>2. TypeOK' /\ HashKnown'
  BY <1>1, TypeStep DEF FenceInv, FenceTypeOK, Next
<1>3. cli' = cli /\ commands' = commands /\ crossed' \in BOOLEAN
  BY DEF Beside, FenceInv, FenceTypeOK
<1> QED
  BY <1>2, <1>3 DEF FenceInv, FenceTypeOK

\* A step of a command that leaves its variables and the daemon's well typed.
LEMMA CliMoves ==
  ASSUME FenceInv, NEW p \in Users, NEW r \in CliRecords, Staged(r),
         cli' = [cli EXCEPT ![p] = r], TypeOK', HashKnown',
         commands' \in Nat, crossed' \in BOOLEAN
  PROVE  FenceInv'
<1>1. cli' \in [Users -> CliRecords]
  BY DEF FenceInv, FenceTypeOK
<1>2. ASSUME NEW q \in Users
      PROVE  Staged(cli'[q])
  BY DEF FenceInv, FenceTypeOK
<1> QED
  BY <1>1, <1>2 DEF FenceInv, FenceTypeOK

\* Where the stores, the clock and the target get values of their kinds, and
\* the daemon is left alone, its variables are well typed.
LEMMA FrameKinds ==
  ASSUME FenceInv, UNCHANGED <<up, paused, base, blind, mu, ev, call, events, rpc, calls>>,
         target' \in [content : Contents, mtime : Nat],
         blobs' \in [Hashes -> Contents \cup {NoContent}],
         manifest' \in SUBSET Snapshot, IsFiniteSet(manifest'),
         clock' \in Nat, pending' \in BOOLEAN, faults' \in Nat
  PROVE  TypeOK' /\ HashKnown'
BY DEF FenceInv, FenceTypeOK, TypeOK, HashKnown

\* A command asks for a pause or a resume, over its connection.
LEMMA RequestKinds ==
  ASSUME FenceInv, NEW d, NEW c \in {"pause", "resume"}, Request(d, c)
  PROVE  /\ TypeOK' /\ HashKnown'
         /\ rpc' = [rpc EXCEPT ![d] = c] /\ (d \notin Clients => rpc' = rpc)
<1>1. rpc' \in [Clients -> RpcPcs] /\ calls' \in Nat /\ rpc' = [rpc EXCEPT ![d] = c]
  <2>1. /\ rpc \in [Clients -> RpcPcs] /\ calls \in Nat /\ c \in RpcPcs
        /\ rpc' = [rpc EXCEPT ![d] = c] /\ calls' = calls + 1
    BY DEF Request, FenceInv, FenceTypeOK, TypeOK, RpcPcs
  <2>2. [rpc EXCEPT ![d] = c] \in [Clients -> RpcPcs]
    <3>1. CASE d \in Clients
      BY <2>1, <3>1
    <3>2. CASE d \notin Clients
      BY <2>1, <3>2
    <3> QED
      BY <3>1, <3>2
  <2> QED
    BY <2>1, <2>2
<1>2. d \notin Clients => rpc' = rpc
  BY <1>1 DEF FenceInv, FenceTypeOK, TypeOK
<1> QED
  BY <1>1, <1>2 DEF Request, FenceInv, FenceTypeOK, TypeOK, HashKnown, stores, daemon

-----------------------------------------------------------------------------
(* The steps of a command.                                                 *)

\* What a step of p that makes its variables r does to the stores: blobs only
\* come, the manifest becomes the one in p's memory, and that is made of
\* entries that were known, and of one of the blob that p has committed.  A
\* prune is another matter.
Effect(p, r) ==
  /\ cli[p].cmd # "prune" =>
       /\ \A h \in Hashes : blobs[h] # NoContent => blobs'[h] # NoContent
       /\ manifest' \in {manifest, cli[p].man}
  /\ \A s \in r.man : \/ s \in cli[p].man \/ s \in manifest
                      \/ At(p, "append") /\ s.hash = cli[p].hash
  /\ r.pc = "append" => r.hash \in Hashes /\ blobs'[r.hash] # NoContent
  /\ ev' = ev
  /\ \/ rpc' = rpc
     \/ \E d \in Clients, c \in {"pause", "resume"} : rpc' = [rpc EXCEPT ![d] = c]

StepOK(p) ==
  FenceInv' /\ \E r \in CliRecords : cli' = [cli EXCEPT ![p] = r] /\ Effect(p, r)

\* A step in the command's own memory.
LEMMA QuietStep ==
  ASSUME FenceInv, NEW p \in Users, NEW r \in CliRecords, Staged(r),
         cli' = [cli EXCEPT ![p] = r], UNCHANGED vars,
         commands' \in Nat, crossed' \in BOOLEAN,
         \A s \in r.man : s \in cli[p].man \/ s \in manifest,
         r.pc = "append" => HasBlob(r.hash) /\ r.hash \in Hashes
  PROVE  StepOK(p)
<1>1. TypeOK' /\ HashKnown'
  BY FrameKinds DEF FenceInv, FenceTypeOK, TypeOK, vars, stores, daemon, handlers, bounds
<1>2. Effect(p, r)
  BY DEF Effect, HasBlob, vars, stores, daemon, handlers
<1> QED
  BY <1>1, <1>2, CliMoves DEF StepOK

\* The frame of most steps.
LEMMA FrameFacts ==
  ASSUME FenceInv, UNCHANGED <<cFrame, target, stores, clock, pending, rpc, faults, calls>>
  PROVE  UNCHANGED vars /\ commands' \in Nat /\ crossed' \in BOOLEAN
BY DEF cFrame, vars, stores, daemon, handlers, bounds, FenceInv, FenceTypeOK

\* A command ends.
LEMMA EndStep ==
  ASSUME FenceInv, NEW p \in Users, Becomes(p, IdleCli), UNCHANGED vars,
         commands' \in Nat, crossed' \in BOOLEAN
  PROVE  StepOK(p)
<1>1. IdleCli.pc # "append"
  BY DEF IdleCli
<1> QED
  BY <1>1, IdleFacts, QuietStep DEF Becomes

\* A command's variables as they are.
LEMMA RecordFacts ==
  ASSUME FenceInv, NEW p \in Users
  PROVE  /\ cli[p] \in CliRecords /\ Staged(cli[p]) /\ IsFiniteSet(cli[p].man)
         /\ cli[p].man \in SUBSET Snapshot /\ cli[p].mtime \in Nat /\ cli[p].pick \in Nat
         /\ manifest \in SUBSET Snapshot /\ IsFiniteSet(manifest) /\ clock \in Nat
         /\ target \in [content : Contents, mtime : Nat] /\ Hash(target.content) \in Hashes
         /\ blobs \in [Hashes -> Contents \cup {NoContent}]
<1>1. cli[p] \in CliRecords /\ Staged(cli[p])
  BY DEF FenceInv, FenceTypeOK
<1>2. /\ manifest \in SUBSET Snapshot /\ IsFiniteSet(manifest) /\ clock \in Nat
      /\ target \in [content : Contents, mtime : Nat]
      /\ blobs \in [Hashes -> Contents \cup {NoContent}]
  BY DEF FenceInv, FenceTypeOK, TypeOK
<1>3. Hash(target.content) \in Hashes
  BY <1>2 DEF Hashes
<1> QED
  BY <1>1, <1>2, <1>3 DEF CliRecords, Staged

\* The first step of a command.
LEMMA BeginStep ==
  ASSUME FenceInv, NEW p \in Users, NEW c \in Commands, Begin(p, c)
  PROVE  StepOK(p)
<1> DEFINE r == [IdleCli EXCEPT !.cmd = c, !.pc = First[c]]
<1>1. /\ c = "backup" => First[c] = "stat"
      /\ c = "restore" => First[c] = "list"
      /\ c = "prune" => First[c] = "read"
      /\ c \in {"backup", "restore", "prune"}
  BY CommandAssumption DEF First
<1>2. /\ cli' = [cli EXCEPT ![p] = r] /\ UNCHANGED vars
      /\ commands' \in Nat /\ crossed' \in BOOLEAN
  BY DEF Begin, Becomes, FenceInv, FenceTypeOK
<1>3. /\ r \in CliRecords /\ r.cmd = c /\ r.pc = First[c] /\ r.man = {}
  <2>1. First[c] \in CliPcs
    BY <1>1 DEF CliPcs
  <2>2. ASSUME NEW k \in CliRecords, NEW s \in CliPcs
        PROVE  LET l == [k EXCEPT !.cmd = c, !.pc = s]
               IN l \in CliRecords /\ l.cmd = c /\ l.pc = s /\ l.man = k.man
    BY DEF CliRecords
  <2> QED
    BY <2>1, <2>2, IdleFacts
<1> HIDE DEF r
<1>4. Staged(r)
  BY <1>1, <1>3, FS_EmptySet, StagedIf DEF Stages
<1>5. r.pc # "append"
  BY <1>1, <1>3
<1> QED
  BY <1>2, <1>3, <1>4, <1>5, QuietStep

\* The steps that read.
LEMMA ReadSteps ==
  ASSUME FenceInv, NEW p \in Users,
         \/ RestoreList(p) \/ RestoreOpen(p) \/ CliHash(p) \/ CliPing(p) \/ CliPaused(p)
         \/ CliStat(p) /\ UNCHANGED faults
         \/ CliCommit(p) \/ CliResumed(p) \/ CliRead(p) \/ CliScan(p)
  PROVE  StepOK(p)
<1> DEFINE k == cli[p]
<1>0. /\ k \in CliRecords /\ Staged(k) /\ k.man \in SUBSET Snapshot /\ IsFiniteSet(k.man)
      /\ manifest \in SUBSET Snapshot /\ IsFiniteSet(manifest)
      /\ UNCHANGED vars /\ commands' \in Nat /\ crossed' \in BOOLEAN
  BY RecordFacts, FrameFacts
  DEF RestoreList, RestoreOpen, CliStat, CliHash, CliPing, CliPaused, CliCommit, CliResumed,
      CliRead, CliScan
<1>end. Becomes(p, IdleCli) => StepOK(p)
  BY <1>0, EndStep
<1>go. ASSUME NEW r \in CliRecords, Staged(r), Becomes(p, r), r.man \in {k.man, manifest},
              r.pc = "append" => HasBlob(r.hash) /\ r.hash \in Hashes
       PROVE  StepOK(p)
  BY <1>0, <1>go, QuietStep DEF Becomes
<1>1. CASE RestoreList(p)
  <2> DEFINE r == [Onward(p) EXCEPT !.man = manifest]
  <2>1. k.pc = "list" /\ k.cmd = "restore"
    BY <1>0, <1>1, StageFacts DEF RestoreList, At
  <2>2. After(p, k.pc) = "open" /\ "open" \in CliPcs
    BY <2>1, ThenFacts DEF After, CliPcs
  <2>3. /\ r \in CliRecords /\ r.pc = "open" /\ r.cmd = "restore" /\ r.man = manifest
    BY <1>0, <2>1, <2>2 DEF Onward, CliRecords
  <2> HIDE DEF r
  <2>4. Staged(r)
    BY <1>0, <2>3, StagedIf DEF Stages
  <2>5. Becomes(p, IdleCli) \/ Becomes(p, r)
    BY <1>1 DEF RestoreList, r
  <2> QED
    BY <1>end, <1>go, <2>3, <2>4, <2>5
<1>2. CASE RestoreOpen(p)
  <2>1. k.pc = "open" /\ k.cmd = "restore"
    BY <1>0, <1>2, StageFacts DEF RestoreOpen, At
  <2>2. After(p, k.pc) = "ping" /\ "ping" \in CliPcs
    BY <2>1, ThenFacts DEF After, CliPcs
  <2>3. PICK s \in k.man :
          Becomes(p, IF HasBlob(s.hash)
                       THEN [Onward(p) EXCEPT !.pick = s.mtime, !.open = blobs[s.hash]]
                       ELSE IdleCli)
    BY <1>2 DEF RestoreOpen
  <2> DEFINE r == [Onward(p) EXCEPT !.pick = s.mtime, !.open = blobs[s.hash]]
  <2>4. s.mtime \in Nat /\ s.hash \in Hashes
    BY <1>0 DEF Snapshot
  <2>5. CASE HasBlob(s.hash)
    <3>1. blobs[s.hash] \in Contents
      BY <2>4, <2>5, RecordFacts DEF HasBlob
    <3>2. /\ r \in CliRecords /\ r.pc = "ping" /\ r.cmd = "restore" /\ r.man = k.man
          /\ r.open \in Contents
      BY <1>0, <2>1, <2>2, <2>4, <3>1 DEF Onward, CliRecords
    <3>3. Becomes(p, r)
      BY <2>3, <2>5
    <3> HIDE DEF r
    <3>4. Staged(r)
      BY <1>0, <3>2, StagedIf DEF Stages
    <3> QED
      BY <1>go, <3>2, <3>3, <3>4
  <2> QED
    BY <1>end, <2>3, <2>5
<1>3. CASE CliStat(p) /\ UNCHANGED faults
  <2> DEFINE r == [Onward(p) EXCEPT !.mtime = target.mtime]
  <2>0. Becomes(p, r)
    BY <1>3 DEF CliStat, Fault, FenceInv, FenceTypeOK, TypeOK
  <2>1. k.pc = "stat" /\ k.cmd \in {"backup", "restore"}
    BY <1>0, <1>3, StageFacts DEF CliStat, At
  <2>2. After(p, k.pc) = "hash" /\ "hash" \in CliPcs
    BY <2>1, ThenFacts DEF After, CliPcs
  <2>3. target.mtime \in Nat
    BY RecordFacts
  <2>4. /\ r \in CliRecords /\ r.pc = "hash" /\ r.cmd = k.cmd /\ r.man = k.man
        /\ r.open = k.open
    BY <1>0, <2>2, <2>3 DEF Onward, CliRecords
  <2>5. k.cmd = "restore" => k.open \in Contents
    BY <1>0, <2>1 DEF Staged
  <2> HIDE DEF r
  <2>6. Staged(r)
    BY <1>0, <2>1, <2>4, <2>5, StagedIf DEF Stages
  <2> QED
    BY <1>go, <2>0, <2>4, <2>6
<1>4. CASE CliHash(p)
  <2> DEFINE h == Hash(target.content)
             to == After(p, IF k.cmd = "restore" /\ h \in HashSet(k.man) THEN "save" ELSE k.pc)
             r == [k EXCEPT !.hash = h, !.pc = to]
  <2>1. k.pc = "hash" /\ k.cmd \in {"backup", "restore"}
    BY <1>0, <1>4, StageFacts DEF CliHash, At
  <2>2. /\ k.cmd = "backup" => to = "ping"
        /\ k.cmd = "restore" => to \in {"commit", "swap"}
        /\ {"ping", "commit", "swap"} \subseteq CliPcs
    BY <2>1, ThenFacts DEF After, CliPcs
  <2>3. h \in Hashes
    BY RecordFacts
  <2>4. Becomes(p, r)
    BY <1>4 DEF CliHash
  <2> HIDE DEF to, h
  <2>5. /\ r \in CliRecords /\ r.pc = to /\ r.cmd = k.cmd /\ r.man = k.man
        /\ r.hash \in Hashes /\ r.open = k.open
    BY <1>0, <2>1, <2>2, <2>3 DEF CliRecords
  <2>6. k.cmd = "restore" => k.open \in Contents
    BY <1>0, <2>1 DEF Staged
  <2> HIDE DEF r
  <2>7. Staged(r)
    BY <1>0, <2>1, <2>2, <2>5, <2>6, StagedIf DEF Stages
  <2> QED
    BY <1>go, <2>1, <2>2, <2>4, <2>5, <2>7
<1>5. CASE CliPing(p)
  <2> DEFINE to == After(p, IF up THEN k.pc ELSE "pausing")
             r == [k EXCEPT !.running = up, !.pc = to]
  <2>1. k.pc = "ping" /\ k.cmd \in {"backup", "restore"}
    BY <1>0, <1>5, StageFacts DEF CliPing, At
  <2>2. /\ k.cmd = "backup" => to \in {"pause", "commit"}
        /\ k.cmd = "restore" => to \in {"pause", "stat"}
        /\ {"pause", "commit", "stat"} \subseteq CliPcs
    BY <2>1, ThenFacts DEF After, CliPcs
  <2>3. up \in BOOLEAN
    BY DEF FenceInv, FenceTypeOK, TypeOK
  <2>4. Becomes(p, r)
    BY <1>5 DEF CliPing
  <2> HIDE DEF to
  <2>5. /\ r \in CliRecords /\ r.pc = to /\ r.cmd = k.cmd /\ r.man = k.man
        /\ r.hash = k.hash /\ r.open = k.open
    BY <1>0, <2>1, <2>2, <2>3 DEF CliRecords
  <2>6. /\ k.cmd = "restore" => k.open \in Contents
        /\ k.cmd = "backup" => k.hash \in Hashes
    BY <1>0, <2>1 DEF Staged
  <2> HIDE DEF r
  <2>7. Staged(r)
    BY <1>0, <2>1, <2>2, <2>5, <2>6, StagedIf DEF Stages
  <2> QED
    BY <1>go, <2>1, <2>2, <2>4, <2>5, <2>7
<1>6. CASE CliPaused(p)
  <2> DEFINE r == Onward(p)
  <2>1. k.pc = "pausing" /\ k.cmd \in {"backup", "restore"}
    BY <1>0, <1>6, StageFacts DEF CliPaused, At
  <2>2. /\ k.cmd = "backup" => After(p, k.pc) = "commit"
        /\ k.cmd = "restore" => After(p, k.pc) = "stat"
        /\ {"commit", "stat"} \subseteq CliPcs
    BY <2>1, ThenFacts DEF After, CliPcs
  <2>3. /\ r \in CliRecords /\ r.pc = After(p, k.pc) /\ r.cmd = k.cmd /\ r.man = k.man
        /\ r.hash = k.hash /\ r.open = k.open
    BY <1>0, <2>1, <2>2 DEF Onward, CliRecords
  <2>4. /\ k.cmd = "restore" => k.open \in Contents
        /\ k.cmd = "backup" => k.hash \in Hashes
    BY <1>0, <2>1 DEF Staged
  <2>5. Becomes(p, r) \/ Becomes(p, IdleCli)
    BY <1>6 DEF CliPaused
  <2> HIDE DEF r
  <2>6. Staged(r)
    BY <1>0, <2>1, <2>2, <2>3, <2>4, StagedIf DEF Stages
  <2> QED
    BY <1>end, <1>go, <2>1, <2>2, <2>3, <2>5, <2>6
<1>7. CASE CliCommit(p)
  <2> DEFINE to == After(p, IF HasBlob(k.hash) THEN "copy" ELSE k.pc)
             r == [k EXCEPT !.pc = to]
  <2>1. k.pc = "commit" /\ k.cmd \in {"backup", "restore"}
    BY <1>0, <1>7, StageFacts DEF CliCommit, At
  <2>2. /\ HasBlob(k.hash) => to = "append"
        /\ ~HasBlob(k.hash) => to = "copy"
        /\ {"append", "copy"} \subseteq CliPcs
    BY <2>1, ThenFacts DEF After, CliPcs
  <2>3. Becomes(p, r)
    BY <1>7 DEF CliCommit
  <2> HIDE DEF to
  <2>4. /\ r \in CliRecords /\ r.pc = to /\ r.cmd = k.cmd /\ r.man = k.man
        /\ r.hash = k.hash /\ r.open = k.open
    BY <1>0, <2>1, <2>2 DEF CliRecords
  <2>5. /\ k.cmd = "restore" => k.open \in Contents
        /\ k.hash \in Hashes
    BY <1>0, <2>1 DEF Staged
  <2> HIDE DEF r
  <2>6. Staged(r)
    BY <1>0, <2>1, <2>2, <2>4, <2>5, StagedIf DEF Stages
  <2> QED
    BY <1>go, <2>2, <2>3, <2>4, <2>5, <2>6
<1>8. CASE CliResumed(p)
  BY <1>8, <1>end DEF CliResumed
<1>9. CASE CliRead(p)
  <2> DEFINE r == [k EXCEPT !.pc = "scan", !.man = manifest]
  <2>1. k.cmd = "prune" /\ "scan" \in CliPcs
    BY <1>0, <1>9, StageFacts DEF CliRead, At, CliPcs
  <2>2. r \in CliRecords /\ r.pc = "scan" /\ r.cmd = "prune" /\ r.man = manifest
    BY <1>0, <2>1 DEF CliRecords
  <2>3. Becomes(p, r)
    BY <1>9 DEF CliRead
  <2> HIDE DEF r
  <2>4. Staged(r)
    BY <1>0, <2>2, StagedIf DEF Stages
  <2> QED
    BY <1>go, <2>2, <2>3, <2>4
<1>10. CASE CliScan(p)
  <2> DEFINE r == [k EXCEPT !.pc = "sweep", !.doomed = Garbage(k.man)]
  <2>1. k.cmd = "prune" /\ "sweep" \in CliPcs /\ Garbage(k.man) \in SUBSET Hashes
    BY <1>0, <1>10, StageFacts DEF CliScan, At, CliPcs, Garbage
  <2>2. r \in CliRecords /\ r.pc = "sweep" /\ r.cmd = "prune" /\ r.man = k.man
    BY <1>0, <2>1 DEF CliRecords
  <2>3. Becomes(p, r)
    BY <1>10 DEF CliScan
  <2> HIDE DEF r
  <2>4. Staged(r)
    BY <1>0, <2>2, StagedIf DEF Stages
  <2> QED
    BY <1>go, <2>2, <2>3, <2>4
<1> QED
  BY <1>1, <1>2, <1>3, <1>4, <1>5, <1>6, <1>7, <1>8, <1>9, <1>10

\* The steps that call the daemon.
LEMMA CallingSteps ==
  ASSUME FenceInv, NEW p \in Users, CliPause(p) \/ CliResume(p)
  PROVE  StepOK(p)
<1> DEFINE k == cli[p]
           r == Onward(p)
<1>0. /\ k \in CliRecords /\ Staged(k) /\ IsFiniteSet(k.man)
      /\ commands' \in Nat /\ crossed' \in BOOLEAN
  BY RecordFacts DEF CliPause, CliResume, FenceInv, FenceTypeOK
<1>1. k.pc \in {"pause", "resume"} /\ k.cmd \in {"backup", "restore"}
  BY <1>0, StageFacts DEF CliPause, CliResume, At
<1>2. After(p, k.pc) \in {"pausing", "resuming"} /\ {"pausing", "resuming"} \subseteq CliPcs
  BY <1>1, ThenFacts DEF After, CliPcs
<1>3. ASSUME NEW l, l = r \/ \E d \in Clients : l = [r EXCEPT !.conn = d]
      PROVE  /\ l \in CliRecords /\ l.pc = After(p, k.pc) /\ l.cmd = k.cmd /\ l.man = k.man
             /\ l.hash = k.hash /\ l.open = k.open
  <2>1. /\ r \in CliRecords /\ r.pc = After(p, k.pc) /\ r.cmd = k.cmd /\ r.man = k.man
        /\ r.hash = k.hash /\ r.open = k.open
    BY <1>0, <1>1, <1>2 DEF Onward, CliRecords
  <2> HIDE DEF r
  <2> QED
    BY <1>3, <2>1 DEF CliRecords
<1>4. /\ k.cmd = "restore" => k.open \in Contents
      /\ k.cmd = "backup" => k.hash \in Hashes
  BY <1>0, <1>1 DEF Staged
<1>5. ASSUME NEW l, l = r \/ \E d \in Clients : l = [r EXCEPT !.conn = d]
      PROVE  Staged(l)
  <2>1. /\ l.pc = After(p, k.pc) /\ l.cmd = k.cmd /\ l.man = k.man
        /\ l.hash = k.hash /\ l.open = k.open
    BY <1>3, <1>5
  <2> QED
    BY <1>0, <1>1, <1>2, <1>4, <2>1, StagedIf DEF Stages
<1>6. \/ Becomes(p, IdleCli) /\ UNCHANGED vars
      \/ \E d \in Clients : Request(d, "pause") /\ Becomes(p, [r EXCEPT !.conn = d])
      \/ Request(k.conn, "resume") /\ Becomes(p, r)
  BY DEF CliPause, CliResume, FreeConns
<1>7. CASE Becomes(p, IdleCli) /\ UNCHANGED vars
  BY <1>0, <1>7, EndStep
<1>8. ASSUME NEW l, l = r \/ \E d \in Clients : l = [r EXCEPT !.conn = d], Becomes(p, l),
             NEW d, NEW c \in {"pause", "resume"}, Request(d, c)
      PROVE  StepOK(p)
  <2>1. TypeOK' /\ HashKnown'
    BY <1>8, RequestKinds
  <2>2. rpc' = rpc \/ \E e \in Clients, b \in {"pause", "resume"} : rpc' = [rpc EXCEPT ![e] = b]
    BY <1>8, RequestKinds
  <2>3. l \in CliRecords /\ Staged(l) /\ l.pc = After(p, k.pc) /\ l.man = k.man
    BY <1>3, <1>5, <1>8
  <2>4. Effect(p, l)
    BY <1>2, <1>8, <2>2, <2>3 DEF Effect, Request, HasBlob, stores, daemon
  <2> QED
    BY <1>0, <1>8, <2>1, <2>3, <2>4, CliMoves DEF StepOK, Becomes
<1>9. CASE \E d \in Clients : Request(d, "pause") /\ Becomes(p, [r EXCEPT !.conn = d])
  <2>1. PICK d \in Clients : Request(d, "pause") /\ Becomes(p, [r EXCEPT !.conn = d])
    BY <1>9
  <2> HIDE DEF r
  <2> QED
    BY <1>8, <2>1
<1> QED
  BY <1>6, <1>7, <1>8, <1>9

\* The steps that write the stores.
LEMMA WriteSteps ==
  ASSUME FenceInv, NEW p \in Users,
         CliCopy(p) \/ BackupAppend(p) \/ RestoreAppend(p) \/ CliSave(p)
  PROVE  StepOK(p)
<1> DEFINE k == cli[p]
<1>0. /\ k \in CliRecords /\ Staged(k) /\ k.man \in SUBSET Snapshot /\ IsFiniteSet(k.man)
      /\ k.mtime \in Nat
      /\ manifest \in SUBSET Snapshot /\ IsFiniteSet(manifest) /\ clock \in Nat
      /\ target \in [content : Contents, mtime : Nat]
      /\ blobs \in [Hashes -> Contents \cup {NoContent}]
      /\ commands' \in Nat /\ crossed' \in BOOLEAN
  BY RecordFacts
  DEF CliCopy, BackupAppend, RestoreAppend, CliSave, cFrame, FenceInv, FenceTypeOK
<1>1. /\ UNCHANGED <<up, paused, base, blind, mu, ev, call, events, rpc, calls, target, pending, faults>>
      /\ faults' \in Nat /\ pending' \in BOOLEAN
  BY DEF CliCopy, BackupAppend, RestoreAppend, CliSave, cFrame, FenceInv, FenceTypeOK, TypeOK
<1>2. k.pc \in {"copy", "append", "save"} /\ k.cmd \in {"backup", "restore"}
  BY <1>0, StageFacts DEF CliCopy, BackupAppend, RestoreAppend, CliSave, At
<1>3. /\ k.cmd = "restore" => k.open \in Contents
      /\ k.cmd = "backup" => k.hash \in Hashes
      /\ k.pc # "save" => k.hash \in Hashes
  BY <1>0, <1>2 DEF Staged
<1>done. ASSUME NEW r \in CliRecords, Staged(r), Becomes(p, r), Effect(p, r),
                blobs' \in [Hashes -> Contents \cup {NoContent}],
                manifest' \in SUBSET Snapshot, IsFiniteSet(manifest'), clock' \in Nat
         PROVE  StepOK(p)
  <2>1. TypeOK' /\ HashKnown'
    BY <1>0, <1>1, <1>done, FrameKinds
  <2> QED
    BY <1>0, <1>done, <2>1, CliMoves DEF StepOK, Becomes
<1>onward. ASSUME NEW to \in CliPcs, After(p, k.pc) = to
           PROVE  LET r == Onward(p)
                  IN /\ r \in CliRecords /\ r.pc = to /\ r.cmd = k.cmd /\ r.man = k.man
                     /\ r.hash = k.hash /\ r.open = k.open
  BY <1>0, <1>onward DEF Onward, CliRecords
<1>4. CASE CliCopy(p)
  <2> DEFINE r == Onward(p)
  <2>1. After(p, k.pc) = "append" /\ "append" \in CliPcs
    BY <1>2, <1>4, ThenFacts DEF After, CliPcs, CliCopy, At
  <2>2. /\ r \in CliRecords /\ r.pc = "append" /\ r.cmd = k.cmd /\ r.man = k.man
        /\ r.hash = k.hash /\ r.open = k.open
    BY <1>onward, <2>1
  <2>3. /\ Becomes(p, r) /\ blobs' = [blobs EXCEPT ![k.hash] = target.content]
        /\ manifest' = manifest /\ clock' = clock /\ k.hash \in Hashes /\ k.pc = "copy"
    BY <1>3, <1>4 DEF CliCopy, At
  <2> HIDE DEF r
  <2>4. Staged(r)
    BY <1>0, <1>2, <1>3, <2>2, <2>3, StagedIf DEF Stages
  <2>5. /\ blobs' \in [Hashes -> Contents \cup {NoContent}]
        /\ \A h \in Hashes : blobs[h] # NoContent => blobs'[h] # NoContent
        /\ blobs'[k.hash] # NoContent
    <3>1. target.content \in Contents /\ target.content # NoContent
      BY <1>0, ContentAssumption
    <3>2. /\ blobs' \in [Hashes -> Contents \cup {NoContent}]
          /\ blobs'[k.hash] = target.content
          /\ \A h \in Hashes \ {k.hash} : blobs'[h] = blobs[h]
      <4> HIDE DEF k
      <4> QED
        BY <1>0, <2>3, <3>1
    <3> HIDE DEF k
    <3> QED
      BY <3>1, <3>2
  <2>6. blobs'[r.hash] # NoContent /\ r.hash \in Hashes
    <3> HIDE DEF k
    <3> QED
      BY <2>2, <2>3, <2>5
  <2>7. Effect(p, r)
    BY <1>1, <2>2, <2>3, <2>5, <2>6 DEF Effect
  <2> QED
    BY <1>0, <1>done, <2>2, <2>3, <2>4, <2>5, <2>7
<1>5. CASE BackupAppend(p) \/ RestoreAppend(p)
  <2>1. PICK tag \in Tags, m \in {manifest, k.man} :
          /\ Becomes(p, [Onward(p) EXCEPT !.man = m \cup {Entry(p, tag)}])
          /\ clock' = clock + 1 /\ k.pc = "append" /\ UNCHANGED stores
    <3>1. Onward(p).man = k.man
      BY <1>0 DEF Onward, CliRecords
    <3> QED
      BY <1>5, <3>1 DEF BackupAppend, RestoreAppend, Tags, At
  <2> DEFINE e == Entry(p, tag)
             r == [Onward(p) EXCEPT !.man = m \cup {e}]
  <2>2. After(p, k.pc) = "save" /\ "save" \in CliPcs
    BY <1>2, <2>1, ThenFacts DEF After, CliPcs
  <2>3. e \in Snapshot /\ e.hash = k.hash
    BY <1>0, <1>3, <2>1 DEF Entry, Snapshot
  <2>4. m \cup {e} \in SUBSET Snapshot /\ IsFiniteSet(m \cup {e})
    BY <1>0, <2>3, FS_AddElement
  <2>5. Becomes(p, r)
    BY <2>1
  <2> HIDE DEF e
  <2>6. /\ r \in CliRecords /\ r.pc = "save" /\ r.cmd = k.cmd /\ r.man = m \cup {e}
        /\ r.hash = k.hash /\ r.open = k.open
    <3>1. /\ Onward(p) \in CliRecords /\ Onward(p).pc = "save" /\ Onward(p).cmd = k.cmd
          /\ Onward(p).hash = k.hash /\ Onward(p).open = k.open
      BY <1>onward, <2>2
    <3> QED
      BY <2>4, <3>1 DEF CliRecords
  <2> HIDE DEF r
  <2>7. Staged(r)
    BY <1>2, <1>3, <2>1, <2>4, <2>6, StagedIf DEF Stages
  <2>8. Effect(p, r)
    BY <1>1, <2>1, <2>3, <2>6 DEF Effect, HasBlob, At, stores
  <2>9. manifest' = manifest /\ blobs' = blobs /\ clock' \in Nat
    BY <1>0, <2>1 DEF stores
  <2> QED
    BY <1>0, <1>done, <2>5, <2>6, <2>7, <2>8, <2>9
<1>6. CASE CliSave(p)
  <2> DEFINE r == Onward(p)
  <2>1. /\ k.cmd = "backup" => After(p, k.pc) = "resume"
        /\ k.cmd = "restore" => After(p, k.pc) = "swap"
        /\ {"resume", "swap"} \subseteq CliPcs
    BY <1>2, <1>6, ThenFacts DEF After, CliPcs, CliSave, At
  <2>2. /\ r \in CliRecords /\ r.pc = After(p, k.pc) /\ r.cmd = k.cmd /\ r.man = k.man
        /\ r.hash = k.hash /\ r.open = k.open
    BY <1>2, <1>onward, <2>1
  <2>3. /\ Becomes(p, r) /\ manifest' = k.man /\ blobs' = blobs /\ clock' = clock
    BY <1>6 DEF CliSave
  <2> HIDE DEF r
  <2>4. Staged(r)
    BY <1>0, <1>2, <1>3, <2>1, <2>2, StagedIf DEF Stages
  <2>5. Effect(p, r)
    BY <1>1, <1>2, <2>1, <2>2, <2>3 DEF Effect, HasBlob
  <2> QED
    BY <1>0, <1>done, <2>2, <2>3, <2>4, <2>5
<1> QED
  BY <1>4, <1>5, <1>6

\* The steps that write the target.
LEMMA SwapSteps ==
  ASSUME FenceInv, NEW p \in Users, RestoreSwap(p) \/ RestoreChtimes(p)
  PROVE  StepOK(p)
<1> DEFINE k == cli[p]
           r == Onward(p)
<1>0. /\ k \in CliRecords /\ Staged(k) /\ IsFiniteSet(k.man) /\ k.pick \in Nat
      /\ manifest \in SUBSET Snapshot /\ IsFiniteSet(manifest) /\ clock \in Nat
      /\ target \in [content : Contents, mtime : Nat]
      /\ blobs \in [Hashes -> Contents \cup {NoContent}]
      /\ commands' \in Nat /\ crossed' \in BOOLEAN
  BY RecordFacts DEF RestoreSwap, RestoreChtimes, cFrame, FenceInv, FenceTypeOK
<1>1. /\ UNCHANGED <<up, paused, base, blind, mu, ev, call, events, rpc, calls, blobs, manifest>>
      /\ faults' \in Nat /\ pending' \in BOOLEAN
  BY DEF RestoreSwap, RestoreChtimes, Fault, cFrame, stores, FenceInv, FenceTypeOK, TypeOK
<1>2. k.pc \in {"swap", "chtimes"} /\ k.cmd = "restore" /\ k.open \in Contents
  <2>1. k.pc \in {"swap", "chtimes"} /\ k.cmd = "restore"
    BY <1>0, StageFacts DEF RestoreSwap, RestoreChtimes, At
  <2> QED
    BY <1>0, <2>1 DEF Staged
<1>3. After(p, k.pc) \in {"chtimes", "resume"} /\ {"chtimes", "resume"} \subseteq CliPcs
  BY <1>2, ThenFacts DEF After, CliPcs
<1>4. /\ r \in CliRecords /\ r.pc = After(p, k.pc) /\ r.cmd = "restore" /\ r.man = k.man
      /\ r.open = k.open
  BY <1>0, <1>2, <1>3 DEF Onward, CliRecords
<1>5. Staged(r)
  BY <1>0, <1>2, <1>3, <1>4, StagedIf DEF Stages
<1>6. Becomes(p, r)
  BY DEF RestoreSwap, RestoreChtimes
<1> HIDE DEF r
<1>7. target' \in [content : Contents, mtime : Nat] /\ clock' \in Nat
  BY <1>0, <1>2 DEF RestoreSwap, RestoreChtimes
<1>8. TypeOK' /\ HashKnown'
  BY <1>0, <1>1, <1>7, FrameKinds
<1>9. Effect(p, r)
  BY <1>1, <1>3, <1>4 DEF Effect, HasBlob
<1> QED
  BY <1>0, <1>4, <1>5, <1>6, <1>8, <1>9, CliMoves DEF StepOK, Becomes

\* The steps of a prune that write, and the end of any command anywhere.
LEMMA SweepSteps ==
  ASSUME FenceInv, NEW p \in Users,
         (\E h \in Hashes : CliRemove(p, h)) \/ CliTrim(p) \/ CliFail(p)
  PROVE  StepOK(p)
<1> DEFINE k == cli[p]
<1>0. /\ k \in CliRecords /\ Staged(k) /\ k.man \in SUBSET Snapshot /\ IsFiniteSet(k.man)
      /\ manifest \in SUBSET Snapshot /\ IsFiniteSet(manifest) /\ clock \in Nat
      /\ target \in [content : Contents, mtime : Nat]
      /\ blobs \in [Hashes -> Contents \cup {NoContent}]
      /\ commands' \in Nat /\ crossed' \in BOOLEAN
  BY RecordFacts DEF CliRemove, CliTrim, CliFail, cFrame, FenceInv, FenceTypeOK
<1>1. /\ UNCHANGED <<up, paused, base, blind, mu, ev, call, events, rpc, calls, target, pending, clock>>
      /\ faults' \in Nat /\ pending' \in BOOLEAN
  <2>1. faults' \in {faults, faults + 1} /\ faults \in Nat /\ pending \in BOOLEAN
    BY DEF CliRemove, CliTrim, CliFail, Fault, cFrame, FenceInv, FenceTypeOK, TypeOK
  <2>2. UNCHANGED <<cFrame, target, pending, clock, rpc, calls>>
    BY DEF CliRemove, CliTrim, CliFail
  <2> QED
    BY <2>1, <2>2 DEF cFrame
<1>done. ASSUME NEW r \in CliRecords, Staged(r), Becomes(p, r), Effect(p, r),
                blobs' \in [Hashes -> Contents \cup {NoContent}],
                manifest' \in SUBSET Snapshot, IsFiniteSet(manifest')
         PROVE  StepOK(p)
  <2>1. TypeOK' /\ HashKnown'
    BY <1>0, <1>1, <1>done, FrameKinds
  <2> QED
    BY <1>0, <1>done, <2>1, CliMoves DEF StepOK, Becomes
<1>idle. IdleCli.pc = "idle" /\ IdleCli.man = {} /\ IdleCli \in CliRecords /\ Staged(IdleCli)
  BY IdleFacts DEF IdleCli
<1>2. ASSUME NEW h \in Hashes, CliRemove(p, h)
      PROVE  StepOK(p)
  <2> DEFINE r == [k EXCEPT !.doomed = k.doomed \ {h}]
  <2>1. k.cmd = "prune" /\ k.pc = "sweep"
    BY <1>0, <1>2, StageFacts DEF CliRemove, At
  <2>2. r \in CliRecords /\ r.pc = "sweep" /\ r.cmd = "prune" /\ r.man = k.man
    BY <1>0, <2>1 DEF CliRecords
  <2>3. /\ Becomes(p, r) /\ blobs' = [blobs EXCEPT ![h] = NoContent] /\ manifest' = manifest
    BY <1>2 DEF CliRemove
  <2> HIDE DEF r
  <2>4. Staged(r)
    BY <1>0, <2>2, StagedIf DEF Stages
  <2>5. Effect(p, r)
    BY <1>1, <2>1, <2>2 DEF Effect
  <2>6. blobs' \in [Hashes -> Contents \cup {NoContent}]
    BY <1>0, <2>3
  <2> QED
    BY <1>0, <1>done, <2>2, <2>3, <2>4, <2>5, <2>6
<1>3. CASE CliTrim(p)
  <2>1. k.cmd = "prune"
    BY <1>0, <1>3, StageFacts DEF CliTrim, At
  <2>2. /\ Becomes(p, IdleCli) /\ blobs' = blobs
        /\ manifest' \in {manifest, Kept(k.man)}
    BY <1>3 DEF CliTrim
  <2>3. manifest' \in SUBSET Snapshot /\ IsFiniteSet(manifest')
    <3>1. Kept(k.man) \subseteq k.man /\ IsFiniteSet(Kept(k.man))
      BY <1>0, KeptSubset
    <3> QED
      BY <1>0, <2>2, <3>1
  <2>4. Effect(p, IdleCli)
    BY <1>1, <1>idle, <2>1 DEF Effect
  <2> QED
    BY <1>0, <1>done, <1>idle, <2>2, <2>3, <2>4
<1>4. CASE CliFail(p)
  <2>1. Becomes(p, IdleCli) /\ UNCHANGED <<blobs, manifest>>
    BY <1>4 DEF CliFail, stores
  <2>2. Effect(p, IdleCli)
    BY <1>1, <1>idle, <2>1 DEF Effect, HasBlob
  <2> QED
    BY <1>0, <1>done, <1>idle, <2>1, <2>2
<1> QED
  BY <1>2, <1>3, <1>4

\* A look at the target that fails, and a ping that is not answered in time.
LEMMA MissedSteps ==
  ASSUME FenceInv, NEW p \in Users,
         CliPingLate(p) \/ (CliStat(p) /\ ~UNCHANGED faults)
  PROVE  StepOK(p)
<1> DEFINE k == cli[p]
<1>0. /\ k \in CliRecords /\ Staged(k) /\ IsFiniteSet(k.man)
      /\ manifest \in SUBSET Snapshot /\ IsFiniteSet(manifest) /\ clock \in Nat
      /\ target \in [content : Contents, mtime : Nat]
      /\ blobs \in [Hashes -> Contents \cup {NoContent}]
      /\ commands' \in Nat /\ crossed' \in BOOLEAN
  BY RecordFacts DEF CliStat, CliPingLate, cFrame, FenceInv, FenceTypeOK
<1>1. /\ UNCHANGED <<up, paused, base, blind, mu, ev, call, events, rpc, calls, target, stores,
                     pending, clock>>
      /\ faults' \in Nat /\ pending' \in BOOLEAN
  BY DEF CliStat, CliPingLate, Fault, cFrame, FenceInv, FenceTypeOK, TypeOK
<1>2. /\ k.cmd = "backup" => k.pc = "ping"
      /\ k.cmd \in {"backup", "restore"} /\ k.pc \in {"ping", "stat"}
  BY <1>0, StageFacts DEF CliStat, CliPingLate, At
<1>3. PICK to \in {"swap", "commit", "stat"} :
        /\ Becomes(p, [k EXCEPT !.pc = to])
        /\ k.cmd = "backup" => to = "commit"
        /\ k.cmd = "restore" => to \in {"swap", "stat"}
  BY <1>2, ThenFacts DEF CliStat, CliPingLate, After, At
<1> DEFINE r == [k EXCEPT !.pc = to]
<1>4. /\ r \in CliRecords /\ r.pc = to /\ r.cmd = k.cmd /\ r.man = k.man /\ r.hash = k.hash
      /\ r.open = k.open
  BY <1>0 DEF CliRecords, CliPcs
<1>5. /\ k.cmd = "restore" => k.open \in Contents
      /\ k.cmd = "backup" => k.hash \in Hashes
  BY <1>0, <1>2 DEF Staged
<1>6. Becomes(p, r)
  BY <1>3
<1> HIDE DEF r
<1>7. Staged(r)
  BY <1>0, <1>2, <1>3, <1>4, <1>5, StagedIf DEF Stages
<1>8. TypeOK' /\ HashKnown'
  BY <1>0, <1>1, FrameKinds DEF stores
<1>9. Effect(p, r)
  BY <1>1, <1>4 DEF Effect, stores
<1> QED
  BY <1>0, <1>4, <1>6, <1>7, <1>8, <1>9, CliMoves DEF StepOK, Becomes

\* So each step of a command.
LEMMA CliSteps ==
  ASSUME FenceInv, NEW p \in Users, CliStep(p)
  PROVE  StepOK(p)
BY BeginStep, ReadSteps, CallingSteps, WriteSteps, SwapSteps, SweepSteps, MissedSteps
DEF CliStep, CliRun

\* The commands begin idle.
LEMMA FenceInitially == FenceInit => FenceInv
<1> SUFFICES ASSUME FenceInit PROVE FenceInv
  OBVIOUS
<1>1. TypeOK /\ HashKnown
  BY InitType DEF FenceInit, Init, HashKnown, Committing, IdleEv
<1> QED
  BY <1>1, IdleFacts DEF FenceInit, FenceInv, FenceTypeOK

\* Every step of the system keeps the kinds, and what each command knows.
LEMMA FenceStep == FenceInv /\ [FenceNext]_fvars => FenceInv'
<1> SUFFICES ASSUME FenceInv, [FenceNext]_fvars PROVE FenceInv'
  OBVIOUS
<1>1. CASE Beside(DaemonStep) \/ Beside(Surroundings)
  BY <1>1, BesideKinds
<1>2. ASSUME NEW p \in Users, CliStep(p)
      PROVE  FenceInv'
  BY <1>2, CliSteps DEF StepOK
<1>3. CASE UNCHANGED fvars
  <2>1. TypeOK' /\ HashKnown'
    BY <1>3, TypeStep DEF fvars, FenceInv, FenceTypeOK
  <2> QED
    BY <1>3, <2>1 DEF fvars, cliVars, FenceInv, FenceTypeOK
<1> QED
  BY <1>1, <1>2, <1>3 DEF FenceNext, FenceRest, Rest, fvars, CliStep

\* Each variable of the daemon, the stores and the commands holds a value of its
\* kind, whatever commands there are: what a restore renames over the target is a
\* content, what an entry names is a hash (backup.go, restore.go, prune.go).
THEOREM FenceTypeCorrect == FenceSpec => []FenceTypeOK
<1>1. FenceInv => FenceTypeOK
  BY DEF FenceInv
<1> QED
  BY <1>1, FenceInitially, FenceStep, PTL DEF FenceSpec

-----------------------------------------------------------------------------
(* The steps of the daemon, and what those of a command leave alone.       *)

\* What a handler does to the request it serves, and to the pause.
LEMMA HandlerMoves ==
  ASSUME FenceInv, NEW p \in Clients, HandlerRun(p) \/ HandlerFail(p)
  PROVE  /\ UNCHANGED <<up, ev>>
         /\ \E q : /\ rpc' = [rpc EXCEPT ![p] = q]
                   /\ \/ rpc[p] = "pause" /\ q = "paused" /\ paused' = TRUE
                      \/ rpc[p] = "resume" /\ q = "rstat" /\ paused' = paused
                      \/ rpc[p] = "rstat" /\ q = "rhash" /\ paused' = paused
                      \/ rpc[p] \in {"rstat", "rhash"} /\ q \in {"ok", "err"} /\ paused' = FALSE
                      \/ /\ rpc[p] \in {"prune", "pscan", "psweep"} /\ paused' = paused
                         /\ q \in {"pscan", "psweep", "ok"}
<1>0. rpc \in [Clients -> RpcPcs]
  BY DEF FenceInv, FenceTypeOK, TypeOK
<1> USE <1>0 DEF hFrame, Reply
<1>1. CASE Pause(p)
  BY <1>1 DEF Pause
<1>2. CASE ResumeLock(p) \/ ResumeStat(p)
  BY <1>2 DEF ResumeLock, ResumeStat
<1>3. CASE ResumeHash(p) \/ ResumeError(p)
  BY <1>3 DEF ResumeHash, ResumeError
<1>4. CASE PruneLoad(p) \/ PruneScan(p) \/ PruneTrim(p) \/ PruneError(p)
  BY <1>4 DEF PruneLoad, PruneScan, PruneTrim, PruneError
<1>5. ASSUME NEW h \in Hashes, PruneRemove(p, h)
      PROVE  UNCHANGED <<up, ev, paused>> /\ rpc[p] = "psweep" /\ rpc' = [rpc EXCEPT ![p] = "psweep"]
  BY <1>5 DEF PruneRemove
<1> QED
  BY <1>1, <1>2, <1>3, <1>4, <1>5 DEF HandlerRun, HandlerFail

\* An evaluation begins only when the daemon is not paused.
LEMMA EvMoves ==
  ASSUME FenceInv, EvRun \/ EvFail
  PROVE  /\ UNCHANGED <<up, paused, rpc>>
         /\ ev.pc = "idle" => up /\ (paused => ev'.pc = "idle")
<1>1. CASE EvStart
  BY <1>1 DEF EvStart, handlers
<1>2. CASE EvStat \/ EvGate \/ EvHash \/ EvDedup \/ EvCommit \/ EvCopy \/ EvLoad \/ EvSave
  BY <1>2 DEF EvStat, EvGate, EvHash, EvDedup, EvCommit, EvCopy, EvLoad, EvSave, evFrame, handlers
<1>3. CASE EvScan \/ EvTrim \/ EvFail \/ \E h \in Hashes : EvRemove(h)
  BY <1>3 DEF EvScan, EvTrim, EvRemove, EvFail, EvDrop, EvIOError, EvGcError, evFrame, handlers
<1> QED
  BY <1>1, <1>2, <1>3 DEF EvRun

\* What the surroundings do to it.
LEMMA AroundMoves ==
  ASSUME FenceInv, Surroundings
  PROVE  \/ UNCHANGED <<up, paused, ev, rpc>>
         \/ /\ ~up' /\ ev'.pc = "idle"
            /\ \A p \in Clients : rpc'[p] = "err" \/ (rpc'[p] = rpc[p] /\ rpc[p] \in Replies)
         \/ ~up /\ up' /\ UNCHANGED <<paused, ev, rpc>>
<1>0. rpc \in [Clients -> RpcPcs]
  BY DEF FenceInv, FenceTypeOK, TypeOK
<1>1. CASE FsEvent \/ Tick \/ \E c \in Contents : Save(c)
  BY <1>1 DEF FsEvent, Tick, Save, daemon, handlers
<1>2. CASE Exit
  BY <1>0, <1>2 DEF Exit, IdleEv
<1>3. CASE Start
  BY <1>3 DEF Start, handlers
<1> QED
  BY <1>1, <1>2, <1>3 DEF Surroundings

\* The daemon's own steps ask for no prune.
LEMMA NoPruneBeside ==
  ASSUME FenceInv, NoPrune, DaemonStep \/ Surroundings
  PROVE  NoPrune'
<1>0. rpc \in [Clients -> RpcPcs]
  BY DEF FenceInv, FenceTypeOK, TypeOK
<1>1. CASE EvRun \/ EvFail
  BY <1>0, <1>1, EvMoves DEF NoPrune
<1>2. ASSUME NEW p \in Clients, HandlerRun(p) \/ HandlerFail(p)
      PROVE  NoPrune'
  BY <1>0, <1>2, HandlerMoves DEF NoPrune
<1>3. CASE Surroundings
  BY <1>0, <1>3, AroundMoves DEF NoPrune, Replies
<1> QED
  BY <1>1, <1>2, <1>3 DEF DaemonStep

\* What a command leaves alone, and when it calls.
LEMMA Leaves ==
  ASSUME FenceInv, NEW p \in Users, CliStep(p)
  PROVE  /\ UNCHANGED <<up, paused, base, blind, mu, ev, call>> /\ (crossed => crossed')
         /\ \/ rpc' = rpc
            \/ \E d \in Clients :
                 /\ rpc[d] \in Replies
                 /\ \/ /\ CliPause(p) /\ rpc' = [rpc EXCEPT ![d] = "pause"]
                       /\ up /\ Becomes(p, [Onward(p) EXCEPT !.conn = d])
                    \/ /\ CliResume(p) /\ rpc' = [rpc EXCEPT ![d] = "resume"]
                       /\ up /\ cli[p].running /\ d = cli[p].conn /\ Becomes(p, Onward(p))
<1>1. crossed \in BOOLEAN
  BY DEF FenceInv, FenceTypeOK
<1>2. CASE \E c \in Commands : Begin(p, c)
  BY <1>1, <1>2 DEF Begin, vars, daemon, handlers
<1>3. CASE CliPause(p)
  <2>1. CASE UNCHANGED vars
    BY <1>1, <1>3, <2>1 DEF CliPause, vars, daemon, handlers
  <2>2. CASE \E d \in Clients : /\ up /\ Request(d, "pause")
                               /\ Becomes(p, [Onward(p) EXCEPT !.conn = d])
    <3>1. PICK d \in Clients : /\ up /\ Request(d, "pause")
                               /\ Becomes(p, [Onward(p) EXCEPT !.conn = d])
      BY <2>2
    <3>2. rpc[d] \in Replies /\ rpc' = [rpc EXCEPT ![d] = "pause"]
      BY <3>1, RequestKinds DEF Request
    <3>3. UNCHANGED <<up, paused, base, blind, mu, ev, call>> /\ crossed' = crossed
      BY <1>3, <3>1 DEF CliPause, Request, daemon
    <3> QED
      BY <1>1, <1>3, <3>1, <3>2, <3>3
  <2> QED
    BY <1>3, <2>1, <2>2 DEF CliPause, FreeConns
<1>4. CASE CliResume(p)
  <2>1. CASE UNCHANGED vars
    BY <1>1, <1>4, <2>1 DEF CliResume, vars, daemon, handlers
  <2>2. CASE cli[p].running /\ up /\ Request(cli[p].conn, "resume") /\ Becomes(p, Onward(p))
    <3> DEFINE d == cli[p].conn
    <3>1. /\ rpc[d] \in Replies /\ rpc' = [rpc EXCEPT ![d] = "resume"]
          /\ d \notin Clients => rpc' = rpc
      BY <2>2, RequestKinds DEF Request
    <3>2. UNCHANGED <<up, paused, base, blind, mu, ev, call>> /\ crossed' = crossed
      BY <1>4, <2>2 DEF CliResume, Request, daemon
    <3> QED
      BY <1>1, <1>4, <2>2, <3>1, <3>2
  <2> QED
    BY <1>4, <2>1, <2>2 DEF CliResume
<1>5. CASE \/ RestoreList(p) \/ RestoreOpen(p) \/ CliStat(p) \/ CliHash(p) \/ CliPing(p)
           \/ CliPaused(p) \/ CliCommit(p) \/ CliCopy(p) \/ BackupAppend(p) \/ RestoreAppend(p)
           \/ CliSave(p) \/ RestoreSwap(p) \/ RestoreChtimes(p) \/ CliResumed(p) \/ CliRead(p)
           \/ CliScan(p) \/ (\E h \in Hashes : CliRemove(p, h)) \/ CliTrim(p) \/ CliFail(p)
  BY <1>1, <1>5
  DEF RestoreList, RestoreOpen, CliStat, CliHash, CliPing, CliPaused, CliCommit, CliCopy,
      BackupAppend, RestoreAppend, CliSave, RestoreSwap, RestoreChtimes, CliResumed, CliRead,
      CliScan, CliRemove, CliTrim, CliFail, cFrame
<1>6. CASE CliPingLate(p)
  BY <1>1, <1>6 DEF CliPingLate
<1> QED
  BY <1>2, <1>3, <1>4, <1>5, <1>6 DEF CliStep, CliRun

-----------------------------------------------------------------------------
(* Entries without collection.                                             *)

Backed(m) == \A s \in m : HasBlob(s.hash)

\* The daemon collects garbage.
Collects == ev.pc \in {"scan", "sweep"}

\* Each manifest on disk or in memory is backed, and so is the entry to come.
BackedInv ==
  /\ Backed(manifest)
  /\ NoPrune
  /\ ~Collects
  /\ ev.pc \in {"load", "save"} => HasBlob(ev.hash)
  /\ ev.pc = "save" => Backed(ev.man)
  /\ \A p \in Users : /\ Backed(cli[p].man)
                      /\ At(p, "append") => HasBlob(cli[p].hash)

\* What is backed stays so when blobs only come.
LEMMA BackedMonotone ==
  ASSUME \A h \in Hashes : blobs[h] # NoContent => blobs'[h] # NoContent,
         NEW m \in SUBSET Snapshot, Backed(m)
  PROVE  \A s \in m : blobs'[s.hash] # NoContent
BY DEF Backed, HasBlob, Snapshot

\* A step of the daemon, where nothing collects.
LEMMA DaemonBacked ==
  ASSUME FenceInv, BackedInv, ~Collects', Beside(DaemonStep) \/ Beside(Surroundings)
  PROVE  BackedInv'
<1> USE DEF vars, stores, daemon, handlers, bounds, evFrame, hFrame
<1>0. (DaemonStep \/ Surroundings) /\ cli' = cli
  BY DEF Beside
<1>1. NoPrune'
  BY <1>0, NoPruneBeside DEF BackedInv
<1>2. /\ ev \in EvRecords /\ manifest \in SUBSET Snapshot
      /\ blobs \in [Hashes -> Contents \cup {NoContent}] /\ target.content \in Contents
      /\ \A p \in Users : cli[p].man \in SUBSET Snapshot
      /\ ev.pc \in Committing => ev.hash \in Hashes
  <2>1. target \in [content : Contents, mtime : Nat]
    BY DEF FenceInv, FenceTypeOK, TypeOK
  <2> QED
    BY <2>1, RecordFacts DEF FenceInv, FenceTypeOK, TypeOK, HashKnown
<1>idle. IdleEv.pc = "idle"
  BY DEF IdleEv
<1>calm. ASSUME UNCHANGED stores,
                ev' = ev \/ ev'.pc \in {"idle", "stat", "gate", "hash", "dedup", "commit", "copy"}
         PROVE  BackedInv'
  BY <1>0, <1>1, <1>calm DEF BackedInv, Collects, Backed, HasBlob, At
<1>3. ASSUME NEW p \in Clients, HandlerRun(p) \/ HandlerFail(p)
      PROVE  BackedInv'
  <2>1. rpc[p] \notin {"prune", "pscan", "psweep"}
    BY DEF BackedInv, NoPrune
  <2>2. UNCHANGED <<ev, stores>>
    BY <1>3, <2>1 DEF HandlerRun, HandlerFail, Pause, ResumeLock, ResumeStat, ResumeHash,
         ResumeError, PruneLoad, PruneScan, PruneRemove, PruneTrim, PruneError
  <2> QED
    BY <1>calm, <2>2
<1>4. CASE \/ \E c \in Contents : Save(c)
           \/ FsEvent \/ Tick \/ Start \/ Exit
           \/ \E p \in Clients, cmd \in Cmds : Request(p, cmd)
  BY <1>calm, <1>4, <1>idle DEF Save, FsEvent, Tick, Start, Exit, Request
<1>5. CASE EvFail \/ EvStart \/ EvStat \/ EvGate \/ EvHash \/ EvDedup
  <2>1. /\ UNCHANGED stores
        /\ ev' \in {ev, IdleEv} \/ ev'.pc \in {"stat", "gate", "hash", "dedup", "commit"}
    BY <1>2, <1>5
       DEF EvFail, EvDrop, EvIOError, EvGcError, EvStart, EvStat, EvGate, EvHash, EvDedup,
           EvRecords, IdleEv
  <2> QED
    BY <1>calm, <1>idle, <2>1
<1>6. CASE EvCommit
  <2>1. /\ UNCHANGED stores
        /\ ev'.pc = (IF HasBlob(ev.hash) THEN "load" ELSE "copy") /\ ev'.hash = ev.hash
    BY <1>2, <1>6 DEF EvCommit, EvRecords
  <2>2. CASE HasBlob(ev.hash)
    BY <1>0, <1>1, <2>1, <2>2 DEF BackedInv, Collects, Backed, HasBlob, At
  <2>3. CASE ~HasBlob(ev.hash)
    BY <1>calm, <2>1, <2>3
  <2> QED
    BY <2>2, <2>3
<1>7. CASE EvCopy
  <2>1. /\ ev.hash \in Hashes /\ blobs' = [blobs EXCEPT ![ev.hash] = target.content]
        /\ manifest' = manifest /\ ev'.pc = "load" /\ ev'.hash = ev.hash
    BY <1>2, <1>7 DEF EvCopy, EvRecords, Committing
  <2>2. \A h \in Hashes : blobs[h] # NoContent => blobs'[h] # NoContent
    BY <1>2, <2>1, ContentAssumption
  <2>3. blobs'[ev.hash] # NoContent
    BY <1>2, <2>1, ContentAssumption
  <2>4. \A s \in manifest : blobs'[s.hash] # NoContent
    BY <1>2, <2>2, BackedMonotone DEF BackedInv
  <2>5. ASSUME NEW p \in Users
        PROVE  /\ \A s \in cli[p].man : blobs'[s.hash] # NoContent
               /\ At(p, "append") => blobs'[cli[p].hash] # NoContent
    <3>1. Backed(cli[p].man) /\ (At(p, "append") => HasBlob(cli[p].hash))
      BY DEF BackedInv
    <3>2. At(p, "append") => cli[p].hash \in Hashes
      BY DEF FenceInv, Staged, At
    <3> QED
      BY <1>2, <2>2, <3>1, <3>2, BackedMonotone DEF HasBlob
  <2> QED
    BY <1>0, <1>1, <2>1, <2>3, <2>4, <2>5 DEF BackedInv, Collects, Backed, HasBlob, At
<1>8. CASE EvLoad
  <2>1. /\ UNCHANGED stores /\ ev.pc = "load" /\ ev'.pc = "save" /\ ev'.hash = ev.hash
        /\ ev'.man = manifest \cup {AutoSnapshot} /\ AutoSnapshot.hash = ev.hash
    BY <1>2, <1>8 DEF EvLoad, EvRecords, AutoSnapshot
  <2> QED
    BY <1>0, <1>1, <2>1 DEF BackedInv, Collects, Backed, HasBlob, At
<1>9. CASE EvSave
  <2>1. ev.pc = "save" /\ blobs' = blobs /\ manifest' = ev.man
    BY <1>9 DEF EvSave
  <2>2. ev'.pc = "idle"
    BY <1>2, <1>9, <1>idle DEF EvSave, EvRecords, Collects
  <2> QED
    BY <1>0, <1>1, <2>1, <2>2 DEF BackedInv, Collects, Backed, HasBlob, At
<1>10. ~EvScan /\ ~EvTrim /\ \A h \in Hashes : ~EvRemove(h)
  BY DEF BackedInv, Collects, EvScan, EvTrim, EvRemove
<1> QED
  BY <1>0, <1>3, <1>4, <1>5, <1>6, <1>7, <1>8, <1>9, <1>10
     DEF DaemonStep, EvRun, Surroundings

\* A step of a command, where none prunes.
LEMMA CliBacked ==
  ASSUME "prune" \notin Commands, FenceInv, BackedInv, NEW p \in Users, StepOK(p)
  PROVE  BackedInv'
<1>1. PICK r \in CliRecords : cli' = [cli EXCEPT ![p] = r] /\ Effect(p, r)
  BY DEF StepOK
<1>2. cli \in [Users -> CliRecords] /\ manifest \in SUBSET Snapshot
  BY DEF FenceInv, FenceTypeOK, TypeOK
<1>3. \A q \in Users : cli[q].man \in SUBSET Snapshot /\ cli[q].cmd # "prune"
  BY <1>2 DEF CliRecords
<1>4. /\ \A h \in Hashes : blobs[h] # NoContent => blobs'[h] # NoContent
      /\ manifest' \in {manifest, cli[p].man} /\ ev' = ev
      /\ \A s \in r.man : \/ s \in cli[p].man \/ s \in manifest
                          \/ At(p, "append") /\ s.hash = cli[p].hash
      /\ r.pc = "append" => blobs'[r.hash] # NoContent
  BY <1>1, <1>3 DEF Effect
<1>5. ASSUME NEW m \in SUBSET Snapshot, Backed(m)
      PROVE  \A s \in m : blobs'[s.hash] # NoContent
  BY <1>4, <1>5, BackedMonotone
<1>6. /\ \A s \in manifest : blobs'[s.hash] # NoContent
      /\ \A q \in Users : \A s \in cli[q].man : blobs'[s.hash] # NoContent
  BY <1>2, <1>3, <1>5 DEF BackedInv
<1>7. \A q \in Users : At(q, "append") => blobs'[cli[q].hash] # NoContent
  BY <1>4 DEF BackedInv, FenceInv, Staged, At, HasBlob
<1>8. \A s \in r.man : blobs'[s.hash] # NoContent
  BY <1>4, <1>6, <1>7
<1>9. ASSUME NEW q \in Users
      PROVE  /\ \A s \in cli'[q].man : blobs'[s.hash] # NoContent
             /\ cli'[q].pc = "append" => blobs'[cli'[q].hash] # NoContent
  <2>1. CASE q = p
    BY <1>1, <1>2, <1>4, <1>8, <2>1
  <2>2. CASE q # p
    BY <1>1, <1>2, <1>6, <1>7, <2>2 DEF At
  <2> QED
    BY <2>1, <2>2
<1>10. NoPrune'
  BY <1>1 DEF Effect, BackedInv, NoPrune, FenceInv, FenceTypeOK, TypeOK
<1>11. /\ ev.pc \in {"load", "save"} => blobs'[ev.hash] # NoContent
       /\ ev.pc = "save" => \A s \in ev.man : blobs'[s.hash] # NoContent
  <2>1. ev \in EvRecords /\ (ev.pc \in {"load", "save"} => ev.hash \in Hashes)
    BY DEF FenceInv, FenceTypeOK, TypeOK, HashKnown, Committing
  <2>2. ev.man \in SUBSET Snapshot
    BY <2>1 DEF EvRecords
  <2> QED
    BY <1>4, <1>5, <2>1, <2>2 DEF BackedInv, HasBlob
<1>12. \A s \in manifest' : blobs'[s.hash] # NoContent
  BY <1>4, <1>6
<1> QED
  BY <1>4, <1>9, <1>10, <1>11, <1>12 DEF BackedInv, Collects, Backed, HasBlob, At

\* As long as nothing has been collected, each entry of the manifest has its blob
\* at every instant, however many commands and evaluations overlap and wherever
\* each of them fails: all write the blob before the entry (evaluator.go,
\* backup.go, restore.go), and where one erases what another has written to the
\* manifest, entries are lost and no blob.
THEOREM EntriesStayBacked ==
  ASSUME "prune" \notin Commands
  PROVE  FenceSpec /\ []~Collects => []EntriesBacked
<1>1. FenceInit => FenceInv /\ BackedInv
  <2> SUFFICES ASSUME FenceInit PROVE FenceInv /\ BackedInv
    OBVIOUS
  <2>1. BackedInv
    BY DEF FenceInit, Init, BackedInv, Collects, Backed, NoPrune, IdleEv, IdleCli, At
  <2> QED
    BY <2>1, FenceInitially
<1>2. FenceInv /\ BackedInv /\ [FenceNext]_fvars /\ ~Collects' => FenceInv' /\ BackedInv'
  <2> SUFFICES ASSUME FenceInv, BackedInv, [FenceNext]_fvars, ~Collects' PROVE BackedInv'
    BY FenceStep
  <2>1. CASE Beside(DaemonStep) \/ Beside(Surroundings)
    BY <2>1, DaemonBacked
  <2>2. ASSUME NEW p \in Users, CliStep(p)
        PROVE  BackedInv'
    BY <2>2, CliSteps, CliBacked
  <2>3. CASE UNCHANGED fvars
    BY <2>3 DEF fvars, cliVars, vars, stores, daemon, handlers, BackedInv, Collects, Backed,
                HasBlob, NoPrune, At
  <2> QED
    BY <2>1, <2>2, <2>3 DEF FenceNext, FenceRest, Rest, fvars, CliStep
<1>3. BackedInv => EntriesBacked
  BY DEF BackedInv, Backed, EntriesBacked
<1> QED
  BY <1>1, <1>2, <1>3, PTL DEF FenceSpec

-----------------------------------------------------------------------------
(* The steps of a command, with its order looked up.                       *)

\* What a step of p makes of its variables k.
Shape(p, k, r) ==
  \/ r = IdleCli /\ (UNCHANGED vars \/ CliTrim(p))
  \/ RestoreList(p) /\ k.cmd = "restore" /\ r = [k EXCEPT !.pc = "open", !.man = manifest]
  \/ /\ RestoreOpen(p) /\ k.cmd = "restore"
     /\ \E s \in k.man : r = [k EXCEPT !.pc = "ping", !.pick = s.mtime, !.open = blobs[s.hash]]
  \/ /\ CliStat(p) /\ k.cmd # "prune" /\ UNCHANGED vars
     /\ r = [k EXCEPT !.pc = "hash", !.mtime = target.mtime]
  \/ CliStat(p) /\ k.cmd = "restore" /\ Fault /\ r = [k EXCEPT !.pc = "swap"]
  \/ /\ CliHash(p)
     /\ \E pc \in {"ping", "commit", "swap"} :
          /\ r = [k EXCEPT !.hash = Hash(target.content), !.pc = pc]
          /\ k.cmd = IF pc = "ping" THEN "backup" ELSE "restore"
          /\ pc = "swap" => Hash(target.content) \in HashSet(k.man)
  \/ /\ CliPing(p)
     /\ \E pc \in {"pause", "commit", "stat"} :
          /\ r = [k EXCEPT !.running = up, !.pc = pc]
          /\ up => pc = "pause"
          /\ ~up => IF k.cmd = "backup" THEN pc = "commit" ELSE k.cmd = "restore" /\ pc = "stat"
  \/ /\ CliPingLate(p)
     /\ \E pc \in {"commit", "stat"} :
          /\ r = [k EXCEPT !.pc = pc]
          /\ k.cmd = IF pc = "commit" THEN "backup" ELSE "restore"
  \/ /\ CliPause(p)
     /\ \E d \in FreeConns : Request(d, "pause") /\ r = [k EXCEPT !.pc = "pausing", !.conn = d]
  \/ /\ CliPaused(p) /\ k.cmd = "backup" /\ rpc[k.conn] = "paused"
     /\ r = [k EXCEPT !.pc = "commit"]
  \/ /\ CliPaused(p) /\ k.cmd = "restore" /\ rpc[k.conn] = "paused"
     /\ r = [k EXCEPT !.pc = "stat"]
  \/ CliCommit(p) /\ HasBlob(k.hash) /\ r = [k EXCEPT !.pc = "append"]
  \/ CliCommit(p) /\ r = [k EXCEPT !.pc = "copy"]
  \/ CliCopy(p) /\ r = [k EXCEPT !.pc = "append"]
  \/ BackupAppend(p) /\ r = [k EXCEPT !.pc = "save", !.man = manifest \cup {Entry(p, "Manual Backup")}]
  \/ RestoreAppend(p) /\ r = [k EXCEPT !.pc = "save", !.man = k.man \cup {Entry(p, "pre-restore backup")}]
  \/ CliSave(p) /\ k.cmd = "backup" /\ r = [k EXCEPT !.pc = "resume"]
  \/ CliSave(p) /\ k.cmd = "restore" /\ r = [k EXCEPT !.pc = "swap"]
  \/ RestoreSwap(p) /\ r = [k EXCEPT !.pc = "chtimes"]
  \/ RestoreChtimes(p) /\ r = [k EXCEPT !.pc = "resume"]
  \/ CliResume(p) /\ Request(k.conn, "resume") /\ k.running /\ r = [k EXCEPT !.pc = "resuming"]
  \/ CliRead(p) /\ r = [k EXCEPT !.pc = "scan", !.man = manifest]
  \/ CliScan(p) /\ r = [k EXCEPT !.pc = "sweep", !.doomed = Garbage(k.man)]
  \/ \E h \in Hashes : CliRemove(p, h) /\ r = [k EXCEPT !.doomed = k.doomed \ {h}]

\* Each step of a command has one of these shapes.
LEMMA Shapes ==
  ASSUME FenceInv, NEW p \in Users, NEW k, k = cli[p], CliRun(p) \/ CliPingLate(p)
  PROVE  \E r : Becomes(p, r) /\ Shape(p, k, r)
<1>0. /\ k \in CliRecords /\ Staged(k)
      /\ k.pc # "idle" =>
           /\ k.cmd \in {"backup", "restore", "prune"}
           /\ k.pc \in {"list", "open", "swap", "chtimes"} => k.cmd = "restore"
           /\ k.pc \in {"read", "scan", "sweep"} <=> k.cmd = "prune"
  BY RecordFacts, StageFacts
<1>on. Onward(p) = [k EXCEPT !.pc = After(p, k.pc)]
  BY DEF Onward
<1>same. ASSUME UNCHANGED <<cFrame, target, stores, clock, pending, rpc, faults, calls>>
         PROVE  UNCHANGED vars
  BY <1>same, FrameFacts
<1> USE DEF At
<1>1. CASE RestoreList(p)
  <2> DEFINE r == [k EXCEPT !.pc = "open", !.man = manifest]
  <2>1. k.cmd = "restore" /\ After(p, k.pc) = "open"
    BY <1>0, <1>1, ThenFacts DEF RestoreList, After
  <2>2. [Onward(p) EXCEPT !.man = manifest] = r
    BY <1>0, <1>on, <2>1 DEF CliRecords
  <2>3. (Becomes(p, IdleCli) /\ UNCHANGED vars) \/ Becomes(p, r)
    BY <1>1, <1>same, <2>2 DEF RestoreList
  <2> QED
    BY <1>1, <2>1, <2>3 DEF Shape
<1>2. CASE RestoreOpen(p)
  <2>1. k.cmd = "restore" /\ After(p, k.pc) = "ping"
    BY <1>0, <1>2, ThenFacts DEF RestoreOpen, After
  <2>2. PICK s \in k.man :
          Becomes(p, IF HasBlob(s.hash)
                       THEN [Onward(p) EXCEPT !.pick = s.mtime, !.open = blobs[s.hash]]
                       ELSE IdleCli)
    BY <1>2 DEF RestoreOpen
  <2> DEFINE r == [k EXCEPT !.pc = "ping", !.pick = s.mtime, !.open = blobs[s.hash]]
  <2>3. [Onward(p) EXCEPT !.pick = s.mtime, !.open = blobs[s.hash]] = r
    BY <1>0, <1>on, <2>1 DEF CliRecords
  <2>4. (Becomes(p, IdleCli) /\ UNCHANGED vars) \/ Becomes(p, r)
    BY <1>2, <1>same, <2>2, <2>3 DEF RestoreOpen
  <2> QED
    BY <1>2, <2>1, <2>4 DEF Shape
<1>3. CASE CliStat(p)
  <2> DEFINE r == [k EXCEPT !.pc = "hash", !.mtime = target.mtime]
  <2>1. k.cmd \in {"backup", "restore"} /\ After(p, k.pc) = "hash"
    BY <1>0, <1>3, ThenFacts DEF CliStat, After
  <2>2. [Onward(p) EXCEPT !.mtime = target.mtime] = r
    BY <1>0, <1>on, <2>1 DEF CliRecords
  <2>3. CASE Becomes(p, r) /\ UNCHANGED faults
    BY <1>3, <1>same, <2>1, <2>3 DEF Shape, CliStat
  <2>4. CASE Becomes(p, [k EXCEPT !.pc = After(p, "save")]) /\ Fault /\ k.cmd = "restore"
    <3>1. After(p, "save") = "swap"
      BY <2>4, ThenFacts DEF After
    <3> QED
      BY <1>3, <2>4, <3>1 DEF Shape
  <2> QED
    BY <1>3, <2>2, <2>3, <2>4 DEF CliStat
<1>4. CASE CliHash(p)
  <2> DEFINE h == Hash(target.content)
             known == k.cmd = "restore" /\ h \in HashSet(k.man)
             pc == After(p, IF known THEN "save" ELSE k.pc)
             r == [k EXCEPT !.hash = h, !.pc = pc]
  <2>1. /\ pc \in {"ping", "commit", "swap"}
        /\ k.cmd = IF pc = "ping" THEN "backup" ELSE "restore"
        /\ pc = "swap" => h \in HashSet(k.man)
    BY <1>0, <1>4, ThenFacts DEF CliHash, After
  <2>2. Becomes(p, r)
    BY <1>4 DEF CliHash
  <2> HIDE DEF pc
  <2> QED
    BY <1>4, <2>1, <2>2 DEF Shape
<1>5. CASE CliPing(p)
  <2> DEFINE pc == After(p, IF up THEN k.pc ELSE "pausing")
             r == [k EXCEPT !.running = up, !.pc = pc]
  <2>1. /\ pc \in {"pause", "commit", "stat"}
        /\ up => pc = "pause"
        /\ ~up => IF k.cmd = "backup" THEN pc = "commit" ELSE k.cmd = "restore" /\ pc = "stat"
    BY <1>0, <1>5, ThenFacts DEF CliPing, After
  <2>2. Becomes(p, r)
    BY <1>5 DEF CliPing
  <2> HIDE DEF pc
  <2> QED
    BY <1>5, <2>1, <2>2 DEF Shape
<1>6. CASE CliPause(p)
  <2>0. k.pc = "pause"
    BY <1>6 DEF CliPause
  <2>1. Onward(p) = [k EXCEPT !.pc = "pausing"]
    BY <1>0, <1>on, <2>0, ThenFacts DEF After
  <2>2. ASSUME NEW d
        PROVE  [Onward(p) EXCEPT !.conn = d] = [k EXCEPT !.pc = "pausing", !.conn = d]
    BY <1>0, <2>1 DEF CliRecords
  <2>3. CASE Becomes(p, IdleCli) /\ UNCHANGED vars
    BY <1>6, <2>3 DEF Shape
  <2>4. CASE \E d \in FreeConns : Request(d, "pause") /\ Becomes(p, [Onward(p) EXCEPT !.conn = d])
    <3>1. PICK d \in FreeConns : Request(d, "pause") /\ Becomes(p, [Onward(p) EXCEPT !.conn = d])
      BY <2>4
    <3> DEFINE r == [k EXCEPT !.pc = "pausing", !.conn = d]
    <3>2. Becomes(p, r)
      BY <2>2, <3>1
    <3>3. Shape(p, k, r)
      BY <1>6, <3>1 DEF Shape
    <3> QED
      BY <3>2, <3>3
  <2> QED
    BY <1>6, <2>3, <2>4 DEF CliPause
<1>7. CASE CliPaused(p)
  <2>1. \/ k.cmd = "backup" /\ Onward(p) = [k EXCEPT !.pc = "commit"]
        \/ k.cmd = "restore" /\ Onward(p) = [k EXCEPT !.pc = "stat"]
    BY <1>0, <1>on, <1>7, ThenFacts DEF CliPaused, After
  <2>2. \/ Becomes(p, IdleCli) /\ UNCHANGED vars
        \/ Becomes(p, Onward(p)) /\ rpc[k.conn] = "paused"
    BY <1>7, <1>same DEF CliPaused
  <2> QED
    BY <1>7, <2>1, <2>2 DEF Shape
<1>8. CASE CliCommit(p)
  <2>1. /\ After(p, k.pc) = "copy" /\ After(p, "copy") = "append"
    BY <1>0, <1>8, ThenFacts DEF CliCommit, After
  <2>2. \/ Becomes(p, [k EXCEPT !.pc = "append"]) /\ HasBlob(k.hash)
        \/ Becomes(p, [k EXCEPT !.pc = "copy"])
    BY <1>8, <2>1 DEF CliCommit
  <2> QED
    BY <1>8, <2>2 DEF Shape
<1>9. CASE CliCopy(p)
  <2>1. Onward(p) = [k EXCEPT !.pc = "append"]
    BY <1>0, <1>on, <1>9, ThenFacts DEF CliCopy, After
  <2> QED
    BY <1>9, <2>1 DEF Shape, CliCopy
<1>10. CASE BackupAppend(p)
  <2> DEFINE m == manifest \cup {Entry(p, "Manual Backup")}
  <2>1. After(p, k.pc) = "save"
    BY <1>0, <1>10, ThenFacts DEF BackupAppend, After
  <2>2. Becomes(p, [Onward(p) EXCEPT !.man = m])
    BY <1>10 DEF BackupAppend
  <2>3. [Onward(p) EXCEPT !.man = m] = [k EXCEPT !.pc = "save", !.man = m]
    <3> HIDE DEF m
    <3> QED
      BY <1>0, <1>on, <2>1 DEF CliRecords
  <2> QED
    BY <1>10, <2>2, <2>3 DEF Shape
<1>11. CASE RestoreAppend(p)
  <2> DEFINE m == k.man \cup {Entry(p, "pre-restore backup")}
  <2>1. After(p, k.pc) = "save"
    BY <1>0, <1>11, ThenFacts DEF RestoreAppend, After
  <2>2. Becomes(p, [Onward(p) EXCEPT !.man = m])
    <3>1. Onward(p).man = k.man
      BY <1>0, <1>on DEF CliRecords
    <3> QED
      BY <1>11, <3>1 DEF RestoreAppend
  <2>3. [Onward(p) EXCEPT !.man = m] = [k EXCEPT !.pc = "save", !.man = m]
    <3> HIDE DEF m
    <3> QED
      BY <1>0, <1>on, <2>1 DEF CliRecords
  <2> QED
    BY <1>11, <2>2, <2>3 DEF Shape
<1>12. CASE CliSave(p)
  <2>1. \/ k.cmd = "backup" /\ Onward(p) = [k EXCEPT !.pc = "resume"]
        \/ k.cmd = "restore" /\ Onward(p) = [k EXCEPT !.pc = "swap"]
    BY <1>0, <1>on, <1>12, ThenFacts DEF CliSave, After
  <2> QED
    BY <1>12, <2>1 DEF Shape, CliSave
<1>13. CASE RestoreSwap(p)
  <2>1. Onward(p) = [k EXCEPT !.pc = "chtimes"]
    BY <1>0, <1>on, <1>13, ThenFacts DEF RestoreSwap, After
  <2> QED
    BY <1>13, <2>1 DEF Shape, RestoreSwap
<1>14. CASE RestoreChtimes(p)
  <2>1. Onward(p) = [k EXCEPT !.pc = "resume"]
    BY <1>0, <1>on, <1>14, ThenFacts DEF RestoreChtimes, After
  <2> QED
    BY <1>14, <2>1 DEF Shape, RestoreChtimes
<1>15. CASE CliResume(p)
  <2>1. Onward(p) = [k EXCEPT !.pc = "resuming"]
    BY <1>0, <1>on, <1>15, ThenFacts DEF CliResume, After
  <2>2. \/ Becomes(p, IdleCli) /\ UNCHANGED vars
        \/ Becomes(p, Onward(p)) /\ Request(k.conn, "resume") /\ k.running
    BY <1>15 DEF CliResume
  <2> QED
    BY <1>15, <2>1, <2>2 DEF Shape
<1>16. CASE CliResumed(p)
  BY <1>16, <1>same DEF Shape, CliResumed
<1>17. CASE CliRead(p)
  BY <1>17 DEF Shape, CliRead
<1>18. CASE CliScan(p)
  BY <1>18 DEF Shape, CliScan
<1>19. CASE CliTrim(p)
  BY <1>19 DEF Shape, CliTrim
<1>20. ASSUME NEW h \in Hashes, CliRemove(p, h)
       PROVE  \E r : Becomes(p, r) /\ Shape(p, k, r)
  <2>1. Becomes(p, [k EXCEPT !.doomed = k.doomed \ {h}])
    BY <1>20 DEF CliRemove
  <2> QED
    BY <1>20, <2>1 DEF Shape
<1>21. CASE CliPingLate(p)
  <2> DEFINE pc == After(p, "pausing")
  <2>1. pc \in {"commit", "stat"} /\ k.cmd = IF pc = "commit" THEN "backup" ELSE "restore"
    BY <1>0, <1>21, ThenFacts DEF CliPingLate, After
  <2>2. Becomes(p, [k EXCEPT !.pc = pc])
    BY <1>21 DEF CliPingLate
  <2> HIDE DEF pc
  <2> QED
    BY <1>21, <2>1, <2>2 DEF Shape
<1> QED
  BY <1>1, <1>2, <1>3, <1>4, <1>5, <1>6, <1>7, <1>8, <1>9, <1>10, <1>11, <1>12, <1>13, <1>14,
     <1>15, <1>16, <1>17, <1>18, <1>19, <1>20, <1>21 DEF CliRun

\* How a step moves a command's control, its knowledge of a daemon and its
\* connection.
LEMMA Moves ==
  ASSUME FenceInv, NEW p \in Users, NEW k, k = cli[p], NEW r, Shape(p, k, r)
  PROVE  \/ r = IdleCli
         \/ /\ r.cmd = k.cmd /\ r.running = k.running /\ r.conn = k.conn
            /\ \/ k.pc \in {"list", "open"} /\ r.pc \in {"open", "ping"}
               \/ k.pc \in {"stat", "hash"} /\ k.cmd = "backup" /\ r.pc \in {"hash", "ping"}
               \/ /\ k.pc \in Critical /\ r.pc \in Critical \cup {"resume"}
                  /\ k.cmd = "restore" \/ k.pc \notin {"stat", "hash"}
                  /\ k.cmd = "restore" \/ r.pc \notin {"stat", "hash"}
               \/ k.pc = "resume" /\ r.pc = "resuming"
               \/ k.cmd = "prune" /\ r.pc \in {"scan", "sweep"}
               \/ /\ k.pc = "pausing" /\ rpc[k.conn] = "paused" /\ r.pc \in {"stat", "commit"}
                  /\ k.cmd = "backup" => r.pc = "commit"
               \/ /\ CliPingLate(p) /\ r.pc \in {"stat", "commit"}
                  /\ k.cmd = "backup" => r.pc = "commit"
         \/ /\ k.pc = "ping" /\ r.cmd = k.cmd /\ r.running = up /\ r.conn = k.conn
            /\ IF up THEN r.pc = "pause"
                     ELSE r.pc \in {"stat", "commit"} /\ (k.cmd = "backup" => r.pc = "commit")
         \/ /\ k.pc = "pause" /\ r.pc = "pausing" /\ r.cmd = k.cmd /\ r.running = k.running
            /\ r.conn \in Clients /\ rpc' = [rpc EXCEPT ![r.conn] = "pause"]
<1>0. /\ k \in CliRecords /\ Staged(k)
      /\ k.pc # "idle" =>
           /\ k.cmd \in {"backup", "restore", "prune"}
           /\ k.pc \in {"list", "open", "swap", "chtimes"} => k.cmd = "restore"
           /\ k.pc \in {"read", "scan", "sweep"} <=> k.cmd = "prune"
  BY RecordFacts, StageFacts
<1>pc. ASSUME NEW pc, r = [k EXCEPT !.pc = pc]
       PROVE  r.cmd = k.cmd /\ r.running = k.running /\ r.conn = k.conn /\ r.pc = pc
  BY <1>0, <1>pc DEF CliRecords
<1>man. ASSUME NEW pc, NEW m, r = [k EXCEPT !.pc = pc, !.man = m]
        PROVE  r.cmd = k.cmd /\ r.running = k.running /\ r.conn = k.conn /\ r.pc = pc
  BY <1>0, <1>man DEF CliRecords
<1> USE DEF At, Critical
<1>1. CASE RestoreList(p) /\ r = [k EXCEPT !.pc = "open", !.man = manifest]
  BY <1>1, <1>man DEF RestoreList
<1>2. CASE /\ RestoreOpen(p)
           /\ \E s \in k.man : r = [k EXCEPT !.pc = "ping", !.pick = s.mtime, !.open = blobs[s.hash]]
  <2>1. PICK s \in k.man : r = [k EXCEPT !.pc = "ping", !.pick = s.mtime, !.open = blobs[s.hash]]
    BY <1>2
  <2>2. r.pc = "ping" /\ r.cmd = k.cmd /\ r.running = k.running /\ r.conn = k.conn
    BY <1>0, <2>1 DEF CliRecords
  <2> QED
    BY <1>2, <2>2 DEF RestoreOpen
<1>3. CASE CliStat(p) /\ k.cmd # "prune" /\ r = [k EXCEPT !.pc = "hash", !.mtime = target.mtime]
  <2>1. r.pc = "hash" /\ r.cmd = k.cmd /\ r.running = k.running /\ r.conn = k.conn
    BY <1>0, <1>3 DEF CliRecords
  <2> QED
    BY <1>0, <1>3, <2>1 DEF CliStat
<1>4. CASE CliStat(p) /\ k.cmd = "restore" /\ r = [k EXCEPT !.pc = "swap"]
  BY <1>4, <1>pc DEF CliStat
<1>5. ASSUME CliHash(p), NEW pc \in {"ping", "commit", "swap"},
             r = [k EXCEPT !.hash = Hash(target.content), !.pc = pc],
             k.cmd = IF pc = "ping" THEN "backup" ELSE "restore"
      PROVE  /\ r.cmd = k.cmd /\ r.running = k.running /\ r.conn = k.conn /\ k.pc = "hash"
             /\ IF k.cmd = "backup" THEN r.pc = "ping"
                                    ELSE k.cmd = "restore" /\ r.pc \in {"commit", "swap"}
  <2>1. r.pc = pc /\ r.cmd = k.cmd /\ r.running = k.running /\ r.conn = k.conn
    BY <1>0, <1>5 DEF CliRecords
  <2> QED
    BY <1>5, <2>1 DEF CliHash
<1>6. ASSUME CliPing(p), NEW pc \in {"pause", "commit", "stat"},
             r = [k EXCEPT !.running = up, !.pc = pc], up => pc = "pause",
             ~up => IF k.cmd = "backup" THEN pc = "commit" ELSE k.cmd = "restore" /\ pc = "stat"
      PROVE  /\ k.pc = "ping" /\ r.cmd = k.cmd /\ r.running = up /\ r.conn = k.conn
             /\ IF up THEN r.pc = "pause"
                      ELSE r.pc \in {"stat", "commit"} /\ (k.cmd = "backup" => r.pc = "commit")
  <2>1. r.pc = pc /\ r.cmd = k.cmd /\ r.running = up /\ r.conn = k.conn
    BY <1>0, <1>6 DEF CliRecords
  <2> QED
    BY <1>6, <2>1 DEF CliPing
<1>7. ASSUME CliPingLate(p), NEW pc \in {"commit", "stat"}, r = [k EXCEPT !.pc = pc],
             k.cmd = IF pc = "commit" THEN "backup" ELSE "restore"
      PROVE  /\ r.cmd = k.cmd /\ r.running = k.running /\ r.conn = k.conn
             /\ r.pc \in {"stat", "commit"} /\ (k.cmd = "backup" => r.pc = "commit")
  BY <1>7, <1>pc
<1>8. ASSUME CliPause(p), NEW d \in FreeConns, Request(d, "pause"),
             r = [k EXCEPT !.pc = "pausing", !.conn = d]
      PROVE  /\ k.pc = "pause" /\ r.pc = "pausing" /\ r.cmd = k.cmd /\ r.running = k.running
             /\ r.conn \in Clients /\ rpc' = [rpc EXCEPT ![r.conn] = "pause"]
  <2>1. r.pc = "pausing" /\ r.cmd = k.cmd /\ r.running = k.running /\ r.conn = d
    BY <1>0, <1>8 DEF CliRecords
  <2> QED
    BY <1>8, <2>1 DEF CliPause, FreeConns, Request
<1>9. CASE /\ CliPaused(p) /\ rpc[k.conn] = "paused"
           /\ \/ k.cmd = "backup" /\ r = [k EXCEPT !.pc = "commit"]
              \/ k.cmd = "restore" /\ r = [k EXCEPT !.pc = "stat"]
  BY <1>9, <1>pc DEF CliPaused
<1>10. CASE \/ CliCommit(p) /\ (r = [k EXCEPT !.pc = "append"] \/ r = [k EXCEPT !.pc = "copy"])
            \/ CliCopy(p) /\ r = [k EXCEPT !.pc = "append"]
  BY <1>10, <1>pc DEF CliCommit, CliCopy
<1>11. CASE \E m : \/ BackupAppend(p) /\ r = [k EXCEPT !.pc = "save", !.man = m]
                   \/ RestoreAppend(p) /\ r = [k EXCEPT !.pc = "save", !.man = m]
  <2>1. PICK m : r = [k EXCEPT !.pc = "save", !.man = m]
    BY <1>11
  <2>2. k.pc = "append"
    BY <1>11 DEF BackupAppend, RestoreAppend
  <2>3. r.cmd = k.cmd /\ r.running = k.running /\ r.conn = k.conn /\ r.pc = "save"
    BY <1>man, <2>1
  <2> QED
    BY <2>2, <2>3
<1>12. CASE \/ CliSave(p) /\ (r = [k EXCEPT !.pc = "resume"] \/ r = [k EXCEPT !.pc = "swap"])
            \/ RestoreSwap(p) /\ r = [k EXCEPT !.pc = "chtimes"]
            \/ RestoreChtimes(p) /\ r = [k EXCEPT !.pc = "resume"]
  BY <1>12, <1>pc DEF CliSave, RestoreSwap, RestoreChtimes
<1>13. CASE CliResume(p) /\ r = [k EXCEPT !.pc = "resuming"]
  BY <1>13, <1>pc DEF CliResume
<1>14. CASE CliRead(p) /\ r = [k EXCEPT !.pc = "scan", !.man = manifest]
  BY <1>0, <1>14, <1>man DEF CliRead
<1>15. CASE CliScan(p) /\ r = [k EXCEPT !.pc = "sweep", !.doomed = Garbage(k.man)]
  <2>1. r.pc = "sweep" /\ r.cmd = k.cmd /\ r.running = k.running /\ r.conn = k.conn
    BY <1>0, <1>15 DEF CliRecords
  <2> QED
    BY <1>0, <1>15, <2>1 DEF CliScan
<1>16. CASE \E h \in Hashes : CliRemove(p, h) /\ r = [k EXCEPT !.doomed = k.doomed \ {h}]
  <2>1. k.pc = "sweep"
    BY <1>16 DEF CliRemove
  <2>2. r.pc = k.pc /\ r.cmd = k.cmd /\ r.running = k.running /\ r.conn = k.conn
    BY <1>0, <1>16 DEF CliRecords
  <2> QED
    BY <1>0, <2>1, <2>2
<1> QED
  BY <1>1, <1>2, <1>3, <1>4, <1>5, <1>6, <1>7, <1>8, <1>9, <1>10, <1>11, <1>12, <1>13, <1>14,
     <1>15, <1>16 DEF Shape

-----------------------------------------------------------------------------
(* The fence.                                                              *)

\* A command that waits for its pause has a connection; one that calls knows of a
\* daemon, and it does so only after its ping.
Opened(r) ==
  /\ r.pc = "pausing" => r.conn \in Clients
  /\ r.pc \in {"pause", "pausing"} => r.running
  /\ r.running => /\ r.pc \notin {"list", "open", "ping"}
                  /\ r.cmd = "backup" => r.pc \notin {"stat", "hash"}

\* Unless something has crossed them, commands that write keep evaluations out:
\* the daemon is paused in a fence, and idle beside a command without one.
ClosedInv ==
  /\ up \/ ev.pc = "idle"
  /\ paused /\ ~crossed => ev.pc = "idle"
  /\ \A p \in Users :
       /\ Opened(cli[p])
       /\ ~crossed /\ up /\ Closed(p) => paused
       /\ ~crossed /\ Unfenced(p) => ev.pc = "idle"

\* A step of the daemon keeps each fence closed.
LEMMA DaemonClosed ==
  ASSUME FenceInv, ClosedInv, Beside(DaemonStep) \/ Beside(Surroundings)
  PROVE  ClosedInv'
<1>0. /\ cli' = cli /\ rpc \in [Clients -> RpcPcs] /\ up \in BOOLEAN /\ paused \in BOOLEAN
      /\ crossed \in BOOLEAN
      /\ \/ crossed' = TRUE
         \/ /\ ~crossed /\ crossed' = FALSE /\ (paused' /\ ~paused => ev.pc = "idle")
            /\ paused /\ ~paused' /\ up' => \A p \in Users : ~Closed(p)
            /\ up' /\ ~up => \A p \in Users : cli[p].pc = "idle"
            /\ ev'.pc # "idle" => \A p \in Users : ~Unfenced(p)
  BY DEF Beside, FenceInv, FenceTypeOK, TypeOK, Working, At
<1>1. (up \/ ev.pc = "idle")' /\ (paused /\ ~crossed => ev.pc = "idle")'
  <2>1. CASE EvRun \/ EvFail
    BY <1>0, <2>1, EvMoves DEF ClosedInv
  <2>2. ASSUME NEW c \in Clients, HandlerRun(c) \/ HandlerFail(c)
        PROVE  (up \/ ev.pc = "idle")' /\ (paused /\ ~crossed => ev.pc = "idle")'
    BY <1>0, <2>2, HandlerMoves DEF ClosedInv
  <2>3. CASE Surroundings
    BY <1>0, <2>3, AroundMoves DEF ClosedInv
  <2> QED
    BY <2>1, <2>2, <2>3 DEF Beside, DaemonStep
<1>2. ASSUME NEW p \in Users
      PROVE  /\ Opened(cli[p])'
             /\ (~crossed /\ Unfenced(p) => ev.pc = "idle")'
  BY <1>0 DEF ClosedInv, Opened, Unfenced
<1>3. ASSUME NEW p \in Users, ~crossed', up', Closed(p)'
      PROVE  paused'
  <2>1. /\ Opened(cli[p]) /\ (~crossed /\ up /\ Closed(p) => paused)
        /\ At(p, "pausing") => cli[p].conn \in Clients
    BY DEF ClosedInv, Opened, At
  <2>2. ASSUME up, ~At(p, "pausing") \/ rpc'[cli[p].conn] # "paused" \/ rpc[cli[p].conn] = "paused"
        PROVE  paused'
    <3>1. Closed(p)
      BY <1>0, <1>3, <2>2 DEF Closed, Fenced, At
    <3> QED
      BY <1>0, <1>3, <2>1, <2>2, <3>1
  <2>3. up
    BY <1>0, <1>3 DEF Closed, Fenced, Critical, At
  <2>4. CASE EvRun \/ EvFail
    BY <2>2, <2>3, <2>4, EvMoves
  <2>5. ASSUME NEW c \in Clients, HandlerRun(c) \/ HandlerFail(c)
        PROVE  paused'
    <3>1. PICK q : rpc' = [rpc EXCEPT ![c] = q] /\ (q = "paused" => paused' = TRUE)
      BY <2>5, HandlerMoves
    <3>2. CASE At(p, "pausing") /\ cli[p].conn = c /\ q = "paused"
      BY <3>1, <3>2
    <3>3. CASE ~(At(p, "pausing") /\ cli[p].conn = c /\ q = "paused")
      BY <1>0, <2>1, <2>2, <2>3, <3>1, <3>3
    <3> QED
      BY <3>2, <3>3
  <2>6. CASE Surroundings
    BY <1>3, <2>2, <2>3, <2>6, AroundMoves
  <2> QED
    BY <2>4, <2>5, <2>6 DEF Beside, DaemonStep
<1> QED
  BY <1>1, <1>2, <1>3 DEF ClosedInv

\* So does a step of a command.
LEMMA CliClosed ==
  ASSUME FenceInv, ClosedInv, NEW p \in Users, CliStep(p)
  PROVE  ClosedInv'
<1> DEFINE k == cli[p]
<1>0. /\ k \in CliRecords /\ Staged(k) /\ Opened(k) /\ rpc \in [Clients -> RpcPcs]
      /\ cli \in [Users -> CliRecords] /\ up \in BOOLEAN
      /\ UNCHANGED <<up, paused, ev>> /\ (crossed => crossed') /\ crossed' \in BOOLEAN
      /\ up \/ ev.pc = "idle"
      /\ ~crossed /\ up /\ Closed(p) => paused
      /\ ~crossed /\ Unfenced(p) => ev.pc = "idle"
  BY Leaves, CliSteps DEF FenceInv, FenceTypeOK, TypeOK, ClosedInv, StepOK
<1>1. \A d \in Clients : rpc'[d] = "paused" => rpc[d] = "paused"
  BY <1>0, Leaves
<1>done. ASSUME NEW r, Becomes(p, r), Opened(r),
                ~crossed' /\ up /\ r.running /\ r.pc \in Critical \cup {"resume"} => paused,
                r.pc = "pausing" => rpc'[r.conn] # "paused",
                ~crossed' /\ (\/ r.cmd = "prune"
                              \/ /\ ~r.running /\ r.pc \in Critical
                                 /\ r.cmd = "backup" => r.pc \notin {"stat", "hash"})
                  => ev.pc = "idle"
         PROVE  ClosedInv'
  <2>1. cli'[p] = r /\ \A q \in Users \ {p} : cli'[q] = cli[q]
    BY <1>0, <1>done DEF Becomes
  <2>2. /\ Opened(cli[p])'
        /\ (~crossed /\ up /\ Closed(p) => paused)'
        /\ (~crossed /\ Unfenced(p) => ev.pc = "idle")'
    BY <1>0, <1>done, <2>1 DEF Opened, Closed, Fenced, Unfenced, At
  <2>3. ASSUME NEW q \in Users, q # p
        PROVE  /\ Opened(cli[q])'
               /\ (~crossed /\ up /\ Closed(q) => paused)'
               /\ (~crossed /\ Unfenced(q) => ev.pc = "idle")'
    <3>1. /\ Opened(cli[q])
          /\ ~crossed /\ up /\ Closed(q) => paused
          /\ ~crossed /\ Unfenced(q) => ev.pc = "idle"
          /\ At(q, "pausing") => cli[q].conn \in Clients
      BY DEF ClosedInv, Opened, At
    <3>2. cli'[q] = cli[q]
      BY <2>1, <2>3
    <3>3. Closed(q)' => Closed(q)
      BY <1>1, <3>1, <3>2 DEF Closed, Fenced, At
    <3>4. Unfenced(q)' => Unfenced(q)
      BY <3>2 DEF Unfenced
    <3> QED
      BY <1>0, <3>1, <3>2, <3>3, <3>4 DEF Opened
  <2> QED
    BY <1>0, <2>2, <2>3 DEF ClosedInv
<1>end. Becomes(p, IdleCli) => ClosedInv'
  <2>1. IdleCli.pc = "idle" /\ IdleCli.cmd = "none" /\ ~IdleCli.running
    BY DEF IdleCli
  <2> QED
    BY <1>done, <2>1 DEF Opened, Critical
<1>2. CASE \E c \in Commands : Begin(p, c)
  <2>1. PICK c \in Commands : Begin(p, c)
    BY <1>2
  <2> DEFINE r == [IdleCli EXCEPT !.cmd = c, !.pc = First[c]]
  <2>2. Becomes(p, r) /\ (c = "prune" /\ ev.pc # "idle" => crossed')
    BY <2>1 DEF Begin
  <2>3. r.running = FALSE /\ r.cmd = c /\ r.pc = First[c]
    BY DEF IdleCli
  <2>4. r.pc \in {"stat", "list", "read"} /\ (r.pc = "stat" => r.cmd = "backup")
    BY <2>3, CommandAssumption DEF First
  <2> HIDE DEF r
  <2> QED
    BY <1>done, <2>2, <2>3, <2>4 DEF Opened, Critical
<1>3. CASE CliFail(p)
  BY <1>3, <1>end DEF CliFail
<1>4. CASE CliRun(p) \/ CliPingLate(p)
  <2>1. PICK r : Becomes(p, r) /\ Shape(p, k, r)
    BY <1>4, Shapes
  <2>2. CASE r = IdleCli
    BY <1>end, <2>1, <2>2
  <2>3. CASE /\ r.cmd = k.cmd /\ r.running = k.running /\ r.conn = k.conn
             /\ \/ k.pc \in {"list", "open"} /\ r.pc \in {"open", "ping"}
                \/ k.pc \in {"stat", "hash"} /\ k.cmd = "backup" /\ r.pc \in {"hash", "ping"}
                \/ k.pc = "resume" /\ r.pc = "resuming"
                \/ k.cmd = "prune" /\ r.pc \in {"scan", "sweep"}
    <3>1. k.cmd = "prune" => Unfenced(p)
      BY DEF Unfenced
    <3>2. k.pc = "resume" => k.cmd # "prune"
      BY <1>0, StageFacts
    <3>3. k.pc \in {"list", "open", "stat", "hash"} => k.cmd # "prune"
      BY <1>0, StageFacts
    <3> HIDE DEF k
    <3> QED
      BY <1>0, <1>done, <2>1, <2>3, <3>1, <3>2, <3>3 DEF Opened, Critical
  <2>4. CASE /\ r.cmd = k.cmd /\ r.running = k.running
             /\ k.pc \in Critical /\ r.pc \in Critical \cup {"resume"}
             /\ k.cmd = "restore" \/ k.pc \notin {"stat", "hash"}
             /\ k.cmd = "restore" \/ r.pc \notin {"stat", "hash"}
    <3>1. k.cmd # "prune"
      BY <1>0, <2>4, StageFacts DEF Critical
    <3>2. IF k.running THEN Closed(p) ELSE Unfenced(p)
      BY <2>4 DEF Closed, Fenced, Unfenced
    <3> HIDE DEF k
    <3> QED
      BY <1>0, <1>done, <2>1, <2>4, <3>1, <3>2 DEF Opened, Critical
  <2>5. CASE /\ r.cmd = k.cmd /\ r.running = k.running
             /\ k.pc = "pausing" /\ rpc[k.conn] = "paused" /\ r.pc \in {"stat", "commit"}
             /\ k.cmd = "backup" => r.pc = "commit"
    <3>1. k.cmd # "prune" /\ k.running
      BY <1>0, <2>5, StageFacts DEF Opened
    <3>2. Closed(p)
      BY <2>5 DEF Closed, At
    <3> HIDE DEF k
    <3> QED
      BY <1>0, <1>done, <2>1, <2>5, <3>1, <3>2 DEF Opened, Critical
  <2>6. CASE /\ r.cmd = k.cmd /\ r.running = k.running /\ CliPingLate(p)
             /\ r.pc \in {"stat", "commit"} /\ (k.cmd = "backup" => r.pc = "commit")
    <3>1. k.pc = "ping" /\ (ev.pc = "idle" \/ crossed')
      BY <2>6 DEF CliPingLate, At
    <3>2. ~k.running
      BY <1>0, <3>1 DEF Opened
    <3> HIDE DEF k
    <3> QED
      BY <1>0, <1>done, <2>1, <2>6, <3>1, <3>2 DEF Opened, Critical
  <2>7. CASE /\ k.pc = "ping" /\ r.cmd = k.cmd /\ r.running = up
             /\ IF up THEN r.pc = "pause"
                      ELSE r.pc \in {"stat", "commit"} /\ (k.cmd = "backup" => r.pc = "commit")
    <3>1. k.cmd # "prune"
      BY <1>0, <2>7, StageFacts
    <3> HIDE DEF k
    <3> QED
      BY <1>0, <1>done, <2>1, <2>7, <3>1 DEF Opened, Critical
  <2>8. CASE /\ k.pc = "pause" /\ r.pc = "pausing" /\ r.cmd = k.cmd /\ r.running = k.running
             /\ r.conn \in Clients /\ rpc' = [rpc EXCEPT ![r.conn] = "pause"]
    <3>1. k.cmd # "prune" /\ k.running
      BY <1>0, <2>8, StageFacts DEF Opened
    <3>2. rpc'[r.conn] # "paused"
      BY <1>0, <2>8
    <3> HIDE DEF k
    <3> QED
      BY <1>0, <1>done, <2>1, <2>8, <3>1, <3>2 DEF Opened, Critical
  <2> QED
    BY <2>1, <2>2, <2>3, <2>4, <2>5, <2>6, <2>7, <2>8, Moves
<1> QED
  BY <1>2, <1>3, <1>4 DEF CliStep

LEMMA ClosedInitially == FenceInit => ClosedInv
BY DEF FenceInit, Init, ClosedInv, Opened, Unfenced, Closed, Fenced, Critical, IdleEv, IdleCli, At

LEMMA ClosedStep == FenceInv /\ ClosedInv /\ [FenceNext]_fvars => ClosedInv'
<1> SUFFICES ASSUME FenceInv, ClosedInv, [FenceNext]_fvars PROVE ClosedInv'
  OBVIOUS
<1>1. CASE Beside(DaemonStep) \/ Beside(Surroundings)
  BY <1>1, DaemonClosed
<1>2. ASSUME NEW p \in Users, CliStep(p)
      PROVE  ClosedInv'
  BY <1>2, CliClosed
<1>3. CASE UNCHANGED fvars
  BY <1>3 DEF fvars, cliVars, vars, daemon, handlers, ClosedInv, Opened, Unfenced, Closed,
              Fenced, At
<1> QED
  BY <1>1, <1>2, <1>3 DEF FenceNext, FenceRest, Rest, fvars, CliStep

\* "The CLI is the sole manifest/data writer" (restore.go:72) between its pause and
\* its resume, for any number of commands at a time, however they and the daemon
\* fail, as long as no evaluation was under way when a fence was closed or while an
\* unfenced command ran, no resume but its own opens it, and no daemon has started
\* since the command did: Evaluate returns at once while it is paused.
THEOREM FenceKeepsOut == FenceSpec => []SoleWriterIfClear
<1>1. FenceInv /\ ClosedInv => SoleWriterIfClear
  <2> SUFFICES ASSUME FenceInv, ClosedInv, ~crossed, NEW p \in Users, Fenced(p)
               PROVE  ev.pc = "idle"
    BY DEF SoleWriterIfClear
  <2>1. up => paused
    BY DEF ClosedInv, Closed
  <2> QED
    BY <2>1 DEF ClosedInv
<1> QED
  BY <1>1, FenceInitially, FenceStep, ClosedInitially, ClosedStep, PTL DEF FenceSpec

\* A step inside the fence, or what would be the fence if a daemon ran.
Inside(r) == r.pc \in Critical /\ (r.cmd = "backup" => r.pc \notin {"stat", "hash"})

\* So no evaluation is under way while a command writes.
LEMMA InsideIdle ==
  ASSUME FenceInv, ClosedInv, ~crossed, NEW p \in Users,
         Inside(cli[p]) \/ cli[p].cmd = "prune"
  PROVE  ev.pc = "idle"
<1>1. CASE Unfenced(p)
  BY <1>1 DEF ClosedInv
<1>2. CASE Fenced(p)
  BY <1>2 DEF ClosedInv, Closed
<1>3. Unfenced(p) \/ Fenced(p)
  BY DEF Unfenced, Fenced, Inside, FenceInv, FenceTypeOK, CliRecords
<1> QED
  BY <1>1, <1>2, <1>3

\* Where nothing has failed, no step has.
LEMMA FaultsGrow ==
  ASSUME FenceInv, faults' = 0
  PROVE  /\ DaemonStep \/ Surroundings =>
              faults = 0 /\ ~EvFail /\ ~Exit /\ \A p \in Clients : ~HandlerFail(p)
         /\ \A p \in Users : CliStep(p) => faults = 0 /\ ~CliFail(p) /\ ~CliPingLate(p)
<1>0. faults \in Nat /\ ~Fault
  BY DEF FenceInv, FenceTypeOK, TypeOK, Fault
<1>1. /\ ~EvFail /\ ~Exit /\ \A p \in Clients : ~HandlerFail(p)
      /\ \A p \in Users : ~CliFail(p) /\ ~CliPingLate(p)
  BY <1>0
  DEF EvFail, EvDrop, EvIOError, EvGcError, Exit, HandlerFail, ResumeError, PruneError, CliFail,
      CliPingLate
<1>2. EvRun => faults = 0
  BY <1>0 DEF EvRun, EvStart, EvStat, EvGate, EvHash, EvDedup, EvCommit, EvCopy, EvLoad, EvSave,
              EvScan, EvRemove, EvTrim, bounds
<1>3. ASSUME NEW p \in Clients, HandlerRun(p)
      PROVE  faults = 0
  BY <1>3 DEF HandlerRun, Pause, ResumeLock, ResumeStat, ResumeHash, PruneLoad, PruneScan,
              PruneRemove, PruneTrim
<1>4. Surroundings => faults = 0
  BY <1>0, <1>1 DEF Surroundings, Save, FsEvent, Tick, Start, bounds
<1>5. ASSUME NEW p \in Users, CliRun(p) \/ \E c \in Commands : Begin(p, c)
      PROVE  faults = 0
  <2>1. CASE \/ RestoreList(p) \/ RestoreOpen(p) \/ CliStat(p) \/ CliHash(p) \/ CliPing(p)
             \/ CliPaused(p) \/ CliCommit(p) \/ CliCopy(p) \/ BackupAppend(p) \/ RestoreAppend(p)
             \/ CliSave(p) \/ RestoreSwap(p) \/ RestoreChtimes(p) \/ CliResumed(p) \/ CliRead(p)
             \/ CliScan(p) \/ (\E h \in Hashes : CliRemove(p, h)) \/ CliTrim(p)
    BY <1>0, <2>1
    DEF RestoreList, RestoreOpen, CliStat, CliHash, CliPing, CliPaused, CliCommit, CliCopy,
        BackupAppend, RestoreAppend, CliSave, RestoreSwap, RestoreChtimes, CliResumed, CliRead,
        CliScan, CliRemove, CliTrim
  <2>2. CASE CliPause(p) \/ CliResume(p) \/ \E c \in Commands : Begin(p, c)
    BY <2>2 DEF CliPause, CliResume, Begin, Request, vars, bounds
  <2> QED
    BY <1>5, <2>1, <2>2 DEF CliRun
<1> QED
  BY <1>1, <1>2, <1>3, <1>4, <1>5 DEF DaemonStep, CliStep

-----------------------------------------------------------------------------
(* What a command relies on inside its fence.                              *)

Restoring == \E p \in Users : cli[p].cmd = "restore"

ReadPcs == {"open", "ping", "pause", "pausing", "stat", "hash", "commit", "copy", "append"}

Restorable(m) == \A s \in Kept(m) : HasBlob(s.hash)

EarlyPcs == {"list", "open", "ping", "pause", "pausing", "stat", "hash"}

\* The manifest a restore has read is still part of the one on disk; what it is
\* going to overwrite, if it could look at it, is in the one it is going to save.
\* The blob of an entry is there before the entry is, and the blobs a prune removes
\* are those it has to.
Holds(r) ==
  /\ r.cmd = "restore" /\ r.pc \in ReadPcs => r.man \subseteq manifest /\ Restorable(r.man)
  /\ r.cmd = "restore" /\ r.pc = "save" => r.hash \in HashSet(r.man)
  /\ r.cmd = "restore" /\ r.pc \in EarlyPcs => r.hash = NoHash
  /\ r.pc = "swap" => r.hash \in HashSet(manifest) \/ (r.hash = NoHash /\ faults # 0)
  /\ r.pc = "append" => HasBlob(r.hash)
  /\ r.pc = "save" => Restorable(r.man)
  /\ r.pc \in {"scan", "sweep"} => r.man = manifest
  /\ r.pc = "sweep" => r.doomed \cap HashSet(Kept(manifest)) = {}

ClearInv ==
  /\ ClosedInv /\ NoPrune /\ MutexInv
  /\ ~crossed => PipelineInv /\ NewestRestorable /\ \A p \in Users : Holds(cli[p])

\* An entry whose blob is there may be added to a manifest.
LEMMA RestorableAppend ==
  ASSUME NEW m, IsFiniteSet(m), Restorable(m), NEW e, HasBlob(e.hash)
  PROVE  Restorable(m \cup {e})
<1> SUFFICES ASSUME NEW s \in Kept(m \cup {e}) PROVE HasBlob(s.hash)
  BY DEF Restorable
<1>1. IsFiniteSet(m \cup {e})
  BY FS_AddElement
<1>2. s \in m \cup {e}
  BY <1>1, KeptSubset
<1>3. CASE s \in m
  <2>1. s \in Kept(m)
    BY <1>1, <1>3, KeptMonotone
  <2> QED
    BY <2>1 DEF Restorable
<1> QED
  BY <1>2, <1>3

\* Only an evaluation writes the stores, and until it collects they only grow.
LEMMA StoreMoves ==
  ASSUME FenceInv, NoPrune, DaemonStep \/ Surroundings
  PROVE  \/ UNCHANGED stores
         \/ /\ ev.pc = "copy" /\ manifest' = manifest
            /\ \A h \in Hashes : blobs[h] # NoContent => blobs'[h] # NoContent
         \/ EvSave /\ blobs' = blobs /\ manifest' = ev.man
         \/ ev.pc = "sweep" /\ \E h \in ev.doomed : EvRemove(h) /\ manifest' = manifest
         \/ EvTrim /\ ev.pc = "sweep" /\ blobs' = blobs /\ manifest' = Kept(ev.man)
<1>1. CASE Surroundings
  BY <1>1 DEF Surroundings, Save, FsEvent, Tick, Exit, Start
<1>2. ASSUME NEW p \in Clients, HandlerRun(p) \/ HandlerFail(p)
      PROVE  UNCHANGED stores
  <2>1. rpc[p] \notin {"prune", "pscan", "psweep"}
    BY DEF NoPrune
  <2> QED
    BY <1>2, <2>1 DEF HandlerRun, HandlerFail, Pause, ResumeLock, ResumeStat, ResumeHash,
         ResumeError, PruneLoad, PruneScan, PruneRemove, PruneTrim, PruneError
<1>3. CASE EvCopy
  <2>1. blobs \in [Hashes -> Contents \cup {NoContent}] /\ target.content \in Contents
    BY DEF FenceInv, FenceTypeOK, TypeOK
  <2>2. blobs' = [blobs EXCEPT ![ev.hash] = target.content]
    BY <1>3 DEF EvCopy
  <2>3. \A h \in Hashes : blobs[h] # NoContent => blobs'[h] # NoContent
    BY <2>1, <2>2, ContentAssumption
  <2> QED
    BY <1>3, <2>3 DEF EvCopy
<1>4. CASE EvSave \/ EvTrim \/ \E h \in Hashes : EvRemove(h)
  BY <1>4 DEF EvSave, EvTrim, EvRemove
<1>5. CASE \/ EvStart \/ EvStat \/ EvGate \/ EvHash \/ EvDedup \/ EvCommit \/ EvLoad \/ EvScan
           \/ EvFail
  BY <1>5 DEF EvStart, EvStat, EvGate, EvHash, EvDedup, EvCommit, EvLoad, EvScan, EvFail,
              EvDrop, EvIOError, EvGcError
<1> QED
  BY <1>1, <1>2, <1>3, <1>4, <1>5 DEF DaemonStep, EvRun

\* A step of the daemon keeps what a command relies on.
LEMMA DaemonClear ==
  ASSUME \A p, q \in Users : p = q, FenceInv, ClearInv, Restoring => ~Collects,
         Beside(DaemonStep) \/ Beside(Surroundings)
  PROVE  ClearInv'
<1>0. /\ (DaemonStep \/ Surroundings) /\ cli' = cli /\ (~crossed' => ~crossed)
      /\ faults # 0 => faults' # 0
  BY FaultsGrow DEF Beside
<1>1. ClosedInv' /\ NoPrune' /\ MutexInv'
  BY <1>0, DaemonClosed, NoPruneBeside, MutexStep
  DEF ClearInv, FenceInv, FenceTypeOK, Next
<1> SUFFICES ASSUME ~crossed'
             PROVE  PipelineInv' /\ NewestRestorable' /\ \A p \in Users : Holds(cli[p])'
  BY <1>1 DEF ClearInv
<1>2. StoreInv /\ TypeOK
  BY <1>0 DEF ClearInv, StoreInv, FenceInv, FenceTypeOK
<1>3. PipelineInv' /\ NewestRestorable'
  BY <1>0, <1>2, PipelineStep DEF Next
<1>4. ASSUME NEW p \in Users
      PROVE  Holds(cli[p])'
  <2> DEFINE k == cli[p]
  <2>0. /\ k \in CliRecords /\ Staged(k) /\ Holds(k) /\ IsFiniteSet(k.man)
        /\ k.man \in SUBSET Snapshot
        /\ Inside(k) \/ k.cmd = "prune" => ev.pc = "idle"
    BY <1>0, InsideIdle, RecordFacts DEF ClearInv
  <2>1. CASE UNCHANGED stores
    <3>1. Kept(manifest)' = Kept(manifest)
      BY <2>1 DEF stores, Kept, Newer
    <3> QED
      BY <1>0, <2>0, <2>1, <3>1 DEF Holds, Restorable, HasBlob, HashSet, Kept, Newer, stores
  <2>2. CASE ev.pc # "idle" /\ ~Inside(k) /\ k.cmd # "prune"
    <3>1. k.pc \notin {"append", "save", "swap", "scan", "sweep"}
      BY <2>0, <2>2, StageFacts DEF Inside, Critical
    <3>2. CASE k.cmd = "restore" /\ k.pc \in ReadPcs
      <4>1. ~Collects /\ k.man \subseteq manifest /\ Restorable(k.man)
        BY <2>0, <3>2 DEF Restoring, Holds
      <4>2. /\ manifest \subseteq manifest'
            /\ \A h \in Hashes : blobs[h] # NoContent => blobs'[h] # NoContent
        BY <1>0, <1>2, <4>1, StoreMoves
        DEF Collects, StoreInv, PipelineInv, EvSave, EvTrim, stores
      <4>3. \A s \in Kept(k.man) : s.hash \in Hashes
        BY <2>0, KeptSubset DEF Snapshot
      <4>4. \A s \in Kept(k.man) : blobs'[s.hash] # NoContent
        BY <4>1, <4>2, <4>3 DEF Restorable, HasBlob
      <4> QED
        BY <1>0, <2>0, <3>1, <4>1, <4>2, <4>4 DEF Holds, Restorable, HasBlob, Kept, Newer
    <3>3. CASE ~(k.cmd = "restore" /\ k.pc \in ReadPcs)
      BY <1>0, <2>0, <3>1, <3>3 DEF Holds
    <3> QED
      BY <3>2, <3>3
  <2>3. ev.pc = "idle" => UNCHANGED stores
    BY <1>0, <1>2, StoreMoves DEF StoreInv, EvSave
  <2> QED
    BY <2>0, <2>1, <2>2, <2>3
<1> QED
  BY <1>3, <1>4

\* A step of a command that leaves the stores alone.
LEMMA ReadingClear ==
  ASSUME FenceInv, ClearInv, ~crossed, NEW p \in Users, NEW r,
         Shape(p, cli[p], r), UNCHANGED <<stores, ev>>, faults # 0 => faults' # 0,
         ~CliCopy(p), ~CliSave(p), \A h \in Hashes : ~CliRemove(p, h)
  PROVE  Holds(r)'
<1> DEFINE k == cli[p]
<1>0. /\ k \in CliRecords /\ Staged(k) /\ Holds(k) /\ IsFiniteSet(k.man) /\ NewestRestorable
      /\ IsFiniteSet(manifest)
  BY RecordFacts DEF ClearInv
<1>missed. CASE CliStat(p) /\ k.cmd = "restore" /\ Fault /\ r = [k EXCEPT !.pc = "swap"]
  <2>1. r.pc = "swap" /\ r.hash = NoHash
    BY <1>0, <1>missed DEF CliRecords, CliStat, At, Holds, EarlyPcs
  <2>2. faults' # 0
    BY <1>missed DEF Fault, FenceInv, FenceTypeOK, TypeOK
  <2> QED
    BY <2>1, <2>2 DEF Holds, ReadPcs, EarlyPcs
<1>same. ASSUME Holds(r) PROVE Holds(r)'
  <2>1. Kept(manifest)' = Kept(manifest)
    BY DEF stores, Kept, Newer
  <2> QED
    BY <1>same, <2>1 DEF Holds, Restorable, HasBlob, HashSet, Kept, Newer, stores
<1> SUFFICES ASSUME ~(CliStat(p) /\ k.cmd = "restore" /\ Fault /\ r = [k EXCEPT !.pc = "swap"])
             PROVE  Holds(r)
  BY <1>same, <1>missed
<1> USE DEF CliRecords, At, ReadPcs, EarlyPcs
<1>1. CASE r = IdleCli
  BY <1>1 DEF Holds, IdleCli
<1>2. CASE RestoreList(p) /\ r = [k EXCEPT !.pc = "open", !.man = manifest]
  BY <1>0, <1>2, StageFacts DEF Holds, NewestRestorable, Restorable, RestoreList
\* A restore goes on as it was, or its hash is of no interest yet.
<1>on. ASSUME r.cmd = k.cmd, r.man = k.man,
              r.pc \in {"ping", "hash", "pause", "commit", "stat", "pausing", "copy"},
              k.pc \in ReadPcs \/ k.cmd = "backup",
              k.cmd = "backup" \/ r.pc \notin EarlyPcs \/ (k.pc \in EarlyPcs /\ r.hash = k.hash)
       PROVE  Holds(r)
  BY <1>0, <1>on DEF Holds
<1>3. CASE /\ RestoreOpen(p)
           /\ \E s \in k.man : r = [k EXCEPT !.pc = "ping", !.pick = s.mtime, !.open = blobs[s.hash]]
  BY <1>0, <1>on, <1>3 DEF RestoreOpen
<1>4. CASE CliStat(p) /\ r = [k EXCEPT !.pc = "hash", !.mtime = target.mtime]
  BY <1>0, <1>on, <1>4 DEF CliStat
<1>5. ASSUME CliHash(p), NEW pc \in {"ping", "commit", "swap"},
             r = [k EXCEPT !.hash = Hash(target.content), !.pc = pc],
             k.cmd = IF pc = "ping" THEN "backup" ELSE "restore",
             pc = "swap" => Hash(target.content) \in HashSet(k.man)
      PROVE  Holds(r)
  <2>1. /\ k.pc = "hash" /\ r.cmd = k.cmd /\ r.man = k.man /\ r.pc = pc
        /\ r.hash = Hash(target.content)
    BY <1>0, <1>5 DEF CliHash
  <2>2. CASE pc = "swap"
    <3>1. k.man \subseteq manifest
      BY <1>0, <1>5, <2>1, <2>2 DEF Holds
    <3>2. r.hash \in HashSet(manifest)
      BY <1>5, <2>1, <2>2, <3>1 DEF HashSet
    <3> QED
      BY <2>1, <2>2, <3>2 DEF Holds
  <2> QED
    BY <1>5, <1>on, <2>1, <2>2
<1>6. ASSUME CliPing(p), NEW pc \in {"pause", "commit", "stat"},
             r = [k EXCEPT !.running = up, !.pc = pc]
      PROVE  Holds(r)
  BY <1>0, <1>on, <1>6 DEF CliPing
<1>14. ASSUME CliPause(p), NEW d, r = [k EXCEPT !.pc = "pausing", !.conn = d]
       PROVE  Holds(r)
  BY <1>0, <1>on, <1>14 DEF CliPause
<1>15. ASSUME CliPingLate(p), NEW pc \in {"commit", "stat"}, r = [k EXCEPT !.pc = pc],
              k.cmd = IF pc = "commit" THEN "backup" ELSE "restore"
       PROVE  Holds(r)
  BY <1>0, <1>on, <1>15 DEF CliPingLate
<1>7. CASE \/ CliPaused(p) /\ (r = [k EXCEPT !.pc = "commit"] \/ r = [k EXCEPT !.pc = "stat"])
           \/ CliCommit(p) /\ r = [k EXCEPT !.pc = "copy"]
  BY <1>0, <1>on, <1>7 DEF CliPaused, CliCommit
<1>8. CASE CliCommit(p) /\ HasBlob(k.hash) /\ r = [k EXCEPT !.pc = "append"]
  BY <1>0, <1>8 DEF Holds, CliCommit
<1>9. CASE BackupAppend(p) /\ r = [k EXCEPT !.pc = "save", !.man = manifest \cup {Entry(p, "Manual Backup")}]
  <2> DEFINE e == Entry(p, "Manual Backup")
  <2>1. k.pc = "append" /\ k.cmd = "backup" /\ e.hash = k.hash
    BY <1>9 DEF BackupAppend, Entry
  <2>2. Restorable(manifest \cup {e})
    BY <1>0, <2>1, RestorableAppend DEF Holds, Restorable, NewestRestorable
  <2> HIDE DEF e
  <2>3. r.pc = "save" /\ r.cmd = "backup" /\ r.man = manifest \cup {e}
    BY <1>0, <1>9, <2>1 DEF e
  <2> QED
    BY <2>2, <2>3 DEF Holds
<1>10. CASE /\ RestoreAppend(p)
            /\ r = [k EXCEPT !.pc = "save", !.man = k.man \cup {Entry(p, "pre-restore backup")}]
  <2> DEFINE e == Entry(p, "pre-restore backup")
  <2>1. k.pc = "append" /\ k.cmd = "restore" /\ e.hash = k.hash
    BY <1>10 DEF RestoreAppend, Entry
  <2>2. Restorable(k.man \cup {e})
    BY <1>0, <2>1, RestorableAppend DEF Holds
  <2> HIDE DEF e
  <2>3. r.pc = "save" /\ r.hash = k.hash /\ r.man = k.man \cup {e}
    BY <1>0, <1>10 DEF e
  <2>4. r.hash \in HashSet(r.man)
    BY <2>1, <2>3 DEF HashSet
  <2> QED
    BY <2>2, <2>3, <2>4 DEF Holds
<1>11. CASE r = [k EXCEPT !.pc = "chtimes"] \/ r = [k EXCEPT !.pc = "resume"] \/ r = [k EXCEPT !.pc = "resuming"]
  BY <1>0, <1>11 DEF Holds
<1>12. CASE CliRead(p) /\ r = [k EXCEPT !.pc = "scan", !.man = manifest]
  BY <1>0, <1>12 DEF Holds
<1>13. CASE CliScan(p) /\ r = [k EXCEPT !.pc = "sweep", !.doomed = Garbage(k.man)]
  <2>1. k.pc = "scan" /\ k.man = manifest
    BY <1>0, <1>13 DEF CliScan, Holds
  <2>2. Garbage(k.man) \cap HashSet(Kept(manifest)) = {}
    BY <2>1 DEF Garbage
  <2>3. r.pc = "sweep" /\ r.man = k.man /\ r.doomed = Garbage(k.man)
    BY <1>0, <1>13
  <2> QED
    BY <2>1, <2>2, <2>3 DEF Holds
<1> QED
  BY <1>1, <1>2, <1>3, <1>4, <1>5, <1>6, <1>7, <1>8, <1>9, <1>10, <1>11, <1>12, <1>13,
     <1>14, <1>15 DEF Shape

\* A step of a command keeps what it and the daemon rely on.
LEMMA CliClear ==
  ASSUME \A p, q \in Users : p = q, FenceInv, ClearInv, NEW p \in Users,
         CliStep(p)
  PROVE  ClearInv'
<1> DEFINE k == cli[p]
<1>1. ClosedInv' /\ NoPrune' /\ MutexInv'
  <2>1. ClosedInv'
    BY CliClosed DEF ClearInv
  <2>2. /\ mu' = mu /\ ev' = ev /\ rpc \in [Clients -> RpcPcs]
        /\ \/ rpc' = rpc
           \/ \E d \in Clients, c \in {"pause", "resume"} :
                rpc[d] \in Replies /\ rpc' = [rpc EXCEPT ![d] = c]
    BY Leaves DEF FenceInv, FenceTypeOK, TypeOK
  <2>3. NoPrune'
    BY <2>2 DEF ClearInv, NoPrune
  <2>4. MutexInv'
    BY <2>2 DEF ClearInv, MutexInv, Replies
  <2> QED
    BY <2>1, <2>3, <2>4
<1> SUFFICES ASSUME ~crossed'
             PROVE  PipelineInv' /\ NewestRestorable' /\ \A q \in Users : Holds(cli[q])'
  BY <1>1 DEF ClearInv
<1>0. /\ ~crossed /\ ev' = ev /\ Holds(k) /\ PipelineInv /\ NewestRestorable
      /\ k \in CliRecords /\ Staged(k) /\ cli \in [Users -> CliRecords]
      /\ k.man \in SUBSET Snapshot /\ IsFiniteSet(k.man)
      /\ manifest \in SUBSET Snapshot /\ IsFiniteSet(manifest)
      /\ blobs \in [Hashes -> Contents \cup {NoContent}]
      /\ Inside(k) \/ k.cmd = "prune" => ev.pc = "idle"
      /\ faults # 0 => faults' # 0
  BY Leaves, InsideIdle, RecordFacts, FaultsGrow DEF ClearInv, FenceInv, FenceTypeOK
<1>done. ASSUME NEW r, Becomes(p, r), Holds(r)', NewestRestorable', PipelineInv'
         PROVE  PipelineInv' /\ NewestRestorable' /\ \A q \in Users : Holds(cli[q])'
  <2>1. cli'[p] = r
    BY <1>0, <1>done DEF Becomes
  <2>2. Holds(cli[p])'
    BY <1>done, <2>1 DEF Holds
  <2> QED
    BY <1>done, <2>2
<1>calm. ASSUME UNCHANGED stores
         PROVE  PipelineInv' /\ NewestRestorable'
  <2>1. Kept(manifest)' = Kept(manifest)
    BY <1>calm DEF stores, Kept, Newer
  <2> QED
    BY <1>0, <1>calm, <2>1 DEF PipelineInv, NewestRestorable, AutoSnapshot, HasBlob, HashSet, stores
<1>idle. ASSUME ev.pc = "idle" PROVE PipelineInv'
  BY <1>0, <1>idle DEF PipelineInv
<1>end. Holds(IdleCli)'
  BY DEF Holds, IdleCli
<1>2. CASE CliFail(p)
  BY <1>2, <1>done, <1>calm, <1>end DEF CliFail
<1>3. ASSUME NEW c \in Commands, Begin(p, c)
      PROVE  PipelineInv' /\ NewestRestorable' /\ \A q \in Users : Holds(cli[q])'
  <2> DEFINE r == [IdleCli EXCEPT !.cmd = c, !.pc = First[c]]
  <2>1. Becomes(p, r) /\ UNCHANGED stores
    BY <1>3 DEF Begin, vars
  <2>2. /\ r.pc \in {"stat", "list", "read"} /\ (r.pc = "stat" => r.cmd = "backup")
        /\ r.hash = NoHash
    BY CommandAssumption DEF First, IdleCli
  <2> HIDE DEF r
  <2>3. Holds(r)'
    BY <2>2 DEF Holds, ReadPcs
  <2> QED
    BY <1>done, <1>calm, <2>1, <2>3
<1>kept. HashSet(Kept(manifest)) \subseteq Hashes /\ \A s \in Kept(manifest) : s.hash \in Hashes
  BY <1>0, KeptSubset DEF HashSet, Snapshot
<1>4. CASE CliCopy(p)
  <2>0. PICK r : r = [k EXCEPT !.pc = "append"]
    OBVIOUS
  <2>1. k.pc = "copy" /\ k.hash \in Hashes /\ After(p, k.pc) = "append"
    BY <1>0, <1>4, StageFacts, ThenFacts DEF CliCopy, At, After, Staged
  <2>2. Becomes(p, r) /\ manifest' = manifest /\ blobs' = [blobs EXCEPT ![k.hash] = target.content]
    BY <1>4, <2>0, <2>1 DEF CliCopy, Onward
  <2>3. target.content \in Contents
    BY DEF FenceInv, FenceTypeOK, TypeOK
  <2>4. /\ \A h \in Hashes : blobs[h] # NoContent => blobs'[h] # NoContent
        /\ blobs'[k.hash] # NoContent
    <3> HIDE DEF k
    <3> QED
      BY <1>0, <2>1, <2>2, <2>3, ContentAssumption
  <2>5. NewestRestorable'
    <3>1. Kept(manifest)' = Kept(manifest)
      BY <2>2 DEF Kept, Newer
    <3> QED
      BY <1>0, <1>kept, <2>4, <3>1 DEF NewestRestorable, HasBlob
  <2>6. r.pc = "append" /\ r.cmd = k.cmd /\ r.man = k.man /\ r.hash = k.hash
    BY <1>0, <2>0 DEF CliRecords
  <2>7. k.cmd = "restore" => k.man \subseteq manifest /\ \A s \in Kept(k.man) : blobs'[s.hash] # NoContent
    <3>1. \A s \in Kept(k.man) : s.hash \in Hashes
      BY <1>0, KeptSubset DEF Snapshot
    <3> HIDE DEF k
    <3> QED
      BY <1>0, <2>1, <2>4, <3>1 DEF Holds, ReadPcs, Restorable, HasBlob
  <2>8. Holds(r)'
    <3> HIDE DEF k
    <3> QED
      BY <2>2, <2>4, <2>6, <2>7 DEF Holds, ReadPcs, EarlyPcs, Restorable, HasBlob
  <2>9. PipelineInv'
    BY <1>0, <1>idle, <2>1, StageFacts DEF Inside, Critical
  <2> QED
    BY <1>done, <2>2, <2>5, <2>8, <2>9
<1>5. CASE CliSave(p)
  <2>1. /\ k.pc = "save" /\ k.cmd \in {"backup", "restore"}
        /\ k.cmd = "backup" => After(p, k.pc) = "resume"
        /\ k.cmd = "restore" => After(p, k.pc) = "swap"
    BY <1>0, <1>5, StageFacts, ThenFacts DEF CliSave, At, After
  <2>2. PICK r : Becomes(p, r) /\ r = Onward(p) /\ manifest' = k.man /\ blobs' = blobs
    BY <1>5 DEF CliSave
  <2>3. r.pc = After(p, k.pc) /\ r.cmd = k.cmd /\ r.hash = k.hash
    BY <1>0, <2>2 DEF Onward, CliRecords
  <2> HIDE DEF k
  <2>4. Holds(r)'
    BY <1>0, <2>1, <2>2, <2>3 DEF Holds, HashSet, ReadPcs, EarlyPcs
  <2>5. NewestRestorable'
    BY <1>0, <2>1, <2>2 DEF Holds, Restorable, NewestRestorable, HasBlob, Kept, Newer
  <2>6. PipelineInv'
    BY <1>0, <1>idle, <2>1, StageFacts DEF Inside, Critical
  <2> QED
    BY <1>done, <2>2, <2>4, <2>5, <2>6
<1>6. ASSUME NEW h \in Hashes, CliRemove(p, h)
      PROVE  PipelineInv' /\ NewestRestorable' /\ \A q \in Users : Holds(cli[q])'
  <2>0. PICK r : r = [k EXCEPT !.doomed = k.doomed \ {h}]
    OBVIOUS
  <2>1. /\ k.pc = "sweep" /\ h \in k.doomed /\ Becomes(p, r) /\ manifest' = manifest
        /\ blobs' = [blobs EXCEPT ![h] = NoContent]
    BY <1>6, <2>0 DEF CliRemove, At
  <2>2. k.man = manifest /\ k.doomed \cap HashSet(Kept(manifest)) = {} /\ k.cmd = "prune"
    BY <1>0, <2>1, StageFacts DEF Holds
  <2>3. \A s \in Kept(manifest) : s.hash # h /\ s.hash \in Hashes
    BY <1>kept, <2>1, <2>2 DEF HashSet
  <2>4. Kept(manifest)' = Kept(manifest) /\ HashSet(Kept(manifest))' = HashSet(Kept(manifest))
    BY <2>1 DEF Kept, Newer, HashSet
  <2>5. NewestRestorable'
    <3> HIDE DEF k
    <3> QED
      BY <1>0, <2>1, <2>3, <2>4 DEF NewestRestorable, HasBlob
  <2>6. r.pc = "sweep" /\ r.man = k.man /\ r.doomed \subseteq k.doomed
    BY <1>0, <2>0, <2>1 DEF CliRecords
  <2>7. Holds(r)'
    BY <2>1, <2>2, <2>4, <2>6 DEF Holds, ReadPcs, EarlyPcs
  <2> QED
    BY <1>0, <1>done, <1>idle, <2>1, <2>2, <2>5, <2>7
<1>7. CASE CliTrim(p)
  <2>1. /\ k.pc = "sweep" /\ Becomes(p, IdleCli) /\ blobs' = blobs
        /\ manifest' = IF OverLimit(k.man) THEN Kept(k.man) ELSE manifest
    BY <1>7 DEF CliTrim, At
  <2>2. k.man = manifest /\ k.cmd = "prune"
    BY <1>0, <2>1, StageFacts DEF Holds
  <2>3. Kept(Kept(manifest)) \subseteq Kept(manifest)
    BY <1>0, KeptSubset
  <2>4. Kept(manifest') \subseteq Kept(manifest)
    BY <2>1, <2>2, <2>3
  <2>5. NewestRestorable'
    BY <1>0, <2>1, <2>4 DEF NewestRestorable, HasBlob, Kept, Newer
  <2> QED
    BY <1>0, <1>done, <1>idle, <1>end, <2>1, <2>2, <2>5
<1>8. CASE /\ CliRun(p) \/ CliPingLate(p)
           /\ ~CliCopy(p) /\ ~CliSave(p) /\ ~CliTrim(p)
           /\ \A h \in Hashes : ~CliRemove(p, h)
  <2>1. PICK r : Becomes(p, r) /\ Shape(p, k, r)
    BY <1>8, Shapes
  <2>2. UNCHANGED stores
    BY <1>8
    DEF CliRun, RestoreList, RestoreOpen, CliStat, CliHash, CliPing, CliPause, CliPaused, CliCommit,
        BackupAppend, RestoreAppend, RestoreSwap, RestoreChtimes, CliResume, CliResumed, CliRead,
        CliScan, CliPingLate, Request, vars
  <2>3. Holds(r)'
    BY <1>0, <1>8, <2>1, <2>2, ReadingClear
  <2> QED
    BY <1>calm, <1>done, <2>1, <2>2, <2>3
<1> QED
  BY <1>2, <1>3, <1>4, <1>5, <1>6, <1>7, <1>8 DEF CliStep

\* No command has read anything yet.
LEMMA ClearInitially == FenceInit => ClearInv
<1> SUFFICES ASSUME FenceInit PROVE ClearInv
  OBVIOUS
<1>1. ClosedInv
  BY ClosedInitially
<1>2. NoPrune /\ MutexInv
  BY ClientAssumption DEF FenceInit, Init, NoPrune, MutexInv, IdleEv, Committing
<1>3. PipelineInv /\ NewestRestorable
  BY DEF FenceInit, Init, PipelineInv, NewestRestorable, IdleEv, Kept
<1>4. \A p \in Users : Holds(cli[p])
  BY DEF FenceInit, Holds, IdleCli, ReadPcs, EarlyPcs
<1> QED
  BY <1>1, <1>2, <1>3, <1>4 DEF ClearInv

\* Every step keeps what a command relies on.
LEMMA ClearStep ==
  ASSUME \A p, q \in Users : p = q, FenceInv, ClearInv, Restoring => ~Collects,
         [FenceNext]_fvars
  PROVE  ClearInv'
<1>1. CASE Beside(DaemonStep) \/ Beside(Surroundings)
  BY <1>1, DaemonClear
<1>2. ASSUME NEW p \in Users, CliStep(p)
      PROVE  ClearInv'
  BY <1>2, CliClear
<1>3. CASE UNCHANGED fvars
  <2>1. ClosedInv' /\ NoPrune' /\ MutexInv'
    BY <1>3, ClosedStep DEF fvars, vars, stores, daemon, handlers, ClearInv, NoPrune, MutexInv
  <2>2. Kept(manifest)' = Kept(manifest) /\ AutoSnapshot' = AutoSnapshot
    BY <1>3 DEF fvars, vars, stores, daemon, Kept, Newer, AutoSnapshot
  <2>3. (PipelineInv => PipelineInv') /\ (NewestRestorable => NewestRestorable')
    BY <1>3, <2>2 DEF fvars, vars, stores, daemon, PipelineInv, NewestRestorable, HasBlob, HashSet
  <2>4. ASSUME NEW p \in Users, Holds(cli[p]) PROVE Holds(cli[p])'
    BY <1>3, <2>2, <2>4
    DEF fvars, cliVars, vars, stores, bounds, Holds, Restorable, HasBlob, HashSet, Kept, Newer
  <2> QED
    BY <1>3, <2>1, <2>3, <2>4 DEF ClearInv, fvars, cliVars
<1> QED
  BY <1>1, <1>2, <1>3 DEF FenceNext, FenceRest, Rest, fvars, CliStep

\* Each of the newest max_snapshots entries has its blob at every instant, for one
\* command at a time beside the daemon, with collections by the daemon and by prune
\* and wherever any of them fails, is killed or is late, as long as no evaluation
\* has overlapped with the command: none ran when its fence was closed or while it
\* ran without one (after a ping that failed, or as a prune), nobody else's resume
\* opened the fence, and no daemon was started meanwhile.  A restore must not run
\* while the daemon collects: the manifest it has read, and is going to save again,
\* names blobs that the collection deletes (restore.go:41, restore.go:96).
THEOREM FenceKeepsRestorable ==
  ASSUME \A p, q \in Users : p = q
  PROVE  FenceSpec /\ [](Restoring => ~Collects) => []NewestRestorableIfClear
<1>1. FenceInit => FenceInv /\ ClearInv
  BY FenceInitially, ClearInitially
<1>2. FenceInv /\ ClearInv /\ (Restoring => ~Collects) /\ [FenceNext]_fvars
        => FenceInv' /\ ClearInv'
  BY FenceStep, ClearStep
<1>3. ClearInv => NewestRestorableIfClear
  BY DEF ClearInv, NewestRestorableIfClear
<1> QED
  BY <1>1, <1>2, <1>3, PTL DEF FenceSpec

\* A restore overwrites nothing that the manifest does not have ("we automatically
\* save a pre-restore snapshot", README.md:91), under the same conditions: what it
\* finds is in the manifest it read, which is still part of the one on disk, or in
\* the entry it has just saved, and nobody else saves a manifest before the rename
\* (restore.go:111).  A restore whose look at the file fails saves nothing
\* (restore.go:77) and is left out, but only that one.
THEOREM RestoresAreUndoable ==
  ASSUME \A p, q \in Users : p = q
  PROVE  FenceSpec /\ [](Restoring => ~Collects) => UndoableIfClear
<1>1. FenceInit => FenceInv /\ ClearInv
  BY FenceInitially, ClearInitially
<1>2. FenceInv /\ ClearInv /\ (Restoring => ~Collects) /\ [FenceNext]_fvars
        => FenceInv' /\ ClearInv'
  BY FenceStep, ClearStep
<1>3. FenceInv /\ ClearInv => \A p \in Users : ~crossed => Overwritten(p)
  <2> SUFFICES ASSUME FenceInv, ClearInv, NEW p \in Users, ~crossed, RestoreSwap(p),
                      \/ cli[p].hash = Hash(target.content)
                      \/ cli[p].hash = NoHash /\ faults = 0
               PROVE  Hash(target.content) \in HashSet(manifest)
    BY DEF Overwritten
  <2>0. Hash(target.content) \in Hashes /\ manifest \in SUBSET Snapshot
    BY RecordFacts
  <2>1. cli[p].hash \in HashSet(manifest) \/ (cli[p].hash = NoHash /\ faults # 0)
    BY DEF ClearInv, Holds, RestoreSwap, At
  <2>2. NoHash \notin Hashes
    <3>3. ASSUME NEW c \in Contents
          PROVE  Hash(c) # NoHash
      <4>1. Hash(c)[1] = "sha256" /\ NoHash[1] = ""
        BY DEF Hash, NoHash
      <4>2. "sha256" # ""
        OBVIOUS
      <4> QED
        BY <4>1, <4>2
    <3> QED
      BY <3>3 DEF Hashes
  <2>3. HashSet(manifest) \subseteq Hashes
    BY <2>0 DEF HashSet, Snapshot
  <2> QED
    BY <2>0, <2>1, <2>2, <2>3
<1>4. FenceInv /\ ClearInv => [\A p \in Users : ~crossed => Overwritten(p)]_fvars
  BY <1>3
<1> QED
  BY <1>1, <1>2, <1>4, PTL DEF FenceSpec, UndoableIfClear

-----------------------------------------------------------------------------
(* A save is recorded once.                                                *)

AutoAt(m, t) == \E s \in m : s.tag = "auto" /\ s.mtime = t

OnePer(m) ==
  \A s, t \in m : s.tag = "auto" /\ t.tag = "auto" /\ s.mtime = t.mtime => s = t

\* Of the manifest m and those that the commands c know, none has an automatic
\* entry with the mtime t.
Fresh(m, c, t) == ~AutoAt(m, t) /\ \A p \in Users : ~AutoAt(c[p].man, t)

Past(m) == \A s \in m : s.mtime <= clock

\* Every mtime that is known anywhere was handed out by the clock.
PastInv ==
  /\ target.mtime <= clock /\ ev.mtime <= clock /\ Past(manifest) /\ Past(ev.man)
  /\ \A p \in Users : cli[p].mtime <= clock /\ cli[p].pick <= clock /\ Past(cli[p].man)

\* What a step of a command does to the manifests it knows, and to the times.
LEMMA CliKnows ==
  ASSUME FenceInv, NEW p \in Users, CliStep(p)
  PROVE  \E r :
           /\ Becomes(p, r)
           /\ \E m \in {manifest, cli[p].man} : manifest' \subseteq m
           /\ \E m \in {manifest, cli[p].man} : \E e :
                r.man \subseteq m \cup {e} /\ e.tag # "auto" /\ e.mtime = cli[p].mtime
           /\ r.mtime \in {cli[p].mtime, target.mtime, 0}
           /\ r.pick \in {cli[p].pick, 0} \cup {s.mtime : s \in cli[p].man}
           /\ clock' \in {clock, clock + 1}
           /\ \/ target' = target
              \/ RestoreSwap(p) /\ clock' = clock + 1 /\ target'.mtime = clock + 1
              \/ RestoreChtimes(p) /\ target'.mtime = cli[p].pick
<1> DEFINE k == cli[p]
           Good(r) ==
             /\ \E m \in {manifest, k.man} : \E e :
                  r.man \subseteq m \cup {e} /\ e.tag # "auto" /\ e.mtime = k.mtime
             /\ r.mtime \in {k.mtime, target.mtime, 0}
             /\ r.pick \in {k.pick, 0} \cup {s.mtime : s \in k.man}
<1>0. /\ k \in CliRecords /\ IsFiniteSet(k.man) /\ target \in [content : Contents, mtime : Nat]
  BY RecordFacts
<1>e. ASSUME NEW tag \in {"none", "Manual Backup", "pre-restore backup"}
      PROVE  Entry(p, tag).tag # "auto" /\ Entry(p, tag).mtime = k.mtime
  BY <1>e DEF Entry
<1>quiet. ASSUME NEW r, NEW m \in {{}, manifest, k.man}, r.man = m,
                 r.mtime \in {k.mtime, target.mtime, 0},
                 r.pick \in {k.pick, 0} \cup {s.mtime : s \in k.man}
          PROVE  Good(r)
  <2>1. Entry(p, "none").tag # "auto" /\ Entry(p, "none").mtime = k.mtime
    BY <1>e
  <2>2. \E n \in {manifest, k.man} : r.man \subseteq n \cup {Entry(p, "none")}
    BY <1>quiet
  <2> QED
    BY <1>quiet, <2>1, <2>2
<1>idle. IdleCli.man = {} /\ IdleCli.mtime = 0 /\ IdleCli.pick = 0
  BY DEF IdleCli
<1>good. \E r : Becomes(p, r) /\ Good(r)
  <2> HIDE DEF Good
  <2>1. CASE CliFail(p)
    <3>1. Good(IdleCli)
      BY <1>idle, <1>quiet
    <3> QED
      BY <2>1, <3>1 DEF CliFail
  <2>2. ASSUME NEW c \in Commands, Begin(p, c)
        PROVE  \E r : Becomes(p, r) /\ Good(r)
    <3> DEFINE r == [IdleCli EXCEPT !.cmd = c, !.pc = First[c]]
    <3>1. r.man = {} /\ r.mtime = 0 /\ r.pick = 0
      BY DEF IdleCli
    <3> HIDE DEF r
    <3>2. Good(r)
      BY <1>quiet, <3>1
    <3> QED
      BY <2>2, <3>2 DEF Begin, r
  <2>3. CASE CliRun(p) \/ CliPingLate(p)
    <3>1. PICK r : Becomes(p, r) /\ Shape(p, k, r)
      BY <2>3, Shapes
    <3> USE <1>0 DEF CliRecords
    <3>2. CASE r = IdleCli
      BY <1>idle, <1>quiet, <3>1, <3>2
    <3>3. CASE \/ r = [k EXCEPT !.pc = "open", !.man = manifest]
               \/ r = [k EXCEPT !.pc = "scan", !.man = manifest]
      <4>1. r.man = manifest /\ r.mtime = k.mtime /\ r.pick = k.pick
        BY <3>3
      <4> QED
        BY <1>quiet, <3>1, <4>1
    <3>4. CASE \E s \in k.man : r = [k EXCEPT !.pc = "ping", !.pick = s.mtime, !.open = blobs[s.hash]]
      <4>1. r.man = k.man /\ r.mtime = k.mtime /\ r.pick \in {s.mtime : s \in k.man}
        BY <3>4
      <4> QED
        BY <1>quiet, <3>1, <4>1
    <3>5. CASE r = [k EXCEPT !.pc = "hash", !.mtime = target.mtime]
      <4>1. r.man = k.man /\ r.mtime = target.mtime /\ r.pick = k.pick
        BY <3>5
      <4> QED
        BY <1>quiet, <3>1, <4>1
    <3>7. ASSUME r.man = k.man, r.mtime = k.mtime, r.pick = k.pick
          PROVE  Good(r)
      BY <1>quiet, <3>7
    <3>8. ASSUME NEW pc, NEW h, r = [k EXCEPT !.hash = h, !.pc = pc]
          PROVE  Good(r)
      BY <3>1, <3>7, <3>8
    <3>9. ASSUME NEW pc, r = [k EXCEPT !.running = up, !.pc = pc]
          PROVE  Good(r)
      BY <3>1, <3>7, <3>9
    <3>10. ASSUME NEW pc, r = [k EXCEPT !.pc = pc]
           PROVE  Good(r)
      BY <3>1, <3>7, <3>10
    <3>11. ASSUME NEW d, r = [k EXCEPT !.doomed = d] \/ r = [k EXCEPT !.pc = "sweep", !.doomed = d]
           PROVE  Good(r)
      BY <3>1, <3>7, <3>11
    <3>14. ASSUME NEW d, r = [k EXCEPT !.pc = "pausing", !.conn = d]
           PROVE  Good(r)
      BY <3>1, <3>7, <3>14
    <3>6. ASSUME NEW m \in {manifest, k.man}, NEW e, e.tag # "auto", e.mtime = k.mtime,
                 r.man = m \cup {e}, r.mtime = k.mtime, r.pick = k.pick
          PROVE  Good(r)
      BY <3>6 DEF Good
    <3>12. CASE r = [k EXCEPT !.pc = "save", !.man = manifest \cup {Entry(p, "Manual Backup")}]
      <4>1. PICK e : e = Entry(p, "Manual Backup")
        OBVIOUS
      <4>2. e.tag # "auto" /\ e.mtime = k.mtime
        BY <1>e, <4>1
      <4>3. r.man = manifest \cup {e} /\ r.mtime = k.mtime /\ r.pick = k.pick
        BY <3>12, <4>1
      <4> QED
        BY <3>1, <3>6, <4>2, <4>3
    <3>13. CASE r = [k EXCEPT !.pc = "save", !.man = k.man \cup {Entry(p, "pre-restore backup")}]
      <4>1. PICK e : e = Entry(p, "pre-restore backup")
        OBVIOUS
      <4>2. e.tag # "auto" /\ e.mtime = k.mtime
        BY <1>e, <4>1
      <4>3. r.man = k.man \cup {e} /\ r.mtime = k.mtime /\ r.pick = k.pick
        BY <3>13, <4>1
      <4> QED
        BY <3>1, <3>6, <4>2, <4>3
    <3> QED
      BY <3>1, <3>2, <3>3, <3>4, <3>5, <3>8, <3>9, <3>10, <3>11, <3>12, <3>13, <3>14
      DEF Shape
  <2> QED
    BY <2>1, <2>2, <2>3 DEF CliStep
<1>1. /\ \E m \in {manifest, k.man} : manifest' \subseteq m
      /\ clock' \in {clock, clock + 1}
      /\ \/ target' = target
         \/ RestoreSwap(p) /\ clock' = clock + 1 /\ target'.mtime = clock + 1
         \/ RestoreChtimes(p) /\ target'.mtime = k.pick
  <2>1. CASE CliTrim(p)
    <3>1. Kept(k.man) \subseteq k.man
      BY <1>0, KeptSubset
    <3> QED
      BY <2>1, <3>1 DEF CliTrim
  <2>2. CASE RestoreSwap(p) \/ RestoreChtimes(p)
    BY <1>0, <2>2 DEF RestoreSwap, RestoreChtimes, stores
  <2>3. CASE \/ CliFail(p) \/ CliSave(p) \/ CliCopy(p) \/ BackupAppend(p) \/ RestoreAppend(p)
             \/ \E h \in Hashes : CliRemove(p, h)
    BY <2>3 DEF CliFail, CliSave, CliCopy, BackupAppend, RestoreAppend, CliRemove, stores
  <2>4. CASE \/ \E c \in Commands : Begin(p, c)
             \/ RestoreList(p) \/ RestoreOpen(p) \/ CliStat(p) \/ CliHash(p) \/ CliPing(p)
             \/ CliPause(p) \/ CliPaused(p) \/ CliCommit(p) \/ CliResume(p) \/ CliResumed(p)
             \/ CliRead(p) \/ CliScan(p) \/ CliPingLate(p)
    <3>1. UNCHANGED <<target, manifest, clock>>
      BY <2>4
      DEF Begin, CliPingLate, RestoreList, RestoreOpen, CliStat, CliHash, CliPing, CliPause, CliPaused,
          CliCommit, CliResume, CliResumed, CliRead, CliScan, Request, vars, stores
    <3> QED
      BY <3>1
  <2> QED
    BY <2>1, <2>2, <2>3, <2>4 DEF CliStep, CliRun
<1> QED
  BY <1>good, <1>1

\* What a step of the daemon does to the times.
LEMMA TimesMove ==
  ASSUME FenceInv, NoPrune, DaemonStep \/ Surroundings
  PROVE  /\ clock' \in {clock, clock + 1}
         /\ target' = target \/ (target'.mtime = clock + 1 /\ clock' = clock + 1)
         /\ ev'.mtime \in {ev.mtime, 0, target.mtime}
         /\ ev'.man \in {ev.man, {}, manifest \cup {AutoSnapshot}}
         /\ manifest' \in {manifest, ev.man, Kept(ev.man)}
<1>0. ev \in EvRecords /\ target \in [content : Contents, mtime : Nat]
  BY DEF FenceInv, FenceTypeOK, TypeOK
<1>idle. IdleEv.mtime = 0 /\ IdleEv.man = {}
  BY DEF IdleEv
<1>1. manifest' \in {manifest, ev.man, Kept(ev.man)}
  BY StoreMoves DEF stores
<1>2. CASE Surroundings
  <2>1. UNCHANGED ev \/ ev' = IdleEv
    BY <1>2 DEF Surroundings, Save, FsEvent, Tick, Exit, Start, daemon
  <2>2. /\ clock' \in {clock, clock + 1}
        /\ target' = target \/ (target'.mtime = clock + 1 /\ clock' = clock + 1)
    BY <1>2 DEF Surroundings, Save, FsEvent, Tick, Exit, Start
  <2> QED
    BY <1>1, <1>idle, <2>1, <2>2
<1>3. ASSUME NEW p \in Clients, HandlerRun(p) \/ HandlerFail(p)
      PROVE  UNCHANGED <<ev, target>> /\ clock' \in {clock, clock + 1}
  <2>1. rpc[p] \notin {"prune", "pscan", "psweep"}
    BY DEF NoPrune
  <2> QED
    BY <1>3, <2>1 DEF HandlerRun, HandlerFail, Pause, ResumeLock, ResumeStat, ResumeHash,
         ResumeError, PruneLoad, PruneScan, PruneRemove, PruneTrim, PruneError, hFrame
<1>4. CASE EvRun \/ EvFail
  <2> USE <1>0 DEF EvRecords, evFrame
  <2>1. target' = target /\ clock' \in {clock, clock + 1}
    BY <1>4 DEF EvRun, EvFail, EvStart, EvStat, EvGate, EvHash, EvDedup, EvCommit, EvCopy, EvLoad,
                EvSave, EvScan, EvRemove, EvTrim, EvDrop, EvIOError, EvGcError
  <2>2. CASE EvStart
    BY <1>1, <1>idle, <2>1, <2>2 DEF EvStart, IdleEv
  <2>3. CASE EvStat \/ EvGate
    BY <1>1, <1>idle, <2>1, <2>3 DEF EvStat, EvGate
  <2>4. CASE EvHash \/ EvDedup \/ EvCommit \/ EvCopy
    BY <1>1, <1>idle, <2>1, <2>4 DEF EvHash, EvDedup, EvCommit, EvCopy
  <2>5. CASE EvLoad
    <3>1. PICK m : m = manifest \cup {AutoSnapshot}
      OBVIOUS
    <3>2. ev' = [ev EXCEPT !.pc = "save", !.man = m]
      BY <2>5, <3>1 DEF EvLoad
    <3>3. ev'.mtime = ev.mtime /\ ev'.man = m
      BY <3>2
    <3> QED
      BY <1>1, <2>1, <3>1, <3>3
  <2>6. CASE EvSave \/ EvScan \/ EvTrim \/ \E h \in Hashes : EvRemove(h)
    BY <1>1, <1>idle, <2>1, <2>6 DEF EvSave, EvScan, EvTrim, EvRemove
  <2>7. CASE EvFail
    BY <1>1, <1>idle, <2>1, <2>7 DEF EvFail, EvDrop, EvIOError, EvGcError
  <2> QED
    BY <1>4, <2>2, <2>3, <2>4, <2>5, <2>6, <2>7 DEF EvRun
<1> QED
  BY <1>1, <1>2, <1>3, <1>4 DEF DaemonStep

\* The times as they are.
LEMMA TimeFacts ==
  ASSUME FenceInv
  PROVE  /\ clock \in Nat /\ target.mtime \in Nat /\ ev.mtime \in Nat
         /\ manifest \in SUBSET Snapshot /\ IsFiniteSet(ev.man) /\ ev.man \in SUBSET Snapshot
         /\ \A m \in SUBSET Snapshot : \A s \in m : s.mtime \in Nat
<1>1. /\ clock \in Nat /\ target \in [content : Contents, mtime : Nat] /\ ev \in EvRecords
      /\ manifest \in SUBSET Snapshot /\ IsFiniteSet(ev.man)
  BY DEF FenceInv, FenceTypeOK, TypeOK
<1> QED
  BY <1>1 DEF EvRecords, Snapshot

\* The daemon puts no time into the future.
LEMMA DaemonPast ==
  ASSUME FenceInv, NoPrune, PastInv, Beside(DaemonStep) \/ Beside(Surroundings)
  PROVE  PastInv'
<1>0. (DaemonStep \/ Surroundings) /\ cli' = cli
  BY DEF Beside
<1>1. /\ clock' \in {clock, clock + 1} /\ clock \in Nat
      /\ target.mtime \in Nat /\ target.mtime <= clock
      /\ ev.mtime \in Nat /\ ev.mtime <= clock
      /\ \A s \in manifest : s.mtime \in Nat /\ s.mtime <= clock
      /\ \A s \in ev.man : s.mtime \in Nat /\ s.mtime <= clock
      /\ \A p \in Users : /\ cli[p].mtime \in Nat /\ cli[p].mtime <= clock
                          /\ cli[p].pick \in Nat /\ cli[p].pick <= clock
                          /\ \A s \in cli[p].man : s.mtime \in Nat /\ s.mtime <= clock
  BY <1>0, TimesMove, TimeFacts, RecordFacts DEF PastInv, Past
<1>2. AutoSnapshot.mtime = ev.mtime
  BY DEF AutoSnapshot
<1>3. Kept(ev.man) \subseteq ev.man
  BY TimeFacts, KeptSubset
<1>4. target'.mtime <= clock' /\ ev'.mtime <= clock'
  <2>1. target'.mtime <= clock'
    BY <1>0, <1>1, TimesMove
  <2>2. ev'.mtime <= clock'
    BY <1>0, <1>1, TimesMove
  <2> QED
    BY <2>1, <2>2
<1>5. Past(manifest)'
  <2>1. manifest' \subseteq manifest \/ manifest' \subseteq ev.man
    BY <1>0, <1>3, TimesMove
  <2> QED
    BY <1>1, <2>1 DEF Past
<1>6. Past(ev.man)'
  <2>1. ev'.man \in {ev.man, {}, manifest \cup {AutoSnapshot}}
    BY <1>0, TimesMove
  <2>2. \A s \in ev'.man : s.mtime \in Nat /\ s.mtime <= clock
    BY <1>1, <1>2, <2>1
  <2> QED
    BY <1>1, <2>2 DEF Past
<1>7. ASSUME NEW p \in Users
      PROVE  cli'[p].mtime <= clock' /\ cli'[p].pick <= clock' /\ \A s \in cli'[p].man : s.mtime <= clock'
  BY <1>0, <1>1
<1> QED
  BY <1>4, <1>5, <1>6, <1>7 DEF PastInv, Past

\* Nor does a command.
LEMMA CliPast ==
  ASSUME \A p, q \in Users : p = q, FenceInv, PastInv, NEW p \in Users,
         CliStep(p)
  PROVE  PastInv'
<1> DEFINE k == cli[p]
<1>1. /\ clock' \in {clock, clock + 1} /\ clock \in Nat
      /\ target.mtime \in Nat /\ target.mtime <= clock
      /\ ev.mtime \in Nat /\ ev.mtime <= clock /\ ev' = ev
      /\ \A s \in manifest : s.mtime \in Nat /\ s.mtime <= clock
      /\ \A s \in ev.man : s.mtime \in Nat /\ s.mtime <= clock
      /\ k.mtime \in Nat /\ k.mtime <= clock
      /\ k.pick \in Nat /\ k.pick <= clock
      /\ \A s \in k.man : s.mtime \in Nat /\ s.mtime <= clock
      /\ cli \in [Users -> CliRecords]
  BY CliKnows, Leaves, TimeFacts, RecordFacts DEF PastInv, Past, FenceInv, FenceTypeOK
<1>2. PICK r :
        /\ Becomes(p, r)
        /\ \E m \in {manifest, k.man} : manifest' \subseteq m
        /\ \E m \in {manifest, k.man} : \E e :
             r.man \subseteq m \cup {e} /\ e.tag # "auto" /\ e.mtime = k.mtime
        /\ r.mtime \in {k.mtime, target.mtime, 0}
        /\ r.pick \in {k.pick, 0} \cup {s.mtime : s \in k.man}
        /\ \/ target' = target
           \/ RestoreSwap(p) /\ clock' = clock + 1 /\ target'.mtime = clock + 1
           \/ RestoreChtimes(p) /\ target'.mtime = k.pick
  BY CliKnows
<1>3. target'.mtime <= clock' /\ ev'.mtime <= clock'
  <2> HIDE DEF k
  <2> QED
    BY <1>1, <1>2
<1>4. \A s \in ev'.man : s.mtime <= clock'
  BY <1>1
<1>5. \A s \in manifest' : s.mtime <= clock'
  <2> HIDE DEF k
  <2> QED
    BY <1>1, <1>2
<1>6. ASSUME NEW q \in Users
      PROVE  /\ cli'[q].mtime <= clock' /\ cli'[q].pick <= clock'
             /\ \A s \in cli'[q].man : s.mtime <= clock'
  <2>1. q = p /\ cli'[q] = r
    BY <1>1, <1>2 DEF Becomes
  <2> HIDE DEF k
  <2>2. r.mtime <= clock' /\ r.pick <= clock'
    BY <1>1, <1>2
  <2>3. \A s \in r.man : s.mtime \in Nat /\ s.mtime <= clock
    BY <1>1, <1>2
  <2>4. \A s \in r.man : s.mtime <= clock'
    BY <1>1, <2>3
  <2> QED
    BY <2>1, <2>2, <2>4
<1> QED
  BY <1>3, <1>4, <1>5, <1>6 DEF PastInv, Past

\* An evaluation that is going to record, or records, the mtime it has read.
Recording == {"hash", "dedup", "commit", "copy", "load", "save"}

Resuming == {"resume", "rstat", "rhash"}

\* A command waits for the request on connection c.
Awaited(c) ==
  /\ rpc[c] = "pause" => \E p \in Users : At(p, "pausing") /\ cli[p].conn = c
  /\ rpc[c] \in Resuming => \E p \in Users : At(p, "resuming") /\ cli[p].conn = c

\* Unless something has crossed the fence, the manifest an evaluation saves is the
\* one on disk with its entry.  As long as nothing has failed, the daemon serves
\* requests that are waited for, and resumes only while it is paused.
TrueInv ==
  /\ ~crossed =>
       /\ ev.pc = "save" => ev.man = manifest \cup {AutoSnapshot}
       /\ ev.pc \in {"scan", "sweep"} => ev.man = manifest
  /\ faults = 0 => \A c \in Clients : Awaited(c)
  /\ ~crossed /\ faults = 0 => \A c \in Clients : rpc[c] \in Resuming => paused

\* As long as nothing has failed, each command has its fence, and the mtime the
\* target has, the one an evaluation has read and the one a resume has read are
\* each that of the baseline or one that nobody has recorded.
OnceInv ==
  ~crossed /\ faults = 0 =>
    /\ up
    /\ \A p \in Users : Inside(cli[p]) => cli[p].running
    /\ OnePer(manifest) /\ \A p \in Users : OnePer(cli[p].man)
    /\ ~paused => target.mtime = base.mtime \/ Fresh(manifest, cli, target.mtime)
    /\ ev.pc = "gate" => ev.mtime = base.mtime \/ Fresh(manifest, cli, ev.mtime)
    /\ ev.pc \in Recording => Fresh(manifest, cli, ev.mtime)
    /\ ev.pc \in Recording \cup {"gate"} =>
         target.mtime = ev.mtime \/ Fresh(manifest, cli, target.mtime)
    /\ \A p \in Clients : rpc[p] = "rhash" =>
         target.mtime = call[p].mtime \/ Fresh(manifest, cli, target.mtime)

OneInv == ClosedInv /\ NoPrune /\ PastInv /\ TrueInv /\ OnceInv

\* The next instant is one that nobody has recorded.
LEMMA NextFresh ==
  ASSUME FenceInv, PastInv
  PROVE  Fresh(manifest, cli, clock + 1)
<1>1. clock \in Nat /\ \A s \in manifest : s.mtime \in Nat /\ s.mtime <= clock
  BY TimeFacts DEF PastInv, Past
<1>2. \A p \in Users : \A s \in cli[p].man : s.mtime \in Nat /\ s.mtime <= clock
  BY TimeFacts, RecordFacts DEF PastInv, Past
<1> QED
  BY <1>1, <1>2 DEF Fresh, AutoAt

\* One user waits for one request.
LEMMA OneRequest ==
  ASSUME \A p, q \in Users : p = q, FenceInv, NoPrune, TrueInv, faults = 0
  PROVE  /\ \A c, d \in Clients : rpc[c] \in Replies \/ rpc[d] \in Replies \/ c = d
         /\ \A c \in Clients, p \in Users :
              rpc[c] \in Replies \/ (cli[p].pc \in {"pausing", "resuming"} /\ cli[p].conn = c)
<1>1. ASSUME NEW c \in Clients, rpc[c] \notin Replies
      PROVE  \E p \in Users : cli[p].pc \in {"pausing", "resuming"} /\ cli[p].conn = c
  <2>1. rpc[c] \in {"pause"} \cup Resuming
    BY <1>1 DEF FenceInv, FenceTypeOK, TypeOK, RpcPcs, Replies, NoPrune, Resuming
  <2> QED
    BY <2>1 DEF TrueInv, Awaited, At
<1> QED
  BY <1>1

\* An evaluation saves what it has just read, with its entry.
LEMMA DaemonTrue ==
  ASSUME \A p, q \in Users : p = q, FenceInv, ClosedInv, NoPrune, TrueInv,
         Beside(DaemonStep) \/ Beside(Surroundings)
  PROVE  TrueInv'
<1>0. /\ DaemonStep \/ Surroundings
      /\ cli' = cli /\ (~crossed' => ~crossed)
      /\ rpc \in [Clients -> RpcPcs]
      /\ faults' = 0 => faults = 0
  BY FaultsGrow DEF Beside, FenceInv, FenceTypeOK, TypeOK
<1>saved. ~crossed =>
            /\ ev.pc = "save" => ev.man = manifest \cup {AutoSnapshot}
            /\ ev.pc \in {"scan", "sweep"} => ev.man = manifest
  BY DEF TrueInv
<1>calm. ASSUME UNCHANGED <<ev, manifest>> PROVE AutoSnapshot' = AutoSnapshot
  BY <1>calm DEF AutoSnapshot
<1>1. ASSUME NEW p \in Clients, HandlerRun(p) \/ HandlerFail(p)
      PROVE  UNCHANGED <<ev, manifest>>
  <2>1. rpc[p] \notin {"prune", "pscan", "psweep"}
    BY DEF NoPrune
  <2> QED
    BY <1>1, <2>1 DEF HandlerRun, HandlerFail, Pause, ResumeLock, ResumeStat, ResumeHash,
         ResumeError, PruneLoad, PruneScan, PruneRemove, PruneTrim, PruneError, hFrame, stores
<1>5. ASSUME faults' = 0
      PROVE  /\ \A c \in Clients : Awaited(c)'
             /\ ~crossed' => \A c \in Clients : rpc'[c] \in Resuming => paused'
  <2>0. /\ \A c \in Clients : Awaited(c)
        /\ ~crossed' => \A c \in Clients : rpc[c] \in Resuming => paused
    BY <1>0, <1>5 DEF TrueInv
  <2> USE DEF Resuming
  <2>1. CASE UNCHANGED <<rpc, paused>>
    BY <1>0, <2>0, <2>1 DEF Awaited, At
  <2>2. CASE \A c \in Clients : rpc'[c] \in Replies
    BY <1>0, <2>2 DEF Awaited, Replies
  <2>3. ASSUME NEW p \in Clients, HandlerRun(p)
        PROVE  /\ \A c \in Clients : Awaited(c)'
               /\ ~crossed' => \A c \in Clients : rpc'[c] \in Resuming => paused'
    <3>1. PICK q : /\ rpc' = [rpc EXCEPT ![p] = q]
                   /\ \/ rpc[p] = "pause" /\ q = "paused" /\ paused' = TRUE
                      \/ rpc[p] = "resume" /\ q = "rstat" /\ paused' = paused
                      \/ rpc[p] = "rstat" /\ q = "rhash" /\ paused' = paused
                      \/ rpc[p] \in {"rstat", "rhash"} /\ q \in {"ok", "err"}
      BY <2>3, HandlerMoves DEF NoPrune
    <3>2. ASSUME NEW c \in Clients PROVE Awaited(c)'
      BY <1>0, <2>0, <3>1 DEF Awaited, At
    <3>3. ASSUME ~crossed', NEW c \in Clients, rpc'[c] \in Resuming PROVE paused'
      <4>1. CASE q \in {"paused", "rstat", "rhash"}
        BY <1>0, <2>0, <3>1, <3>3, <4>1
      <4>2. CASE q \in {"ok", "err"}
        <5>1. c # p /\ rpc[c] \in Resuming /\ rpc[p] \in Resuming
          BY <1>0, <3>1, <3>3, <4>2
        <5> QED
          BY <1>0, <1>5, <5>1, OneRequest DEF Replies
      <4> QED
        BY <3>1, <4>1, <4>2
    <3> QED
      BY <3>2, <3>3
  <2>4. CASE EvRun
    BY <2>1, <2>4, EvMoves
  <2>5. CASE Surroundings
    BY <2>1, <2>2, <2>5, AroundMoves DEF Replies
  <2> QED
    BY <1>0, <1>5, <2>3, <2>4, <2>5, FaultsGrow DEF DaemonStep
<1> SUFFICES ASSUME ~crossed'
             PROVE  /\ ev'.pc = "save" => ev'.man = manifest' \cup {AutoSnapshot'}
                    /\ ev'.pc \in {"scan", "sweep"} => ev'.man = manifest'
  BY <1>5 DEF TrueInv
<1>2. CASE Surroundings
  <2>1. manifest' = manifest
    BY <1>2 DEF Surroundings, Save, FsEvent, Tick, Exit, Start, stores
  <2>2. UNCHANGED ev \/ ev'.pc = "idle"
    BY <1>2, AroundMoves
  <2> QED
    BY <1>0, <1>saved, <1>calm, <2>1, <2>2
<1>3. CASE EvRun \/ EvFail
  <2>0. ev \in EvRecords /\ IdleEv.pc = "idle"
    BY DEF FenceInv, FenceTypeOK, TypeOK, IdleEv
  <2> USE <2>0 DEF EvRecords
  <2>1. CASE EvStart
    BY <2>1 DEF EvStart, IdleEv
  <2>2. CASE EvStat \/ EvGate \/ EvHash \/ EvDedup \/ EvCommit \/ EvCopy
    BY <2>2 DEF EvStat, EvGate, EvHash, EvDedup, EvCommit, EvCopy
  <2>3. CASE EvLoad
    <3>1. PICK s : s = AutoSnapshot
      OBVIOUS
    <3>2. ev' = [ev EXCEPT !.pc = "save", !.man = manifest \cup {s}] /\ manifest' = manifest
      BY <2>3, <3>1 DEF EvLoad, stores
    <3>3. /\ ev'.pc = "save" /\ ev'.man = manifest \cup {s}
          /\ ev'.now = ev.now /\ ev'.hash = ev.hash /\ ev'.mtime = ev.mtime
      BY <3>2
    <3>4. AutoSnapshot' = s
      BY <3>1, <3>3 DEF AutoSnapshot
    <3> QED
      BY <3>2, <3>3, <3>4
  <2>4. CASE EvSave
    BY <2>4 DEF EvSave
  <2>5. CASE EvScan \/ EvTrim \/ \E h \in Hashes : EvRemove(h)
    BY <1>0, <1>saved, <2>5 DEF EvScan, EvTrim, EvRemove, stores
  <2>6. CASE EvFail
    BY <2>6 DEF EvFail, EvDrop, EvIOError, EvGcError
  <2> QED
    BY <1>3, <2>1, <2>2, <2>3, <2>4, <2>5, <2>6 DEF EvRun
<1> QED
  BY <1>0, <1>saved, <1>1, <1>2, <1>3, <1>calm DEF DaemonStep

\* A step of the daemon records no mtime that is known, and what the target gets is new.
LEMMA DaemonOnce ==
  ASSUME \A p, q \in Users : p = q, FenceInv, OneInv,
         Beside(DaemonStep) \/ Beside(Surroundings)
  PROVE  OnceInv'
<1> DEFINE F(t) == Fresh(manifest, cli, t)
<1> SUFFICES ASSUME ~crossed', faults' = 0
             PROVE  /\ up'
                    /\ \A p \in Users : Inside(cli'[p]) => cli'[p].running
                    /\ OnePer(manifest') /\ \A p \in Users : OnePer(cli'[p].man)
                    /\ ~paused' => target'.mtime = base'.mtime \/ Fresh(manifest', cli', target'.mtime)
                    /\ ev'.pc = "gate" => ev'.mtime = base'.mtime \/ Fresh(manifest', cli', ev'.mtime)
                    /\ ev'.pc \in Recording => Fresh(manifest', cli', ev'.mtime)
                    /\ ev'.pc \in Recording \cup {"gate"} =>
                         target'.mtime = ev'.mtime \/ Fresh(manifest', cli', target'.mtime)
                    /\ \A p \in Clients : rpc'[p] = "rhash" =>
                         target'.mtime = call'[p].mtime \/ Fresh(manifest', cli', target'.mtime)
  BY DEF OnceInv
<1>0. /\ DaemonStep \/ Surroundings
      /\ cli' = cli /\ ~crossed /\ faults = 0
      /\ ~EvFail /\ ~Exit /\ \A p \in Clients : ~HandlerFail(p)
  BY FaultsGrow DEF Beside
<1>1. /\ up
      /\ \A p \in Users : Inside(cli[p]) => cli[p].running
      /\ OnePer(manifest) /\ \A p \in Users : OnePer(cli[p].man)
      /\ ~paused => target.mtime = base.mtime \/ F(target.mtime)
      /\ ev.pc = "gate" => ev.mtime = base.mtime \/ F(ev.mtime)
      /\ ev.pc \in Recording => F(ev.mtime)
      /\ ev.pc \in Recording \cup {"gate"} => target.mtime = ev.mtime \/ F(target.mtime)
      /\ \A p \in Clients : rpc[p] = "rhash" => target.mtime = call[p].mtime \/ F(target.mtime)
      /\ paused => ev.pc = "idle"
      /\ ev.pc = "save" => ev.man = manifest \cup {AutoSnapshot}
      /\ ev.pc \in {"scan", "sweep"} => ev.man = manifest
      /\ \A p \in Clients : rpc[p] \in {"resume", "rstat", "rhash"} => paused
      /\ \A p \in Clients : rpc[p] \notin {"prune", "pscan", "psweep"}
  BY <1>0 DEF OneInv, OnceInv, TrueInv, ClosedInv, NoPrune, Resuming
<1>2. /\ ev \in EvRecords /\ rpc \in [Clients -> RpcPcs]
      /\ call \in [Clients -> CallRecords]
  BY DEF FenceInv, FenceTypeOK, TypeOK
<1>idle. IdleEv.pc = "idle"
  BY DEF IdleEv
<1> HIDE DEF F
\* A step that writes neither the target nor the manifest.
<1>calm. ASSUME manifest' = manifest PROVE \A t : Fresh(manifest', cli', t) <=> F(t)
  BY <1>0, <1>calm DEF F
<1>3. CASE \E c \in Contents : Save(c)
  <2>1. /\ target'.mtime = clock + 1
        /\ UNCHANGED <<manifest, up, paused, base, ev, rpc, call>>
    BY <1>3 DEF Save, stores, handlers
  <2>2. F(clock + 1)
    BY NextFresh DEF OneInv, F
  <2>3. Fresh(manifest', cli', target'.mtime)
    BY <1>0, <2>1, <2>2 DEF F
  <2> QED
    BY <1>0, <1>1, <1>calm, <2>1, <2>3
<1>4. CASE FsEvent \/ Tick
  <2>1. UNCHANGED <<target, manifest, up, paused, base, ev, rpc, call>>
    BY <1>4 DEF FsEvent, Tick, stores, daemon, handlers
  <2> QED
    BY <1>0, <1>1, <1>calm, <2>1
<1>5. ASSUME NEW p \in Clients, HandlerRun(p)
      PROVE  /\ UNCHANGED <<target, manifest, up, ev>>
             /\ ~paused' => target.mtime = base'.mtime \/ F(target.mtime)
             /\ ev.pc = "gate" => base' = base
             /\ \A q \in Clients : rpc'[q] = "rhash" => target.mtime = call'[q].mtime \/ F(target.mtime)
  <2>1. UNCHANGED <<target, manifest, up, ev>>
    BY <1>1, <1>5 DEF HandlerRun, Pause, ResumeLock, ResumeStat, ResumeHash, PruneLoad, PruneScan,
         PruneRemove, PruneTrim, hFrame, stores
  <2>2. CASE Pause(p)
    BY <1>1, <1>2, <2>1, <2>2 DEF Pause, Reply
  <2>3. CASE ResumeLock(p)
    BY <1>1, <1>2, <2>1, <2>3 DEF ResumeLock
  <2>4. CASE ResumeStat(p)
    <3>1. base' = base /\ paused' = paused /\ call'[p].mtime = target.mtime
      BY <1>2, <2>4 DEF ResumeStat, CallRecords
    <3>2. ASSUME NEW q \in Clients, rpc'[q] = "rhash"
          PROVE  target.mtime = call'[q].mtime \/ F(target.mtime)
      <4>1. q = p \/ (rpc[q] = "rhash" /\ call'[q] = call[q])
        BY <1>2, <2>4, <3>2 DEF ResumeStat
      <4> QED
        BY <1>1, <3>1, <4>1
    <3> QED
      BY <1>1, <2>1, <3>1, <3>2
  <2>5. CASE ResumeHash(p)
    <3>1. /\ rpc[p] = "rhash" /\ base'.mtime = call[p].mtime /\ rpc'[p] = "ok"
      BY <1>2, <2>5 DEF ResumeHash, Reply
    <3>2. ev.pc = "idle"
      BY <1>1, <3>1
    <3>3. \A q \in Clients : rpc'[q] # "rhash"
      <4>1. \A q \in Clients \ {p} : rpc'[q] = rpc[q] /\ rpc[q] \in Replies
        BY <1>0, <1>2, <2>5, <3>1, OneRequest DEF OneInv, ResumeHash, Reply, Replies
      <4> QED
        BY <3>1, <4>1 DEF Replies
    <3> QED
      BY <1>1, <2>1, <3>1, <3>2, <3>3
  <2> QED
    BY <1>1, <1>5, <2>1, <2>2, <2>3, <2>4, <2>5
    DEF HandlerRun, PruneLoad, PruneScan, PruneRemove, PruneTrim
<1>6. CASE EvStart
  <2>1. /\ UNCHANGED <<target, manifest, up, paused, base, rpc, call>>
        /\ ev' = ev \/ ev'.pc = "stat"
    BY <1>6 DEF EvStart, stores, handlers, IdleEv
  <2> QED
    BY <1>0, <1>1, <1>calm, <2>1 DEF Recording
<1>7. CASE EvStat \/ EvGate \/ EvHash \/ EvDedup \/ EvCommit \/ EvCopy \/ EvLoad
  <2>1. UNCHANGED <<target, manifest, up, paused, base, rpc, call>>
    BY <1>7 DEF EvStat, EvGate, EvHash, EvDedup, EvCommit, EvCopy, EvLoad, stores, handlers, evFrame
  <2>2. \/ ev'.pc = "idle"
        \/ ev.pc = "stat" /\ ev'.pc = "gate" /\ ev'.mtime = target.mtime
        \/ ev.pc = "gate" /\ ev'.pc = "hash" /\ ev'.mtime = ev.mtime /\ ev.mtime # base.mtime
        \/ ev.pc \in Recording /\ ev'.pc \in Recording /\ ev'.mtime = ev.mtime
    <3> USE <1>2, <1>idle DEF EvRecords, Recording
    <3>1. CASE EvStat \/ EvGate
      BY <3>1 DEF EvStat, EvGate
    <3>2. CASE EvHash \/ EvDedup \/ EvCommit \/ EvCopy
      BY <3>2 DEF EvHash, EvDedup, EvCommit, EvCopy
    <3>3. CASE EvLoad
      <4>1. PICK m : ev' = [ev EXCEPT !.pc = "save", !.man = m] /\ ev.pc = "load"
        BY <3>3 DEF EvLoad
      <4> QED
        BY <4>1
    <3> QED
      BY <1>7, <3>1, <3>2, <3>3
  <2>3. ev.pc = "stat" => ~paused
    BY <1>1
  <2>4. "idle" \notin Recording /\ "gate" \notin Recording /\ "hash" \in Recording
    BY DEF Recording
  <2> QED
    BY <1>0, <1>1, <1>calm, <2>1, <2>2, <2>3, <2>4
<1>8. CASE EvSave
  <2>1. /\ UNCHANGED <<target, up, paused, rpc, call>>
        /\ manifest' = ev.man /\ base'.mtime = ev.mtime /\ ev'.pc \in {"scan", "idle"}
        /\ ev.pc = "save" /\ "save" \in Recording
    BY <1>2, <1>8, <1>idle DEF EvSave, handlers, evFrame, EvRecords, Recording
  <2>2. /\ ev.man = manifest \cup {AutoSnapshot}
        /\ AutoSnapshot.mtime = ev.mtime /\ AutoSnapshot.tag = "auto"
    BY <1>1, <2>1 DEF AutoSnapshot
  <2>3. F(ev.mtime)
    BY <1>1, <2>1
  <2>4. OnePer(manifest')
    <3>1. PICK s : s = AutoSnapshot
      OBVIOUS
    <3>2. manifest' = manifest \cup {s} /\ s.mtime = ev.mtime
      BY <2>1, <2>2, <3>1
    <3>3. ~AutoAt(manifest, ev.mtime)
      BY <2>3 DEF F, Fresh
    <3> QED
      BY <1>1, <3>2, <3>3 DEF OnePer, AutoAt
  <2>5. target.mtime = ev.mtime \/ Fresh(manifest', cli', target'.mtime)
    <3> SUFFICES ASSUME target.mtime # ev.mtime, F(target.mtime)
                 PROVE  Fresh(manifest', cli', target'.mtime)
      BY <1>1, <2>1
    <3>1. PICK s : s = AutoSnapshot
      OBVIOUS
    <3>2. manifest' = manifest \cup {s} /\ s.mtime = ev.mtime
      BY <2>1, <2>2, <3>1
    <3> QED
      BY <1>0, <2>1, <3>2 DEF F, Fresh, AutoAt
  <2>6. \A p \in Clients : rpc[p] # "rhash"
    BY <1>1, <2>1
  <2>7. {"scan", "idle", "gate"} \cap Recording = {}
    BY DEF Recording
  <2> QED
    BY <1>0, <1>1, <2>1, <2>4, <2>5, <2>6, <2>7
<1>9. CASE EvScan \/ EvTrim \/ \E h \in Hashes : EvRemove(h)
  <2>1. /\ UNCHANGED <<target, up, paused, base, rpc, call>>
        /\ manifest' = manifest \/ (ev.pc = "sweep" /\ manifest' = Kept(ev.man))
        /\ ev'.pc \in {"idle", "sweep"}
    BY <1>2, <1>9, <1>idle DEF EvScan, EvTrim, EvRemove, stores, handlers, evFrame, EvRecords
  <2>2. manifest' \subseteq manifest
    <3>1. Kept(ev.man) \subseteq ev.man
      BY TimeFacts, KeptSubset
    <3> QED
      BY <1>1, <2>1, <3>1
  <2>3. OnePer(manifest')
    BY <1>1, <2>2 DEF OnePer
  <2>4. \A t : F(t) => Fresh(manifest', cli', t)
    BY <1>0, <2>2 DEF F, Fresh, AutoAt
  <2>5. {"sweep", "idle", "gate"} \cap Recording = {}
    BY DEF Recording
  <2> QED
    BY <1>0, <1>1, <2>1, <2>3, <2>4, <2>5
<1>10. CASE \E p \in Clients : HandlerRun(p)
  BY <1>0, <1>1, <1>5, <1>10, <1>calm
<1> QED
  BY <1>0, <1>1, <1>3, <1>4, <1>6, <1>7, <1>8, <1>9, <1>10 DEF DaemonStep, EvRun, Surroundings, Start

\* A command only passes on the entries it knows, and adds none that is automatic.
LEMMA CliKeepsFresh ==
  ASSUME \A p, q \in Users : p = q, FenceInv, NEW p \in Users,
         CliStep(p)
  PROVE  /\ \A t : Fresh(manifest, cli, t) => Fresh(manifest', cli', t)
         /\ OnePer(manifest) /\ OnePer(cli[p].man) => OnePer(manifest') /\ OnePer(cli'[p].man)
<1> DEFINE k == cli[p]
<1>1. cli \in [Users -> CliRecords]
  BY DEF FenceInv, FenceTypeOK
<1>2. PICK r :
        /\ Becomes(p, r)
        /\ \E m \in {manifest, k.man} : manifest' \subseteq m
        /\ \E m \in {manifest, k.man} : \E e :
             r.man \subseteq m \cup {e} /\ e.tag # "auto" /\ e.mtime = k.mtime
  BY CliKnows
<1>3. cli'[p] = r
  BY <1>1, <1>2 DEF Becomes
<1>4. PICK m \in {manifest, k.man} : manifest' \subseteq m
  BY <1>2
<1>5. PICK n \in {manifest, k.man} : \E e : r.man \subseteq n \cup {e} /\ e.tag # "auto"
  BY <1>2
<1>6. ASSUME NEW t, Fresh(manifest, cli, t)
      PROVE  Fresh(manifest', cli', t)
  <2>1. ~AutoAt(manifest, t) /\ ~AutoAt(k.man, t)
    BY <1>6 DEF Fresh
  <2>2. ~AutoAt(m, t) /\ ~AutoAt(n, t)
    BY <2>1
  <2> HIDE DEF k
  <2>3. ~AutoAt(manifest', t) /\ ~AutoAt(r.man, t)
    BY <1>4, <1>5, <2>2 DEF AutoAt
  <2> QED
    BY <1>3, <2>3 DEF Fresh
<1>7. ASSUME OnePer(manifest), OnePer(k.man)
      PROVE  OnePer(manifest') /\ OnePer(r.man)
  <2>1. OnePer(m) /\ OnePer(n)
    BY <1>7
  <2> HIDE DEF k
  <2> QED
    BY <1>4, <1>5, <2>1 DEF OnePer
<1> QED
  BY <1>3, <1>6, <1>7

\* A command writes no manifest under an evaluation, and resumes what it has paused.
LEMMA CliTrue ==
  ASSUME \A p, q \in Users : p = q, FenceInv, ClosedInv, NoPrune, TrueInv, NEW p \in Users,
         CliStep(p)
  PROVE  TrueInv'
<1> DEFINE k == cli[p]
<1>0. /\ UNCHANGED <<up, paused, ev>> /\ (~crossed' => ~crossed)
      /\ rpc \in [Clients -> RpcPcs] /\ cli \in [Users -> CliRecords]
      /\ faults' = 0 => faults = 0 /\ ~CliFail(p) /\ ~CliPingLate(p)
  BY Leaves, FaultsGrow DEF FenceInv, FenceTypeOK, TypeOK
<1>1. crossed' \/ ev.pc = "idle" \/ manifest' = manifest
  <2>1. CASE CliSave(p)
    BY <1>0, <2>1, InsideIdle DEF CliSave, At, Inside, Critical
  <2>2. CASE CliTrim(p)
    <3>1. k.cmd = "prune"
      BY <2>2, RecordFacts, StageFacts DEF CliTrim, At
    <3> QED
      BY <1>0, <3>1, InsideIdle
  <2>3. CASE \/ RestoreList(p) \/ RestoreOpen(p) \/ CliStat(p) \/ CliHash(p) \/ CliPing(p)
             \/ CliPaused(p) \/ CliCommit(p) \/ CliCopy(p) \/ BackupAppend(p) \/ RestoreAppend(p)
             \/ RestoreSwap(p) \/ RestoreChtimes(p) \/ CliResumed(p) \/ CliRead(p)
             \/ CliScan(p) \/ (\E h \in Hashes : CliRemove(p, h)) \/ CliFail(p)
             \/ CliPingLate(p)
    BY <2>3
    DEF RestoreList, RestoreOpen, CliStat, CliHash, CliPing, CliPaused, CliCommit, CliCopy,
        BackupAppend, RestoreAppend, RestoreSwap, RestoreChtimes, CliResumed, CliRead,
        CliScan, CliRemove, CliFail, CliPingLate, stores
  <2>4. CASE CliPause(p) \/ CliResume(p) \/ \E c \in Commands : Begin(p, c)
    BY <2>4 DEF CliPause, CliResume, Begin, Request, vars, stores
  <2> QED
    BY <2>1, <2>2, <2>3, <2>4 DEF CliStep, CliRun
<1>2. AutoSnapshot' = AutoSnapshot
  BY <1>0 DEF AutoSnapshot
<1>3. ~crossed' =>
        /\ ev'.pc = "save" => ev'.man = manifest' \cup {AutoSnapshot'}
        /\ ev'.pc \in {"scan", "sweep"} => ev'.man = manifest'
  BY <1>0, <1>1, <1>2 DEF TrueInv
<1>4. ASSUME faults' = 0
      PROVE  \A c \in Clients : Awaited(c)'
  <2>0. faults = 0 /\ \A c \in Clients : Awaited(c)
    BY <1>0, <1>4 DEF TrueInv
  <2>1. CASE k.pc \notin {"pausing", "resuming"} \/ rpc[k.conn] \in Replies
    <3>1. \A c \in Clients : rpc[c] \in Replies
      BY <2>0, <2>1, OneRequest
    <3>2. CASE rpc' = rpc
      BY <3>1, <3>2 DEF Awaited, Replies, Resuming
    <3>3. ASSUME NEW d \in Clients, CliPause(p), rpc' = [rpc EXCEPT ![d] = "pause"],
                 Becomes(p, [Onward(p) EXCEPT !.conn = d])
          PROVE  \A c \in Clients : Awaited(c)'
      <4>1. After(p, k.pc) = "pausing"
        BY <3>3, RecordFacts, StageFacts, ThenFacts DEF CliPause, At, After
      <4>2. cli'[p].pc = "pausing" /\ cli'[p].conn = d
        BY <1>0, <3>3, <4>1 DEF Becomes, Onward, CliRecords
      <4> QED
        BY <1>0, <3>1, <3>3, <4>2 DEF Awaited, At, Replies, Resuming
    <3>4. ASSUME CliResume(p), rpc' = [rpc EXCEPT ![k.conn] = "resume"], Becomes(p, Onward(p))
          PROVE  \A c \in Clients : Awaited(c)'
      <4>1. After(p, k.pc) = "resuming"
        BY <3>4, RecordFacts, StageFacts, ThenFacts DEF CliResume, At, After
      <4>2. cli'[p].pc = "resuming" /\ cli'[p].conn = k.conn
        BY <1>0, <3>4, <4>1 DEF Becomes, Onward, CliRecords
      <4> QED
        BY <1>0, <3>1, <3>4, <4>2 DEF Awaited, At, Replies, Resuming
    <3> QED
      BY <3>2, <3>3, <3>4, Leaves
  <2>2. CASE k.pc \in {"pausing", "resuming"} /\ rpc[k.conn] \notin Replies
    <3>1. CliRun(p) \/ \E c \in Commands : Begin(p, c)
      BY <1>0, <1>4 DEF CliStep
    <3> QED
      BY <2>2, <3>1
      DEF CliRun, RestoreList, RestoreOpen, CliStat, CliHash, CliPing, CliPause, CliPaused, CliCommit,
          CliCopy, BackupAppend, RestoreAppend, CliSave, RestoreSwap, RestoreChtimes, CliResume,
          CliResumed, CliRead, CliScan, CliRemove, CliTrim, Begin, At
  <2> QED
    BY <2>1, <2>2
<1>5. ASSUME ~crossed', faults' = 0, NEW c \in Clients, rpc'[c] \in Resuming
      PROVE  paused'
  <2>1. rpc[c] \in Resuming => paused
    BY <1>0, <1>5 DEF TrueInv
  <2>2. CASE rpc'[c] = rpc[c]
    BY <1>0, <1>5, <2>1, <2>2
  <2>3. CASE rpc'[c] # rpc[c]
    <3>1. CliResume(p) /\ up /\ k.running
      BY <1>0, <1>5, <2>3, Leaves DEF Resuming
    <3>2. Closed(p)
      BY <3>1 DEF CliResume, Closed, Fenced, At
    <3> QED
      BY <1>0, <1>5, <3>1, <3>2 DEF ClosedInv
  <2> QED
    BY <2>2, <2>3
<1> QED
  BY <1>3, <1>4, <1>5 DEF TrueInv

\* A command changes the mtime of the target only while the daemon is paused.
LEMMA CliOnce ==
  ASSUME \A p, q \in Users : p = q, FenceInv, OneInv, NEW p \in Users,
         CliStep(p)
  PROVE  OnceInv'
<1> DEFINE k == cli[p]
           F(t) == Fresh(manifest, cli, t)
           G(t) == Fresh(manifest', cli', t)
<1> SUFFICES ASSUME ~crossed', faults' = 0
             PROVE  /\ up'
                    /\ \A q \in Users : Inside(cli'[q]) => cli'[q].running
                    /\ OnePer(manifest') /\ \A q \in Users : OnePer(cli'[q].man)
                    /\ ~paused' => target'.mtime = base'.mtime \/ G(target'.mtime)
                    /\ ev'.pc = "gate" => ev'.mtime = base'.mtime \/ G(ev'.mtime)
                    /\ ev'.pc \in Recording => G(ev'.mtime)
                    /\ ev'.pc \in Recording \cup {"gate"} =>
                         target'.mtime = ev'.mtime \/ G(target'.mtime)
                    /\ \A q \in Clients : rpc'[q] = "rhash" =>
                         target'.mtime = call'[q].mtime \/ G(target'.mtime)
  BY DEF OnceInv
<1>0. /\ UNCHANGED <<up, paused, base, ev, call>> /\ ~crossed /\ faults = 0
      /\ rpc \in [Clients -> RpcPcs]
      /\ \/ rpc' = rpc
         \/ \E d \in Clients, c \in {"pause", "resume"} : rpc' = [rpc EXCEPT ![d] = c]
  BY Leaves, FaultsGrow DEF FenceInv, FenceTypeOK, TypeOK
<1>1. /\ up
      /\ Inside(k) => k.running
      /\ OnePer(manifest) /\ \A q \in Users : OnePer(cli[q].man)
      /\ ~paused => target.mtime = base.mtime \/ F(target.mtime)
      /\ ev.pc = "gate" => ev.mtime = base.mtime \/ F(ev.mtime)
      /\ ev.pc \in Recording => F(ev.mtime)
      /\ ev.pc \in Recording \cup {"gate"} => target.mtime = ev.mtime \/ F(target.mtime)
      /\ \A q \in Clients : rpc[q] = "rhash" => target.mtime = call[q].mtime \/ F(target.mtime)
  BY <1>0 DEF OneInv, OnceInv
<1>2. \A q \in Clients : rpc'[q] = "rhash" => rpc[q] = "rhash"
  BY <1>0
<1>3. \A t : F(t) => G(t)
  BY CliKeepsFresh
<1>4. OnePer(manifest') /\ \A q \in Users : OnePer(cli'[q].man)
  BY <1>1, CliKeepsFresh
\* A command has looked whether a daemon runs, and one does.
<1>7. \A q \in Users : Inside(cli'[q]) => cli'[q].running
  <2>0. k \in CliRecords /\ cli \in [Users -> CliRecords] /\ Opened(k)
    BY DEF OneInv, ClosedInv, FenceInv, FenceTypeOK
  <2>done. ASSUME NEW r, Becomes(p, r), Inside(r) => r.running
           PROVE  \A q \in Users : Inside(cli'[q]) => cli'[q].running
    BY <2>0, <2>done DEF Becomes
  <2>1. CASE CliRun(p)
    <3>1. PICK r : Becomes(p, r) /\ Shape(p, k, r)
      BY <2>1, Shapes
    <3>2. ~CliPingLate(p)
      BY <1>0, FaultsGrow
    <3>3. \/ r = IdleCli \/ ~Inside(r) \/ (r.running = k.running /\ (Inside(k) \/ k.pc = "pausing"))
          \/ r.running = up
      <4>1. k.pc # "idle" /\ k.cmd = "prune" => k.pc \notin Critical
        BY RecordFacts, StageFacts DEF Critical
      <4> HIDE DEF k
      <4> QED
        BY <3>1, <3>2, <4>1, Moves DEF Inside, Critical, k
    <3>4. Inside(r) => r.running
      <4>1. ~Inside(IdleCli)
        BY DEF Inside, Critical, IdleCli
      <4> HIDE DEF k
      <4> QED
        BY <1>1, <2>0, <3>3, <4>1 DEF Opened
    <3> QED
      BY <2>done, <3>1, <3>4
  <2>2. ASSUME NEW c \in Commands, Begin(p, c)
        PROVE  \A q \in Users : Inside(cli'[q]) => cli'[q].running
    <3> DEFINE r == [IdleCli EXCEPT !.cmd = c, !.pc = First[c]]
    <3>1. r.cmd = c /\ r.pc = First[c]
      BY DEF IdleCli
    <3>2. ~Inside(r)
      BY <3>1, CommandAssumption DEF First, Inside, Critical
    <3> HIDE DEF r
    <3>3. Becomes(p, r)
      BY <2>2 DEF Begin, r
    <3> QED
      BY <2>done, <3>2, <3>3
  <2> QED
    BY <1>0, <2>1, <2>2, FaultsGrow DEF CliStep
<1>5. CASE target' = target
  <2> HIDE DEF F, G
  <2> QED
    BY <1>0, <1>1, <1>2, <1>3, <1>4, <1>5, <1>7
\* Inside the fence nothing evaluates, and nothing is resumed.
<1>6. CASE RestoreSwap(p) \/ RestoreChtimes(p)
  <2>1. k.pc \in {"swap", "chtimes"} /\ Inside(k)
    BY <1>6 DEF RestoreSwap, RestoreChtimes, At, Inside, Critical
  <2>2. ev.pc = "idle"
    BY <1>0, <2>1, InsideIdle DEF OneInv
  <2>3. paused
    <3>1. Closed(p)
      BY <1>1, <2>1 DEF Closed, Fenced, Inside
    <3> QED
      BY <1>0, <1>1, <3>1 DEF OneInv, ClosedInv
  <2>4. \A q \in Clients : rpc[q] # "rhash"
    BY <1>0, <2>1, OneRequest DEF OneInv, Replies
  <2>5. "idle" \notin Recording
    BY DEF Recording
  <2> HIDE DEF F, G
  <2> QED
    BY <1>0, <1>1, <1>2, <1>4, <1>7, <2>2, <2>3, <2>4, <2>5
<1> QED
  BY <1>5, <1>6, CliKnows

\* No time has been handed out yet.
LEMMA OneInitially == FenceInit => OneInv
<1> SUFFICES ASSUME FenceInit PROVE OneInv
  OBVIOUS
<1>1. ClosedInv /\ NoPrune
  BY ClearInitially DEF ClearInv
<1>2. /\ manifest = {} /\ target.mtime = 0 /\ clock = 0 /\ ev = IdleEv /\ up
      /\ cli = [p \in Users |-> IdleCli] /\ rpc = [p \in Clients |-> "none"]
  BY DEF FenceInit, Init
<1>3. \A p \in Users : cli[p].man = {} /\ cli[p].mtime = 0 /\ cli[p].pick = 0
  BY <1>2 DEF IdleCli
<1>4. IdleEv.pc = "idle" /\ IdleEv.mtime = 0 /\ IdleEv.man = {}
  BY DEF IdleEv
<1>5. PastInv
  BY <1>2, <1>3, <1>4 DEF PastInv, Past
<1>6. TrueInv /\ OnceInv
  BY <1>2, <1>3, <1>4 DEF TrueInv, Awaited, Resuming, OnceInv, OnePer, Fresh, AutoAt, Recording,
                          Inside, Critical, IdleCli
<1> QED
  BY <1>1, <1>5, <1>6 DEF OneInv

\* Every step keeps what is known of the mtimes.
LEMMA OneStep ==
  ASSUME \A p, q \in Users : p = q, FenceInv, OneInv, [FenceNext]_fvars
  PROVE  OneInv'
<1>1. CASE Beside(DaemonStep) \/ Beside(Surroundings)
  <2>1. DaemonStep \/ Surroundings
    BY <1>1 DEF Beside
  <2> QED
    BY <1>1, <2>1, DaemonClosed, NoPruneBeside, DaemonPast, DaemonTrue, DaemonOnce DEF OneInv
<1>2. ASSUME NEW p \in Users, CliStep(p)
      PROVE  OneInv'
  <2>1. NoPrune'
    <3>1. /\ rpc \in [Clients -> RpcPcs]
          /\ \/ rpc' = rpc
             \/ \E d \in Clients, c \in {"pause", "resume"} : rpc' = [rpc EXCEPT ![d] = c]
      BY <1>2, Leaves DEF FenceInv, FenceTypeOK, TypeOK
    <3> QED
      BY <3>1 DEF OneInv, NoPrune
  <2> QED
    BY <1>2, <2>1, CliClosed, CliPast, CliTrue, CliOnce DEF OneInv
<1>3. CASE UNCHANGED fvars
  <2>1. UNCHANGED <<target, manifest, clock, up, paused, base, ev, rpc, call, faults, cli, crossed>>
    BY <1>3 DEF fvars, cliVars, vars, stores, daemon, handlers, bounds
  <2>2. AutoSnapshot' = AutoSnapshot
    BY <2>1 DEF AutoSnapshot
  <2>3. ClosedInv' /\ NoPrune'
    BY <1>3, <2>1, ClosedStep DEF OneInv, NoPrune
  <2>4. PastInv' /\ TrueInv'
    BY <2>1, <2>2 DEF OneInv, PastInv, Past, TrueInv, Awaited, At
  <2>5. OnceInv'
    BY <2>1 DEF OneInv, OnceInv
  <2> QED
    BY <2>3, <2>4, <2>5 DEF OneInv
<1> QED
  BY <1>1, <1>2, <1>3 DEF FenceNext, FenceRest, Rest, fvars, CliStep

\* A daemon that is not restarted records no save of the file twice, for one command
\* at a time and as long as nothing fails and no evaluation overlaps with a
\* command: after a restore it takes what it finds for its baseline (evaluator.go:109),
\* and whatever is saved later has an mtime of its own.
THEOREM SavesRecordedOnce ==
  ASSUME \A p, q \in Users : p = q
  PROVE  FenceSpec => []OneAutoPerSave
<1>1. FenceInit => FenceInv /\ OneInv
  BY FenceInitially, OneInitially
<1>2. FenceInv /\ OneInv /\ [FenceNext]_fvars => FenceInv' /\ OneInv'
  BY FenceStep, OneStep
<1>3. OneInv => OneAutoPerSave
  BY DEF OneInv, OnceInv, OnePer, OneAutoPerSave
<1> QED
  BY <1>1, <1>2, <1>3, PTL DEF FenceSpec

-----------------------------------------------------------------------------
(* Nothing but a restore forgets a recent entry.                           *)

\* What a collection removes has max_snapshots newer entries that stay.
LEMMA TrimmedAreOld ==
  ASSUME NEW m \in SUBSET Snapshot, IsFiniteSet(m), NEW s \in m \ Kept(m)
  PROVE  MaxSnapshots > 0 /\ Cardinality(Newer(s, Kept(m))) >= MaxSnapshots
<1> DEFINE n == m \ Kept(m)
<1>1. n \in SUBSET Snapshot /\ n # {} /\ IsFiniteSet(n)
  BY FS_Subset
<1>2. PICK t \in n : Newer(t, n) = {}
  BY <1>1, NewestExists DEF Newest
<1>3. MaxSnapshots > 0 /\ ~(Cardinality(Newer(t, m)) < MaxSnapshots)
  BY <1>2 DEF Kept
<1>4. Newer(t, m) \subseteq Newer(s, Kept(m))
  <2> SUFFICES ASSUME NEW u \in m, u.ts > t.ts
               PROVE  u \in Kept(m) /\ u.ts > s.ts
    BY DEF Newer
  <2>1. ~(s.ts > t.ts) /\ u \notin n
    BY <1>2 DEF Newer
  <2>2. s.ts \in Nat /\ t.ts \in Nat /\ u.ts \in Nat
    BY <1>2 DEF Snapshot
  <2> QED
    BY <2>1, <2>2
<1>5. IsFiniteSet(Newer(s, Kept(m))) /\ IsFiniteSet(Newer(t, m))
  <2>1. Newer(s, Kept(m)) \subseteq m /\ Newer(t, m) \subseteq m
    BY KeptSubset DEF Newer
  <2> QED
    BY <2>1, FS_Subset
<1>6. Cardinality(Newer(t, m)) <= Cardinality(Newer(s, Kept(m)))
  BY <1>4, <1>5, FS_Subset
<1>7. Cardinality(Newer(t, m)) \in Nat /\ Cardinality(Newer(s, Kept(m))) \in Nat
  BY <1>5, FS_CardinalityType
<1> QED
  BY <1>3, <1>6, <1>7, ConfigAssumption

\* What a backup is about to save has all that is on disk, and a prune works on
\* the manifest that is there.
Current(r) ==
  /\ r.cmd = "backup" /\ r.pc = "save" => manifest \subseteq r.man
  /\ r.pc \in {"scan", "sweep"} => r.man = manifest

CurrentInv ==
  ClosedInv /\ NoPrune /\ TrueInv /\ (~crossed => \A p \in Users : Current(cli[p]))

\* An entry leaves the manifest only when max_snapshots newer ones are there.
KeepsRecent ==
  \A s \in manifest \ manifest' :
    MaxSnapshots > 0 /\ Cardinality(Newer(s, manifest')) >= MaxSnapshots

\* The daemon saves what it has read and one entry more, and trims what is there.
LEMMA DaemonCurrent ==
  ASSUME \A p, q \in Users : p = q, FenceInv, CurrentInv,
         Beside(DaemonStep) \/ Beside(Surroundings)
  PROVE  CurrentInv' /\ (~crossed => KeepsRecent)
<1>0. /\ DaemonStep \/ Surroundings
      /\ cli' = cli /\ (~crossed' => ~crossed)
  BY DEF Beside
<1>1. ClosedInv' /\ NoPrune' /\ TrueInv'
  BY <1>0, DaemonClosed, NoPruneBeside, DaemonTrue DEF CurrentInv
<1>2. ASSUME ~crossed', NEW p \in Users
      PROVE  Current(cli[p])'
  <2> DEFINE k == cli[p]
  <2>1. Current(k) /\ Staged(k) /\ ~crossed
    BY <1>0, <1>2, RecordFacts DEF CurrentInv
  <2>2. CASE k.pc \in {"save", "scan", "sweep"}
    <3>1. Inside(k) \/ k.cmd = "prune"
      BY <2>1, <2>2, StageFacts DEF Inside, Critical
    <3>2. ev.pc = "idle"
      BY <2>1, <3>1, InsideIdle DEF CurrentInv
    <3>3. manifest' = manifest
      BY <1>0, <3>2, StoreMoves DEF CurrentInv, EvSave, stores
    <3> QED
      BY <1>0, <2>1, <3>3 DEF Current
  <2>3. CASE k.pc \notin {"save", "scan", "sweep"}
    BY <1>0, <2>3 DEF Current
  <2> QED
    BY <2>2, <2>3
<1>3. ASSUME ~crossed PROVE KeepsRecent
  <2>1. /\ ev.pc = "save" => manifest \subseteq ev.man
        /\ ev.pc = "sweep" => ev.man = manifest
    BY <1>3 DEF CurrentInv, TrueInv
  <2>2. manifest \subseteq manifest' \/ manifest' = Kept(manifest)
    BY <1>0, <2>1, StoreMoves DEF CurrentInv, EvSave, stores
  <2>3. manifest \in SUBSET Snapshot /\ IsFiniteSet(manifest)
    BY DEF FenceInv, FenceTypeOK, TypeOK
  <2>4. ASSUME manifest' = Kept(manifest) PROVE KeepsRecent
    BY <2>3, <2>4, TrimmedAreOld DEF KeepsRecent
  <2> QED
    BY <2>2, <2>4 DEF KeepsRecent
<1> QED
  BY <1>1, <1>2, <1>3 DEF CurrentInv

\* So do backup and prune.
LEMMA CliCurrent ==
  ASSUME \A p, q \in Users : p = q, "restore" \notin Commands,
         FenceInv, CurrentInv, NEW p \in Users,
         CliStep(p)
  PROVE  CurrentInv' /\ (~crossed => KeepsRecent)
<1> DEFINE k == cli[p]
<1>0. /\ k \in CliRecords /\ Staged(k) /\ k.cmd # "restore"
      /\ cli \in [Users -> CliRecords] /\ (~crossed' => ~crossed)
      /\ manifest \in SUBSET Snapshot /\ IsFiniteSet(manifest)
      /\ k.man \in SUBSET Snapshot /\ IsFiniteSet(k.man)
  <2>1. k \in CliRecords /\ cli \in [Users -> CliRecords]
    BY DEF FenceInv, FenceTypeOK
  <2>2. k.cmd # "restore"
    BY <2>1 DEF CliRecords
  <2> QED
    BY <2>1, <2>2, RecordFacts, Leaves
<1>1. ClosedInv' /\ NoPrune' /\ TrueInv'
  <2>1. NoPrune'
    <3>1. /\ rpc \in [Clients -> RpcPcs]
          /\ \/ rpc' = rpc
             \/ \E d \in Clients, c \in {"pause", "resume"} : rpc' = [rpc EXCEPT ![d] = c]
      BY Leaves DEF FenceInv, FenceTypeOK, TypeOK
    <3> QED
      BY <3>1 DEF CurrentInv, NoPrune
  <2> QED
    BY <2>1, CliClosed, CliTrue DEF CurrentInv
<1>done. ASSUME NEW r, Becomes(p, r), ~crossed => KeepsRecent, ~crossed => Current(r)'
         PROVE  CurrentInv' /\ (~crossed => KeepsRecent)
  <2>1. cli'[p] = r
    BY <1>0, <1>done DEF Becomes
  <2>2. ~crossed' => \A q \in Users : Current(cli[q])'
    BY <1>0, <1>done, <2>1 DEF Current
  <2> QED
    BY <1>1, <1>done, <2>2 DEF CurrentInv
<1>same. ASSUME manifest' = manifest PROVE KeepsRecent
  BY <1>same DEF KeepsRecent
<1>end. Current(IdleCli)'
  BY DEF Current, IdleCli
<1>now. ~crossed => Current(k)
  BY DEF CurrentInv
<1>2. CASE CliFail(p)
  BY <1>2, <1>done, <1>same, <1>end DEF CliFail, stores
<1>3. ASSUME NEW c \in Commands, Begin(p, c)
      PROVE  CurrentInv' /\ (~crossed => KeepsRecent)
  <2> DEFINE r == [IdleCli EXCEPT !.cmd = c, !.pc = First[c]]
  <2>1. Becomes(p, r) /\ manifest' = manifest
    BY <1>3 DEF Begin, vars, stores
  <2>2. r.pc \in {"stat", "list", "read"}
    BY CommandAssumption DEF First, IdleCli
  <2> HIDE DEF r
  <2>3. Current(r)'
    BY <2>2 DEF Current
  <2> QED
    BY <1>done, <1>same, <2>1, <2>3
<1>4. CASE CliSave(p)
  <2>1. k.pc = "save" /\ manifest' = k.man /\ Becomes(p, Onward(p))
    BY <1>4 DEF CliSave, At
  <2>2. k.cmd = "backup" /\ After(p, k.pc) = "resume"
    BY <1>0, <2>1, StageFacts, ThenFacts DEF After
  <2>3. Onward(p).pc = "resume"
    BY <1>0, <2>2 DEF Onward, CliRecords
  <2>4. ~crossed => manifest \subseteq manifest'
    BY <1>now, <2>1, <2>2 DEF Current
  <2>5. ASSUME NEW r, r = Onward(p)
        PROVE  Current(r)'
    <3>1. r' = r /\ r.pc = "resume"
      BY <2>3, <2>5
    <3> QED
      BY <3>1 DEF Current
  <2>6. ~crossed => KeepsRecent
    BY <2>4 DEF KeepsRecent
  <2> QED
    BY <1>done, <2>1, <2>5, <2>6
<1>5. CASE CliTrim(p)
  <2>1. k.pc = "sweep" /\ Becomes(p, IdleCli)
        /\ manifest' = IF OverLimit(k.man) THEN Kept(k.man) ELSE manifest
    BY <1>5 DEF CliTrim, At
  <2>2. ASSUME ~crossed PROVE KeepsRecent
    <3>1. manifest' = manifest \/ manifest' = Kept(manifest)
      BY <1>now, <2>1, <2>2 DEF Current
    <3>2. ASSUME manifest' = Kept(manifest) PROVE KeepsRecent
      BY <1>0, <3>2, TrimmedAreOld DEF KeepsRecent
    <3> QED
      BY <1>same, <3>1, <3>2
  <2> QED
    BY <1>done, <1>end, <2>1, <2>2
<1>6. CASE (CliRun(p) \/ CliPingLate(p)) /\ ~CliSave(p) /\ ~CliTrim(p)
  <2>1. PICK r : Becomes(p, r) /\ Shape(p, k, r)
    BY <1>6, Shapes
  <2>2. manifest' = manifest
    BY <1>6
    DEF CliRun, RestoreList, RestoreOpen, CliStat, CliHash, CliPing, CliPause, CliPaused, CliCommit,
        CliCopy, BackupAppend, RestoreAppend, RestoreSwap, RestoreChtimes, CliResume, CliResumed,
        CliRead, CliScan, CliRemove, CliPingLate, Request, vars, stores
  <2>3. ASSUME ~crossed PROVE Current(r)
    <3>1. Current(k)
      BY <1>now, <2>3
    <3>2. CASE r = IdleCli
      BY <3>2 DEF Current, IdleCli
    <3>3. CASE CliRead(p) /\ r = [k EXCEPT !.pc = "scan", !.man = manifest]
      BY <1>0, <3>3 DEF Current, CliRecords
    <3>4. CASE CliScan(p) /\ r = [k EXCEPT !.pc = "sweep", !.doomed = Garbage(k.man)]
      BY <1>0, <3>1, <3>4 DEF Current, CliRecords, CliScan, At
    <3>5. CASE \E h \in Hashes : CliRemove(p, h) /\ r = [k EXCEPT !.doomed = k.doomed \ {h}]
      BY <1>0, <3>1, <3>5 DEF Current, CliRecords, CliRemove, At
    <3>6. CASE BackupAppend(p) /\ r = [k EXCEPT !.pc = "save", !.man = manifest \cup {Entry(p, "Manual Backup")}]
      BY <1>0, <3>6 DEF Current, CliRecords
    <3>7. CASE RestoreAppend(p) \/ CliSave(p)
      BY <1>0, <1>6, <3>7 DEF RestoreAppend
    <3>8. ASSUME NEW q, NEW x, q \notin {"save", "scan", "sweep"},
                 \/ r = [k EXCEPT !.pc = q]
                 \/ r = [k EXCEPT !.pc = q, !.man = x]
                 \/ r = [k EXCEPT !.pc = q, !.mtime = x]
                 \/ r = [k EXCEPT !.hash = x, !.pc = q]
                 \/ r = [k EXCEPT !.running = x, !.pc = q]
          PROVE  Current(r)
      BY <1>0, <3>8 DEF Current, CliRecords
    <3>9. ASSUME NEW x, NEW y, r = [k EXCEPT !.pc = "ping", !.pick = x, !.open = y]
           PROVE  Current(r)
      BY <1>0, <3>9 DEF Current, CliRecords
    <3>10. CASE \E s \in k.man : r = [k EXCEPT !.pc = "ping", !.pick = s.mtime, !.open = blobs[s.hash]]
      BY <3>9, <3>10
    <3>11. CASE \E pc \in {"ping", "commit", "swap"} : r = [k EXCEPT !.hash = Hash(target.content), !.pc = pc]
      BY <3>8, <3>11
    <3>12. CASE \E pc \in {"pause", "commit", "stat"} : r = [k EXCEPT !.running = up, !.pc = pc]
      BY <3>8, <3>12
    <3>13. CASE r \in {[k EXCEPT !.pc = q] : q \in {"hash", "pausing", "commit", "stat", "append", "copy",
                                                    "resume", "swap", "chtimes", "resuming"}}
      BY <3>8, <3>13
    <3>14. CASE r = [k EXCEPT !.pc = "open", !.man = manifest]
      BY <1>0, <3>14 DEF Current, CliRecords
    <3>15. CASE r = [k EXCEPT !.pc = "hash", !.mtime = target.mtime]
      BY <1>0, <3>15 DEF Current, CliRecords
    <3>16. CASE \E d \in FreeConns : r = [k EXCEPT !.pc = "pausing", !.conn = d]
      <4>1. PICK d : r = [k EXCEPT !.pc = "pausing", !.conn = d]
        BY <3>16
      <4>2. r.pc = "pausing" /\ r.cmd = k.cmd
        BY <1>0, <4>1 DEF CliRecords
      <4> QED
        BY <4>2 DEF Current
    <3>17. CASE \E pc \in {"commit", "stat"} : r = [k EXCEPT !.pc = pc]
      BY <3>8, <3>17
    <3> QED
      BY <2>1, <3>2, <3>3, <3>4, <3>5, <3>6, <3>7, <3>10, <3>11, <3>12, <3>13, <3>14, <3>15, <3>16,
         <3>17, ZenonT(60)
      DEF Shape
  <2> QED
    BY <1>done, <1>same, <2>1, <2>2, <2>3 DEF Current
<1> QED
  BY <1>2, <1>3, <1>4, <1>5, <1>6 DEF CliStep

\* At the beginning no command is about to save.
LEMMA CurrentInitially == FenceInit => CurrentInv
<1> SUFFICES ASSUME FenceInit PROVE CurrentInv
  OBVIOUS
<1>1. ClosedInv /\ NoPrune /\ TrueInv
  BY OneInitially DEF OneInv
<1>2. \A p \in Users : Current(cli[p])
  BY DEF FenceInit, Current, IdleCli
<1> QED
  BY <1>1, <1>2 DEF CurrentInv

\* A step of the system keeps the copies current, and the recent entries.
LEMMA CurrentStep ==
  ASSUME \A p, q \in Users : p = q, "restore" \notin Commands,
         FenceInv, CurrentInv, [FenceNext]_fvars
  PROVE  CurrentInv' /\ (~crossed => KeepsRecent)
<1>1. CASE Beside(DaemonStep) \/ Beside(Surroundings)
  BY <1>1, DaemonCurrent
<1>2. ASSUME NEW p \in Users, CliStep(p)
      PROVE  CurrentInv' /\ (~crossed => KeepsRecent)
  BY <1>2, CliCurrent
<1>3. CASE UNCHANGED fvars
  <2>1. UNCHANGED <<target, manifest, clock, up, paused, base, ev, rpc, call, faults, cli, crossed>>
    BY <1>3 DEF fvars, cliVars, vars, stores, daemon, handlers, bounds
  <2>2. ClosedInv' /\ NoPrune'
    BY <1>3, <2>1, ClosedStep DEF CurrentInv, NoPrune
  <2>3. TrueInv'
    <3>1. AutoSnapshot' = AutoSnapshot
      BY <2>1 DEF AutoSnapshot
    <3> QED
      BY <2>1, <3>1 DEF CurrentInv, TrueInv, Awaited, At
  <2>4. (~crossed => \A p \in Users : Current(cli[p]))'
    BY <2>1 DEF CurrentInv, Current
  <2> QED
    BY <2>1, <2>2, <2>3, <2>4 DEF CurrentInv, KeepsRecent
<1> QED
  BY <1>1, <1>2, <1>3 DEF FenceNext, FenceRest, Rest, fvars, CliStep

\* Where an entry leaves the manifest although it is among the newest, and no
\* evaluation has overlapped with a command, also none let in by a late resume or a
\* missed ping, a restore has been at work, which saves the manifest it read before
\* its fence (restore.go:96):
\* backup reads the manifest inside its fence, and prune and the daemon the one they
\* trim.
THEOREM OnlyRestoresForget ==
  ASSUME \A p, q \in Users : p = q, "restore" \notin Commands
  PROVE  FenceSpec => [][~crossed => KeepsRecent]_fvars
<1>1. FenceInit => FenceInv /\ CurrentInv
  BY FenceInitially, CurrentInitially
<1>2. FenceInv /\ CurrentInv /\ [FenceNext]_fvars
      => FenceInv' /\ CurrentInv' /\ [~crossed => KeepsRecent]_fvars
  BY FenceStep, CurrentStep
<1> QED
  BY <1>1, <1>2, PTL DEF FenceSpec
=============================================================================
