---------------------------- MODULE PipelineProofs ----------------------------
(***************************************************************************)
(* Theorems about module Evaluator, for every set of contents, every       *)
(* configuration and every bound.  The baseline: a daemon that no client   *)
(* calls, and that could read the manifest when it began, compares the     *)
(* file with its newest snapshot, across failed steps, crashes and         *)
(* restarts, and so never records the same content twice in a row.  The    *)
(* stores: how large the manifest grows and which blobs are kept, whoever  *)
(* calls, as long as nobody prunes by command.                             *)
(***************************************************************************)
EXTENDS EvaluatorProofs

-----------------------------------------------------------------------------
(* Lemmas about the newest entries.                                        *)

\* Entries are told apart by their times.
Distinct(m) == \A s, t \in m : s.ts = t.ts => s = t

\* A collection leaves the newest entry.
LEMMA NewestKept ==
  ASSUME NEW m \in SUBSET Snapshot, IsFiniteSet(m)
  PROVE  Newest(Kept(m)) = Newest(m)
<1>1. Kept(m) \subseteq m
  BY KeptSubset
<1>2. ASSUME NEW s \in Newest(m)
      PROVE  s \in Newest(Kept(m))
  <2>1. s \in m /\ Newer(s, m) = {}
    BY <1>2 DEF Newest
  <2>2. s \in Kept(m)
    BY <2>1, FS_EmptySet, ConfigAssumption DEF Kept
  <2>3. Newer(s, Kept(m)) = {}
    BY <1>1, <2>1 DEF Newer
  <2> QED
    BY <2>2, <2>3 DEF Newest
<1>3. ASSUME NEW s \in Newest(Kept(m))
      PROVE  s \in Newest(m)
  <2>1. s \in m /\ s \in Kept(m) /\ Newer(s, Kept(m)) = {}
    BY <1>1, <1>3 DEF Newest
  <2>2. PICK u \in Newest(m) : TRUE
    BY <2>1, NewestExists
  <2>3. u \in Kept(m) /\ u \in m /\ Newer(u, m) = {}
    BY <1>2, <2>2 DEF Newest
  <2>4. /\ \A t \in m : ~(t.ts > u.ts) /\ t.ts \in Nat
        /\ ~(u.ts > s.ts) /\ u.ts \in Nat /\ s.ts \in Nat
    BY <2>1, <2>3 DEF Newer, Snapshot
  <2>5. \A t \in m : ~(t.ts > s.ts)
    BY <2>4
  <2> QED
    BY <2>1, <2>5 DEF Newest, Newer
<1> QED
  BY <1>2, <1>3

\* An entry later than all others is the newest, and the baseline.
LEMMA NewestAppended ==
  ASSUME NEW m \in SUBSET Snapshot, NEW a \in Snapshot, \A s \in m : a.ts > s.ts
  PROVE  BaselineFrom(m \cup {a}) = [mtime |-> a.mtime, hash |-> a.hash, time |-> a.ts]
<1>1. Newest(m \cup {a}) = {a}
  <2>1. \A s \in m \cup {a} : ~(s.ts > a.ts)
    BY DEF Snapshot
  <2>2. Newer(a, m \cup {a}) = {}
    BY <2>1 DEF Newer
  <2>3. \A s \in m : a \in Newer(s, m \cup {a})
    BY DEF Newer
  <2> QED
    BY <2>2, <2>3 DEF Newest
<1> QED
  BY <1>1 DEF BaselineFrom

\* The baseline has the hash of each entry that no other is newer than.
LEMMA BaselineHash ==
  ASSUME NEW m \in SUBSET Snapshot, IsFiniteSet(m), Distinct(m), NEW s \in Newest(m)
  PROVE  BaselineFrom(m).hash = s.hash
<1>1. \A t \in Newest(m) : t = s
  <2> SUFFICES ASSUME NEW t \in Newest(m) PROVE t = s
    OBVIOUS
  <2>1. t \in m /\ s \in m /\ ~(t.ts > s.ts) /\ ~(s.ts > t.ts)
    BY DEF Newest, Newer
  <2>2. t.ts = s.ts
    BY <2>1 DEF Snapshot
  <2> QED
    BY <2>1, <2>2 DEF Distinct
<1> QED
  BY <1>1 DEF BaselineFrom

\* What a collection leaves has no new neighbours.
LEMMA RepeatsKept ==
  ASSUME NEW m \in SUBSET Snapshot, IsFiniteSet(m)
  PROVE  Repeats(Kept(m)) \subseteq Repeats(m)
<1>1. Kept(m) \subseteq m
  BY KeptSubset
<1>2. ASSUME NEW s \in Kept(m), NEW u \in m, s.ts < u.ts
      PROVE  u \in Kept(m)
  <2>1. Newer(u, m) \subseteq Newer(s, m) /\ Newer(s, m) \subseteq m
    <3>1. \A t \in m : t.ts \in Nat
      BY DEF Snapshot
    <3> QED
      BY <1>1, <1>2, <3>1 DEF Newer
  <2>2. IsFiniteSet(Newer(s, m))
    BY <2>1, FS_Subset
  <2>3. IsFiniteSet(Newer(u, m)) /\ Cardinality(Newer(u, m)) <= Cardinality(Newer(s, m))
    BY <2>1, <2>2, FS_Subset
  <2>4. Cardinality(Newer(u, m)) \in Nat /\ Cardinality(Newer(s, m)) \in Nat
    BY <2>2, <2>3, FS_CardinalityType
  <2> QED
    BY <2>3, <2>4, ConfigAssumption DEF Kept
<1>3. ASSUME NEW p \in Repeats(Kept(m))
      PROVE  p \in Repeats(m)
  <2>1. /\ p \in Kept(m) \X Kept(m) /\ p[1].ts < p[2].ts /\ p[1].hash = p[2].hash
        /\ \A u \in Kept(m) : u.ts <= p[1].ts \/ u.ts >= p[2].ts
    BY DEF Repeats
  <2>2. \A u \in m : u.ts <= p[1].ts \/ u.ts >= p[2].ts
    <3>1. \A u \in m : u.ts \in Nat
      BY DEF Snapshot
    <3> QED
      BY <1>1, <1>2, <2>1, <3>1
  <2>3. p \in m \X m
    BY <1>1, <2>1
  <2> QED
    BY <2>1, <2>2, <2>3 DEF Repeats
<1> QED
  BY <1>3

\* A later entry of another hash than the newest repeats none.
LEMMA RepeatsAppended ==
  ASSUME NEW m \in SUBSET Snapshot, IsFiniteSet(m), Distinct(m),
         NEW a \in Snapshot, \A s \in m : a.ts > s.ts, a.hash # BaselineFrom(m).hash
  PROVE  Repeats(m \cup {a}) \subseteq Repeats(m)
<1>0. a.ts \in Nat /\ \A s \in m : s.ts \in Nat
  BY DEF Snapshot
<1>1. ASSUME NEW p \in Repeats(m \cup {a})
      PROVE  p \in Repeats(m)
  <2>1. /\ p \in (m \cup {a}) \X (m \cup {a}) /\ p[1].ts < p[2].ts /\ p[1].hash = p[2].hash
        /\ \A u \in m \cup {a} : u.ts <= p[1].ts \/ u.ts >= p[2].ts
    BY DEF Repeats
  <2>2. p[1] \in m
    BY <1>0, <2>1
  <2>3. p[2] \in m
    <3>1. SUFFICES ASSUME p[2] = a PROVE FALSE
      BY <2>1
    <3>2. \A u \in m : ~(u.ts > p[1].ts)
      BY <1>0, <2>1, <2>2, <3>1
    <3>3. p[1] \in Newest(m)
      BY <2>2, <3>2 DEF Newest, Newer
    <3> QED
      BY <2>1, <3>1, <3>3, BaselineHash
  <2>4. p \in m \X m
    BY <2>1, <2>2, <2>3
  <2> QED
    BY <2>1, <2>4 DEF Repeats
<1> QED
  BY <1>1

-----------------------------------------------------------------------------
(* A daemon that is not called.                                            *)

Uncalled == \A p \in Clients : rpc[p] \in Replies

\* Its baseline is that of the newest entry, or it began with none, and an
\* evaluation that has passed the comparison has something else to record.
CalmInv ==
  /\ up => base = IF blind THEN NoBaseline ELSE BaselineFrom(manifest)
  /\ ~up => ev.pc = "idle" /\ ~blind
  /\ ev.pc \in {"commit", "copy", "load", "save"} => ev.hash # base.hash
  /\ Distinct(manifest)

UncalledInv == calls = 0 => Uncalled /\ StoreInv /\ HistoryInv /\ CalmInv

\* Nobody is called as long as nobody has been.
LEMMA UncalledStep ==
  TypeOK /\ Uncalled /\ [Next]_vars /\ calls' = 0 => Uncalled'
<1> SUFFICES ASSUME TypeOK, Uncalled, [Next]_vars, calls' = 0 PROVE Uncalled'
  OBVIOUS
<1>1. ASSUME NEW p \in Clients, HandlerRun(p) \/ HandlerFail(p) PROVE FALSE
  <2>1. rpc[p] \in {"none", "paused", "ok", "err"}
    BY DEF Uncalled, Replies
  <2> QED
    BY <1>1, <2>1
       DEF HandlerRun, HandlerFail, Pause, ResumeLock, ResumeStat, ResumeHash, ResumeError,
           PruneLoad, PruneScan, PruneRemove, PruneTrim, PruneError
<1>2. ASSUME NEW p \in Clients, NEW cmd \in Cmds, Request(p, cmd) PROVE FALSE
  BY <1>2 DEF Request, TypeOK
<1>3. CASE Exit
  BY <1>3 DEF Exit, Uncalled, Replies, TypeOK
<1>4. CASE UNCHANGED rpc
  BY <1>4 DEF Uncalled
<1>5. CASE EvRun \/ EvFail
  BY <1>4, <1>5
     DEF EvRun, EvFail, EvStart, EvStat, EvGate, EvHash, EvDrop, EvDedup, EvCommit, EvCopy,
         EvLoad, EvSave, EvScan, EvRemove, EvTrim, EvIOError, EvGcError, evFrame, handlers
<1>6. CASE Surroundings \/ Rest \/ UNCHANGED vars
  BY <1>3, <1>4, <1>6 DEF Surroundings, Save, FsEvent, Tick, Start, Rest, vars, handlers
<1> QED
  BY <1>1, <1>2, <1>5, <1>6 DEF Next, DaemonStep

\* The baseline moves with the newest entry.
LEMMA CalmStep ==
  TypeOK /\ TypeOK' /\ Uncalled /\ StoreInv /\ HistoryInv /\ CalmInv /\ [Next]_vars /\ calls' = 0
    => CalmInv'
<1> SUFFICES ASSUME TypeOK, TypeOK', Uncalled, StoreInv, HistoryInv, CalmInv,
                    [Next]_vars, calls' = 0
             PROVE  CalmInv'
  OBVIOUS
<1> USE DEF vars, stores, daemon, handlers, bounds, evFrame, Fault, Committing
<1>idle. IdleEv.pc = "idle"
  BY DEF IdleEv
<1>calm. ASSUME UNCHANGED <<manifest, base, blind, up>>,
                ev'.pc \in {"commit", "copy", "load", "save"} => ev'.hash # base.hash,
                ~up => ev'.pc = "idle"
         PROVE  CalmInv'
  BY <1>calm DEF CalmInv
<1>1. ASSUME NEW p \in Clients, HandlerRun(p) \/ HandlerFail(p) PROVE FALSE
  <2>1. rpc[p] \in {"none", "paused", "ok", "err"}
    BY DEF Uncalled, Replies
  <2> QED
    BY <1>1, <2>1
       DEF HandlerRun, HandlerFail, Pause, ResumeLock, ResumeStat, ResumeHash, ResumeError,
           PruneLoad, PruneScan, PruneRemove, PruneTrim, PruneError
<1>2. ASSUME NEW p \in Clients, NEW cmd \in Cmds, Request(p, cmd) PROVE FALSE
  BY <1>2 DEF Request, TypeOK
<1>3. ASSUME NEW c \in Contents, Save(c) PROVE CalmInv'
  BY <1>calm, <1>3 DEF Save, CalmInv
<1>4. CASE FsEvent \/ Tick \/ Rest \/ UNCHANGED vars
  BY <1>calm, <1>4 DEF FsEvent, Tick, Rest, CalmInv
<1>5. CASE Exit
  BY <1>5, <1>idle DEF Exit, CalmInv
<1>6. CASE Start
  BY <1>6, <1>idle DEF Start, CalmInv
<1>7. CASE EvStart
  BY <1>calm, <1>7 DEF EvStart, CalmInv, IdleEv
<1>8. CASE EvStat
  BY <1>calm, <1>8 DEF EvStat, CalmInv, TypeOK, EvRecords
<1>9. CASE EvGate
  BY <1>calm, <1>idle, <1>9 DEF EvGate, CalmInv, TypeOK, EvRecords
<1>10. CASE EvHash
  BY <1>calm, <1>10 DEF EvHash, CalmInv, TypeOK, EvRecords
<1>11. CASE EvDedup
  BY <1>calm, <1>idle, <1>11 DEF EvDedup, CalmInv, TypeOK, EvRecords
<1>12. CASE EvCommit \/ EvCopy \/ EvLoad \/ EvScan \/ \E h \in Hashes : EvRemove(h)
  BY <1>calm, <1>12
     DEF EvCommit, EvCopy, EvLoad, EvScan, EvRemove, CalmInv, TypeOK, EvRecords
<1>13. CASE EvFail
  BY <1>calm, <1>idle, <1>13 DEF EvFail, EvDrop, EvIOError, EvGcError, CalmInv
\* The new entry is the newest.
<1>14. CASE EvSave
  <2>1. /\ manifest' = manifest \cup {AutoSnapshot} /\ up' = up /\ up
        /\ base' = [mtime |-> AutoSnapshot.mtime, hash |-> AutoSnapshot.hash,
                    time |-> AutoSnapshot.ts]
    BY <1>14 DEF EvSave, StoreInv, PipelineInv, CalmInv, AutoSnapshot
  <2>2. AutoSnapshot \in Snapshot /\ manifest \in SUBSET Snapshot /\ IsFiniteSet(manifest)
    BY <1>14 DEF EvSave, StoreInv, HashKnown, TypeOK, EvRecords, AutoSnapshot, Snapshot, Tags
  <2>3. \A s \in manifest : AutoSnapshot.ts > s.ts
    BY <1>14, <2>2 DEF EvSave, HistoryInv, AutoSnapshot, Snapshot
  <2>4. base' = BaselineFrom(manifest)'
    <3>1. BaselineFrom(manifest \cup {AutoSnapshot}) = base'
      BY <2>1, <2>2, <2>3, NewestAppended
    <3> QED
      BY <2>1, <3>1 DEF BaselineFrom, Newest, Newer
  <2>5. Distinct(manifest \cup {AutoSnapshot})
    BY <2>2, <2>3 DEF CalmInv, Distinct, Snapshot
  <2>6. ev'.pc \in {"scan", "idle"} /\ ~blind'
    BY <1>14, <1>idle DEF EvSave, TypeOK, EvRecords
  <2> QED
    BY <2>1, <2>4, <2>5, <2>6 DEF CalmInv, Distinct
\* A collection leaves the newest entry.
<1>15. CASE EvTrim
  <2>1. /\ manifest' = Kept(manifest) /\ base' = base /\ blind' = blind /\ up' = up
        /\ ev' = IdleEv
    BY <1>15 DEF EvTrim, StoreInv, PipelineInv
  <2>2. manifest \in SUBSET Snapshot /\ IsFiniteSet(manifest) /\ Kept(manifest) \subseteq manifest
    BY KeptSubset DEF TypeOK
  <2>3. BaselineFrom(manifest)' = BaselineFrom(manifest)
    BY <2>1, <2>2, NewestKept DEF BaselineFrom, Newest, Newer
  <2>4. Distinct(Kept(manifest))
    BY <2>2 DEF CalmInv, Distinct
  <2> QED
    BY <1>idle, <2>1, <2>3, <2>4 DEF CalmInv, Distinct
<1> QED
  BY <1>1, <1>2, <1>3, <1>4, <1>5, <1>6, <1>7, <1>8, <1>9, <1>10, <1>11, <1>12, <1>13, <1>14, <1>15
     DEF Next, DaemonStep, EvRun, Surroundings

\* The invariant holds in every reachable state, whatever commands there are.
THEOREM UncalledInvariant == Spec => []UncalledInv
<1>1. Init => UncalledInv
  BY ClientAssumption
     DEF Init, UncalledInv, Uncalled, Replies, CalmInv, Distinct, BaselineFrom, Newest,
         StoreInv, HashKnown, MutexInv, PipelineInv, NoPrune, NewestRestorable,
         HistoryInv, Committing, IdleEv, Kept
<1>2. TypeOK /\ TypeOK' /\ UncalledInv /\ [Next]_vars => UncalledInv'
  <2> SUFFICES ASSUME TypeOK, TypeOK', UncalledInv, [Next]_vars, calls' = 0
               PROVE  Uncalled' /\ StoreInv' /\ HistoryInv' /\ CalmInv'
    BY DEF UncalledInv
  <2>1. calls = 0
    BY DEF Next, DaemonStep, EvRun, EvFail, HandlerRun, HandlerFail, Surroundings,
         EvStart, EvStat, EvGate, EvHash, EvDrop, EvDedup, EvCommit, EvCopy,
         EvLoad, EvSave, EvScan, EvRemove, EvTrim, EvIOError, EvGcError,
         Pause, ResumeLock, ResumeStat, ResumeHash, ResumeError,
         PruneLoad, PruneScan, PruneRemove, PruneTrim, PruneError,
         Save, FsEvent, Tick, Exit, Start, Request, Rest,
         evFrame, hFrame, vars, bounds, TypeOK
  <2>2. Uncalled /\ StoreInv /\ HistoryInv /\ CalmInv
    BY <2>1 DEF UncalledInv
  <2>3. Uncalled'
    BY <2>2, UncalledStep
  <2>4. HashKnown' /\ MutexInv' /\ PipelineInv' /\ NewestRestorable'
    BY <2>2, TypeStep, MutexStep, PipelineStep DEF StoreInv
  <2>5. NoPrune'
    BY <2>3 DEF Uncalled, NoPrune, Replies
  <2>6. HistoryInv'
    BY <2>2, HistoryStep
  <2>7. CalmInv'
    BY <2>2, CalmStep
  <2> QED
    BY <2>3, <2>4, <2>5, <2>6, <2>7 DEF StoreInv
<1> QED
  BY <1>1, <1>2, TypeCorrect, PTL DEF Spec

\* A daemon that is not called compares the file with the newest entry of the
\* manifest: the baseline that Evaluate keeps is the one that NewEvaluator would
\* read, after any failed step, collection or restart, except that a manifest
\* that could not be read at the start leaves it empty until the next entry.
THEOREM BaselineFollowsManifest == Spec => []BaselineIsNewest
<1>1. UncalledInv => BaselineIsNewest
  BY DEF UncalledInv, CalmInv, BaselineIsNewest
<1> QED
  BY <1>1, UncalledInvariant, PTL

\* So it never records what the newest entry has, also with a crash or a
\* collection between, unless it could not read the manifest at its start.
THEOREM NeverTwiceInARow == Spec => NoConsecutiveDuplicates
<1>1. TypeOK /\ UncalledInv /\ [Next]_vars =>
        [calls = 0 /\ ~blind => Repeats(manifest') \subseteq Repeats(manifest)]_vars
  <2> SUFFICES ASSUME TypeOK, UncalledInv, Next, calls = 0, ~blind, manifest' # manifest
               PROVE  Repeats(manifest') \subseteq Repeats(manifest)
    OBVIOUS
  <2>0. /\ Uncalled /\ StoreInv /\ HistoryInv /\ CalmInv
        /\ manifest \in SUBSET Snapshot /\ IsFiniteSet(manifest)
    BY DEF UncalledInv, TypeOK
  <2>1. EvSave \/ EvTrim
    <3>1. ASSUME NEW p \in Clients, HandlerRun(p) \/ HandlerFail(p) PROVE FALSE
      <4>1. rpc[p] \in {"none", "paused", "ok", "err"}
        BY <2>0 DEF Uncalled, Replies
      <4> QED
        BY <3>1, <4>1
           DEF HandlerRun, HandlerFail, Pause, ResumeLock, ResumeStat, ResumeHash, ResumeError,
               PruneLoad, PruneScan, PruneRemove, PruneTrim, PruneError
    <3>2. ~Surroundings /\ ~Rest /\ \A p \in Clients, cmd \in Cmds : ~Request(p, cmd)
      BY DEF Surroundings, Save, FsEvent, Tick, Exit, Start, Request, Rest, vars, stores
    <3>3. ~EvFail
      BY DEF EvFail, EvDrop, EvIOError, EvGcError, stores
    <3>4. ~(\/ EvStart \/ EvStat \/ EvGate \/ EvHash \/ EvDedup \/ EvCommit \/ EvCopy
            \/ EvLoad \/ EvScan \/ \E h \in Hashes : EvRemove(h))
      BY DEF EvStart, EvStat, EvGate, EvHash, EvDedup, EvCommit, EvCopy, EvLoad, EvScan,
             EvRemove, stores
    <3> QED
      BY <3>1, <3>2, <3>3, <3>4 DEF Next, DaemonStep, EvRun
  <2>2. CASE EvSave
    <3>1. manifest' = manifest \cup {AutoSnapshot}
      BY <2>0, <2>2 DEF EvSave, StoreInv, PipelineInv
    <3>2. AutoSnapshot \in Snapshot
      BY <2>0, <2>2 DEF EvSave, StoreInv, HashKnown, Committing, TypeOK, EvRecords, AutoSnapshot,
           Snapshot, Tags
    <3>3. \A s \in manifest : AutoSnapshot.ts > s.ts
      BY <2>0, <2>2, <3>2 DEF EvSave, HistoryInv, AutoSnapshot, Snapshot
    <3>4. up
      BY <2>0, <2>2 DEF EvSave, CalmInv
    <3>5. AutoSnapshot.hash # BaselineFrom(manifest).hash
      BY <2>0, <2>2, <3>4 DEF EvSave, CalmInv, AutoSnapshot
    <3> QED
      BY <2>0, <3>1, <3>2, <3>3, <3>5, RepeatsAppended DEF CalmInv
  <2>3. CASE EvTrim
    <3>1. manifest' = Kept(manifest)
      BY <2>0, <2>3 DEF EvTrim, StoreInv, PipelineInv
    <3> QED
      BY <2>0, <3>1, RepeatsKept
  <2> QED
    BY <2>1, <2>2, <2>3
<1> QED
  BY <1>1, UncalledInvariant, TypeCorrect, PTL DEF Spec, NoConsecutiveDuplicates

-----------------------------------------------------------------------------
(* Lemmas about the operators of the stores.                               *)

\* A manifest that has entries has an oldest one: it has the most newer ones.
LEMMA OldestExists ==
  ASSUME NEW m \in SUBSET Snapshot, IsFiniteSet(m), m # {}
  PROVE  \E s \in m : \A t \in m : s.ts <= t.ts
<1> DEFINE Older(s) == {t \in m : t.ts < s.ts}
           T == {Older(s) : s \in m}
<1>1. T \subseteq FiniteSubsetsOf(m) /\ T # {}
  <2>1. \A s \in m : Older(s) \subseteq m /\ IsFiniteSet(Older(s))
    BY FS_Subset
  <2> QED
    BY <2>1 DEF FiniteSubsetsOf
<1>2. PICK x \in T : \A y \in T : <<y, x>> \notin StrictSubsetOrdering(m)
  BY <1>1, FS_StrictSubsetOrderingWellFounded, WFMin
<1>3. PICK s \in m : x = Older(s)
  BY <1>2
<1>4. ASSUME NEW u \in m, ~(s.ts <= u.ts) PROVE FALSE
  <2>1. u.ts \in Nat /\ s.ts \in Nat /\ u.ts < s.ts /\ u \in Older(s)
    BY <1>4 DEF Snapshot
  <2>2. Older(u) \subseteq Older(s)
    <3>1. \A t \in m : t.ts \in Nat
      BY DEF Snapshot
    <3> QED
      BY <2>1, <3>1
  <2>3. u \notin Older(u)
    BY <2>1
  <2>4. <<Older(u), Older(s)>> \in StrictSubsetOrdering(m)
    BY <2>1, <2>2, <2>3 DEF StrictSubsetOrdering
  <2> QED
    BY <1>2, <1>3, <2>4
<1> QED
  BY <1>4

\* Prune leaves at most max_snapshots entries: all that it leaves but the
\* oldest are newer than that one.
LEMMA KeptBound ==
  ASSUME NEW m \in SUBSET Snapshot, IsFiniteSet(m), Distinct(m), MaxSnapshots > 0
  PROVE  Cardinality(Kept(m)) <= MaxSnapshots
<1>1. Kept(m) \subseteq m /\ IsFiniteSet(Kept(m))
  BY KeptSubset
<1>2. CASE Kept(m) = {}
  BY <1>2, FS_EmptySet, ConfigAssumption
<1>3. CASE Kept(m) # {}
  <2>1. PICK s \in Kept(m) : \A t \in Kept(m) : s.ts <= t.ts
    BY <1>1, <1>3, OldestExists
  <2>2. Kept(m) \subseteq Newer(s, m) \cup {s}
    <3>1. \A t \in m : t.ts \in Nat
      BY DEF Snapshot
    <3> QED
      BY <1>1, <2>1, <3>1 DEF Newer, Distinct
  <2>3. Newer(s, m) \subseteq m
    BY DEF Newer
  <2>4. IsFiniteSet(Newer(s, m)) /\ Cardinality(Newer(s, m)) \in Nat
    BY <2>3, FS_Subset, FS_CardinalityType
  <2>5. Cardinality(Newer(s, m)) < MaxSnapshots
    BY <2>1 DEF Kept
  <2>6. /\ IsFiniteSet(Newer(s, m) \cup {s})
        /\ Cardinality(Newer(s, m) \cup {s}) <= Cardinality(Newer(s, m)) + 1
    <3>1. /\ IsFiniteSet(Newer(s, m) \cup {s})
          /\ Cardinality(Newer(s, m) \cup {s}) =
               IF s \in Newer(s, m) THEN Cardinality(Newer(s, m)) ELSE Cardinality(Newer(s, m)) + 1
      BY <2>4, FS_AddElement
    <3> QED
      BY <2>4, <3>1
  <2>7. /\ Cardinality(Kept(m)) <= Cardinality(Newer(s, m) \cup {s})
        /\ Cardinality(Kept(m)) \in Nat /\ Cardinality(Newer(s, m) \cup {s}) \in Nat
    BY <1>1, <2>2, <2>6, FS_Subset, FS_CardinalityType
  <2> QED
    BY <2>4, <2>5, <2>6, <2>7, ConfigAssumption
<1> QED
  BY <1>2, <1>3

-----------------------------------------------------------------------------
(* The size of the manifest.                                               *)

Collecting == {"scan", "sweep"}

\* Each failure leaves at most the one entry that a collection did not remove.
SizeInv ==
  /\ Distinct(manifest)
  /\ MaxSnapshots > 0 =>
       Cardinality(manifest) <= MaxSnapshots + faults + IF ev.pc \in Collecting THEN 1 ELSE 0

\* No step adds an entry to a manifest that is over its limit without a
\* collection that follows.
LEMMA SizeStep ==
  TypeOK /\ TypeOK' /\ StoreInv /\ HistoryInv /\ SizeInv /\ [Next]_vars => SizeInv'
<1> SUFFICES ASSUME TypeOK, TypeOK', StoreInv, HistoryInv, SizeInv, [Next]_vars
             PROVE  SizeInv'
  OBVIOUS
<1> USE DEF vars, stores, daemon, handlers, bounds, evFrame, hFrame, Fault, Collecting
<1>idle. IdleEv.pc = "idle"
  BY DEF IdleEv
<1>card. /\ IsFiniteSet(manifest) /\ Cardinality(manifest) \in Nat /\ faults \in Nat
         /\ MaxSnapshots \in Nat
  BY FS_CardinalityType, ConfigAssumption DEF TypeOK
<1>same. ASSUME manifest' = manifest, faults' = faults, ev.pc \in Collecting => ev'.pc \in Collecting
         PROVE  SizeInv'
  BY <1>same, <1>card DEF SizeInv, Distinct
<1>fail. ASSUME manifest' = manifest, faults' = faults + 1
         PROVE  SizeInv'
  BY <1>fail, <1>card DEF SizeInv, Distinct
<1>1. ASSUME NEW p \in Clients, HandlerRun(p) \/ HandlerFail(p)
      PROVE  SizeInv'
  <2>1. rpc[p] \notin {"prune", "pscan", "psweep"}
    BY DEF StoreInv, NoPrune
  <2>2. UNCHANGED <<ev, manifest>> /\ faults' \in {faults, faults + 1}
    BY <1>1, <2>1 DEF HandlerRun, HandlerFail, Pause, ResumeLock, ResumeStat, ResumeHash,
         ResumeError, PruneLoad, PruneScan, PruneRemove, PruneTrim, PruneError
  <2> QED
    BY <1>same, <1>fail, <2>2
<1>2. CASE \/ \E c \in Contents : Save(c)
           \/ FsEvent \/ Tick \/ Start \/ Rest \/ UNCHANGED vars
           \/ \E p \in Clients, cmd \in Cmds : Request(p, cmd)
  BY <1>same, <1>fail, <1>2 DEF Save, FsEvent, Tick, Start, Rest, Request
<1>3. CASE Exit \/ EvFail
  BY <1>fail, <1>3 DEF Exit, EvFail, EvDrop, EvIOError, EvGcError
<1>4. CASE \/ EvStart \/ EvStat \/ EvGate \/ EvHash \/ EvDedup \/ EvCommit \/ EvCopy \/ EvLoad
           \/ EvScan \/ \E h \in Hashes : EvRemove(h)
  BY <1>same, <1>4
     DEF EvStart, EvStat, EvGate, EvHash, EvDedup, EvCommit, EvCopy, EvLoad, EvScan, EvRemove,
         TypeOK, EvRecords
<1>5. CASE EvSave
  <2>1. manifest' = ev.man /\ ev.man = manifest \cup {AutoSnapshot} /\ faults' = faults
    BY <1>5 DEF EvSave, StoreInv, PipelineInv
  <2>2. Distinct(manifest')
    <3>1. \A s \in manifest : s.ts \in Nat /\ s.ts < AutoSnapshot.ts
      BY <1>5 DEF EvSave, HistoryInv, AutoSnapshot, TypeOK, Snapshot
    <3> QED
      BY <2>1, <3>1 DEF SizeInv, Distinct
  <2>3. /\ Cardinality(manifest') <= Cardinality(manifest) + 1
        /\ Cardinality(manifest') \in Nat
    <3> DEFINE a == AutoSnapshot
    <3> HIDE DEF a
    <3>1. /\ IsFiniteSet(manifest \cup {a})
          /\ Cardinality(manifest \cup {a}) =
               IF a \in manifest THEN Cardinality(manifest) ELSE Cardinality(manifest) + 1
      BY <1>card, FS_AddElement
    <3> QED
      BY <1>card, <2>1, <3>1 DEF a
  <2>4. CASE OverLimit(ev.man)
    <3>1. ev'.pc = "scan"
      BY <1>5, <2>4 DEF EvSave, TypeOK, EvRecords
    <3>2. MaxSnapshots > 0 => Cardinality(manifest) <= MaxSnapshots + faults
      BY <1>5, <1>card DEF EvSave, SizeInv
    <3> QED
      BY <1>card, <2>1, <2>2, <2>3, <3>1, <3>2 DEF SizeInv, Distinct
  <2>5. CASE ~OverLimit(ev.man)
    <3>1. MaxSnapshots > 0 => Cardinality(manifest') <= MaxSnapshots
      BY <1>card, <2>1, <2>3, <2>5 DEF OverLimit
    <3> QED
      BY <1>card, <2>1, <2>2, <2>3, <3>1 DEF SizeInv, Distinct
  <2> QED
    BY <2>4, <2>5
<1>6. CASE EvTrim
  <2>1. manifest' = Kept(manifest) /\ faults' = faults
    BY <1>6 DEF EvTrim, StoreInv, PipelineInv
  <2>2. Kept(manifest) \subseteq manifest /\ IsFiniteSet(Kept(manifest))
    BY <1>card, KeptSubset
  <2>3. Distinct(manifest')
    BY <2>1, <2>2 DEF SizeInv, Distinct
  <2>4. MaxSnapshots > 0 => Cardinality(manifest') <= MaxSnapshots
    BY <1>card, <2>1, KeptBound DEF SizeInv, TypeOK
  <2>5. Cardinality(manifest') \in Nat
    BY <2>1, <2>2, FS_CardinalityType
  <2> QED
    BY <1>card, <2>1, <2>3, <2>4, <2>5 DEF SizeInv, Distinct
<1> QED
  BY <1>1, <1>2, <1>3, <1>4, <1>5, <1>6 DEF Next, DaemonStep, EvRun, Surroundings

-----------------------------------------------------------------------------
(* The blobs that are kept.                                                *)

Blobs == {h \in Hashes : HasBlob(h)}

\* Without failures: which blobs there are beside those of the manifest, at each
\* point of an evaluation.
CountInv ==
  faults = 0 =>
    /\ ev.pc \in {"idle", "stat", "gate", "hash", "dedup", "commit", "copy", "scan"} =>
         Blobs = HashSet(manifest)
    /\ ev.pc \in {"load", "save"} => Blobs = HashSet(manifest) \cup {ev.hash}
    /\ ev.pc = "sweep" => Blobs = HashSet(Kept(manifest)) \cup ev.doomed

\* A blob is added for the entry that follows, and removed with the last one.
LEMMA CountStep ==
  TypeOK /\ TypeOK' /\ StoreInv /\ CountInv /\ [Next]_vars => CountInv'
<1> SUFFICES ASSUME TypeOK, TypeOK', StoreInv, CountInv, [Next]_vars, faults' = 0
             PROVE  CountInv'
  BY DEF CountInv
<1> USE DEF vars, stores, daemon, handlers, bounds, evFrame, hFrame
<1>idle. IdleEv.pc = "idle"
  BY DEF IdleEv
<1>calm. ASSUME UNCHANGED <<stores, ev, faults>>
         PROVE  CountInv'
  BY <1>calm DEF CountInv, Blobs, HasBlob, HashSet, Kept, Newer
<1>1. ~Fault
  BY DEF Fault, TypeOK
<1>2. ASSUME NEW p \in Clients, HandlerRun(p) \/ HandlerFail(p)
      PROVE  CountInv'
  <2>1. rpc[p] \notin {"prune", "pscan", "psweep"}
    BY DEF StoreInv, NoPrune
  <2>2. UNCHANGED <<stores, ev, faults>>
    BY <1>1, <1>2, <2>1 DEF HandlerRun, HandlerFail, Pause, ResumeLock, ResumeStat, ResumeHash,
         ResumeError, PruneLoad, PruneScan, PruneRemove, PruneTrim, PruneError
  <2> QED
    BY <1>calm, <2>2
<1>3. CASE \/ \E c \in Contents : Save(c)
           \/ FsEvent \/ Tick \/ Start \/ Rest \/ UNCHANGED vars
           \/ \E p \in Clients, cmd \in Cmds : Request(p, cmd)
  BY <1>calm, <1>1, <1>3 DEF Save, FsEvent, Tick, Start, Fault, Rest, Request
<1>4. ~Exit /\ ~EvFail
  BY <1>1 DEF Exit, EvFail, EvDrop, EvIOError, EvGcError
<1>5. /\ ev \in EvRecords /\ manifest \in SUBSET Snapshot /\ blobs \in [Hashes -> Contents \cup {NoContent}]
  BY DEF TypeOK
<1>6. ASSUME UNCHANGED <<stores, faults>>
      PROVE  /\ Blobs' = Blobs /\ HashSet(manifest)' = HashSet(manifest)
             /\ HashSet(Kept(manifest))' = HashSet(Kept(manifest))
             /\ HasBlob(ev.hash) /\ ev.hash \in Hashes => ev.hash \in Blobs
  BY <1>6 DEF Blobs, HasBlob, HashSet, Kept, Newer
<1>7. CASE EvStart \/ EvStat \/ EvGate \/ EvHash \/ EvDedup
  <2>1. UNCHANGED <<stores, faults>>
    BY <1>7 DEF EvStart, EvStat, EvGate, EvHash, EvDedup
  <2>2. /\ ev.pc \in {"idle", "stat", "gate", "hash", "dedup"}
        /\ ev'.pc \in {"idle", "stat", "gate", "hash", "dedup", "commit"}
    BY <1>5, <1>7, <1>idle DEF EvStart, EvStat, EvGate, EvHash, EvDedup, EvRecords, IdleEv
  <2> QED
    BY <1>6, <2>1, <2>2 DEF CountInv
<1>8. CASE EvCommit
  <2>1. UNCHANGED <<stores, faults>> /\ ev.pc = "commit"
    BY <1>8 DEF EvCommit
  <2>2. ev'.pc = (IF HasBlob(ev.hash) THEN "load" ELSE "copy") /\ ev'.hash = ev.hash
    BY <1>5, <1>8 DEF EvCommit, EvRecords
  <2>3. ev.hash \in Hashes
    BY <2>1 DEF StoreInv, HashKnown, Committing
  <2> QED
    BY <1>6, <2>1, <2>2, <2>3 DEF CountInv
<1>9. CASE EvCopy
  <2>1. /\ ev.pc = "copy" /\ blobs' = [blobs EXCEPT ![ev.hash] = target.content]
        /\ manifest' = manifest /\ faults' = faults
        /\ ev'.pc = "load" /\ ev'.hash = ev.hash
    BY <1>5, <1>9 DEF EvCopy, EvRecords
  <2>2. ev.hash \in Hashes /\ target.content # NoContent
    BY <2>1, ContentAssumption DEF StoreInv, HashKnown, Committing, TypeOK
  <2>3. Blobs' = Blobs \cup {ev.hash}
    BY <1>5, <2>1, <2>2 DEF Blobs, HasBlob
  <2>4. HashSet(manifest)' = HashSet(manifest)
    BY <2>1 DEF HashSet
  <2> QED
    BY <2>1, <2>3, <2>4 DEF CountInv
<1>10. CASE EvLoad
  <2>1. /\ UNCHANGED <<stores, faults>> /\ ev.pc = "load" /\ ev'.pc = "save" /\ ev'.hash = ev.hash
    BY <1>5, <1>10 DEF EvLoad, EvRecords
  <2> QED
    BY <1>6, <2>1 DEF CountInv
<1>11. CASE EvSave
  <2>1. /\ ev.pc = "save" /\ manifest' = manifest \cup {AutoSnapshot} /\ blobs' = blobs
        /\ faults' = faults /\ ev'.pc \in {"idle", "scan"}
    BY <1>5, <1>11, <1>idle DEF EvSave, EvRecords, StoreInv, PipelineInv
  <2>2. HashSet(manifest)' = HashSet(manifest) \cup {ev.hash}
    <3>1. AutoSnapshot.hash = ev.hash
      BY DEF AutoSnapshot
    <3>2. HashSet(manifest)' = {s.hash : s \in manifest \cup {AutoSnapshot}}
      BY <2>1 DEF HashSet
    <3> QED
      BY <3>1, <3>2 DEF HashSet
  <2>3. Blobs' = Blobs
    BY <2>1 DEF Blobs, HasBlob
  <2> QED
    BY <2>1, <2>2, <2>3 DEF CountInv
<1>12. CASE EvScan
  <2>1. /\ UNCHANGED <<stores, faults>> /\ ev.pc = "scan" /\ ev'.pc = "sweep"
        /\ ev'.doomed = Garbage(manifest)
    BY <1>5, <1>12 DEF EvScan, EvRecords, StoreInv, PipelineInv
  <2>2. HashSet(Kept(manifest)) \subseteq HashSet(manifest)
    BY KeptSubset DEF HashSet, TypeOK
  <2>3. Blobs = HashSet(Kept(manifest)) \cup Garbage(manifest)
    BY <2>1, <2>2 DEF CountInv, Garbage, Blobs
  <2> QED
    BY <1>6, <2>1, <2>3 DEF CountInv
<1>13. ASSUME NEW h \in Hashes, EvRemove(h)
       PROVE  CountInv'
  <2>1. /\ ev.pc = "sweep" /\ h \in ev.doomed /\ blobs' = [blobs EXCEPT ![h] = NoContent]
        /\ ev'.pc = "sweep" /\ ev'.doomed = ev.doomed \ {h}
        /\ manifest' = manifest /\ faults' = faults
    BY <1>5, <1>13 DEF EvRemove, EvRecords
  <2>2. h \notin HashSet(Kept(manifest))
    BY <2>1 DEF StoreInv, PipelineInv
  <2>3. Blobs' = Blobs \ {h}
    BY <1>5, <2>1 DEF Blobs, HasBlob
  <2>4. HashSet(Kept(manifest))' = HashSet(Kept(manifest))
    BY <2>1 DEF HashSet, Kept, Newer
  <2> QED
    BY <2>1, <2>2, <2>3, <2>4 DEF CountInv
<1>14. CASE EvTrim
  <2>1. /\ ev.pc = "sweep" /\ ev.doomed = {} /\ manifest' = Kept(manifest) /\ blobs' = blobs
        /\ faults' = faults /\ ev'.pc = "idle"
    BY <1>14, <1>idle DEF EvTrim, StoreInv, PipelineInv
  <2>2. Blobs' = Blobs
    BY <2>1 DEF Blobs, HasBlob
  <2>3. HashSet(manifest)' = HashSet(Kept(manifest))
    BY <2>1 DEF HashSet
  <2> QED
    BY <2>1, <2>2, <2>3 DEF CountInv
<1> QED
  BY <1>2, <1>3, <1>4, <1>7, <1>8, <1>9, <1>10, <1>11, <1>12, <1>13, <1>14
     DEF Next, DaemonStep, EvRun, Surroundings

-----------------------------------------------------------------------------
(* The theorems.                                                           *)

\* The invariant of the stores, with the sizes and the blobs.
THEOREM CollectionInvariant ==
  ASSUME "prune" \notin Cmds
  PROVE  Spec => [](SizeInv /\ CountInv)
<1>1. Init => StoreInv /\ HistoryInv /\ SizeInv /\ CountInv
  <2> SUFFICES ASSUME Init PROVE StoreInv /\ HistoryInv /\ SizeInv /\ CountInv
    OBVIOUS
  <2>1. StoreInv /\ HistoryInv
    BY ClientAssumption
       DEF Init, StoreInv, HashKnown, MutexInv, PipelineInv, NoPrune, NewestRestorable,
           HistoryInv, Committing, IdleEv, Kept
  <2>2. SizeInv
    BY FS_EmptySet, ConfigAssumption DEF Init, SizeInv, Distinct, IdleEv, Collecting
  <2>3. CountInv
    BY DEF Init, CountInv, Blobs, HasBlob, HashSet, IdleEv
  <2> QED
    BY <2>1, <2>2, <2>3
<1>2. TypeOK /\ TypeOK' /\ StoreInv /\ HistoryInv /\ SizeInv /\ CountInv /\ [Next]_vars
        => StoreInv' /\ HistoryInv' /\ SizeInv' /\ CountInv'
  <2> SUFFICES ASSUME TypeOK, TypeOK', StoreInv, HistoryInv, SizeInv, CountInv, [Next]_vars
               PROVE  StoreInv' /\ HistoryInv' /\ SizeInv' /\ CountInv'
    OBVIOUS
  <2>1. StoreInv'
    BY TypeStep, MutexStep, NoPruneStep, PipelineStep DEF StoreInv
  <2> QED
    BY <2>1, HistoryStep, SizeStep, CountStep
<1> QED
  BY <1>1, <1>2, TypeCorrect, PTL DEF Spec

\* The manifest exceeds max_snapshots by the entry that starts a collection, and
\* by one for each failure that kept a collection from its end: what Evaluate and
\* store.Prune promise together.
THEOREM ManifestBounded ==
  ASSUME "prune" \notin Cmds
  PROVE  Spec => []SizeBound
<1>1. TypeOK /\ SizeInv => SizeBound
  <2> SUFFICES ASSUME TypeOK, SizeInv, MaxSnapshots > 0
               PROVE  Cardinality(manifest) <= MaxSnapshots + 1 + faults
    BY DEF SizeBound
  <2>1. Cardinality(manifest) \in Nat /\ faults \in Nat /\ MaxSnapshots \in Nat
    BY FS_CardinalityType, ConfigAssumption DEF TypeOK
  <2> QED
    BY <2>1 DEF SizeInv
<1> QED
  BY <1>1, CollectionInvariant, TypeCorrect, PTL

\* As long as nothing has failed, a blob is there between evaluations if and only
\* if an entry has its hash: store.Prune deletes no blob that two entries share,
\* and leaves none behind.
THEOREM BlobsCounted ==
  ASSUME "prune" \notin Cmds
  PROVE  Spec => []RefCounted
<1>1. CountInv => RefCounted
  BY DEF CountInv, RefCounted, Blobs
<1> QED
  BY <1>1, CollectionInvariant, PTL
=============================================================================
