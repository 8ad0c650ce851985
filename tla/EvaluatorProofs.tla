--------------------------- MODULE EvaluatorProofs ---------------------------
(***************************************************************************)
(* Theorems about module Evaluator, for every set of contents, clients and *)
(* commands, every configuration and every bound.                          *)
(***************************************************************************)
EXTENDS Evaluator, FiniteSetTheorems, WellFoundedInduction, TLAPS

-----------------------------------------------------------------------------
(* Lemmas about the operators of the stores.                               *)

\* Prune only removes entries, and what it leaves of a finite manifest is
\* finite.
LEMMA KeptSubset ==
  ASSUME NEW m, IsFiniteSet(m)
  PROVE  Kept(m) \subseteq m /\ IsFiniteSet(Kept(m))
<1>1. Kept(m) \subseteq m
  BY DEF Kept
<1> QED
  BY <1>1, FS_Subset

\* An entry that is among the newest of a manifest is among the newest of any
\* part of it that has the entry.
LEMMA KeptMonotone ==
  ASSUME NEW m, IsFiniteSet(m), NEW n \in SUBSET m, NEW s \in n, s \in Kept(m)
  PROVE  s \in Kept(n)
<1>1. Newer(s, n) \subseteq Newer(s, m) /\ Newer(s, m) \subseteq m
  BY DEF Newer
<1>2. IsFiniteSet(Newer(s, m))
  BY <1>1, FS_Subset
<1>3. IsFiniteSet(Newer(s, n)) /\ Cardinality(Newer(s, n)) <= Cardinality(Newer(s, m))
  BY <1>1, <1>2, FS_Subset
<1>4. Cardinality(Newer(s, n)) \in Nat /\ Cardinality(Newer(s, m)) \in Nat
  BY <1>2, <1>3, FS_CardinalityType
<1> QED
  BY <1>3, <1>4, ConfigAssumption DEF Kept

\* The baseline NewEvaluator reads from a manifest is a baseline.
LEMMA BaselineType ==
  ASSUME NEW m \in SUBSET Snapshot
  PROVE  BaselineFrom(m) \in Baseline
<1>1. CASE Newest(m) = {}
  BY <1>1 DEF BaselineFrom, NoBaseline, Baseline, Times
<1>2. CASE Newest(m) # {}
  <2> DEFINE s == CHOOSE t \in Newest(m) : TRUE
  <2>1. s \in Newest(m)
    BY <1>2
  <2>2. s \in Snapshot
    BY <2>1 DEF Newest
  <2>3. [mtime |-> s.mtime, hash |-> s.hash, time |-> s.ts] \in Baseline
    BY <2>2 DEF Snapshot, Baseline, Times
  <2> HIDE DEF s
  <2> QED
    BY <1>2, <2>3 DEF BaselineFrom, s
<1> QED
  BY <1>1, <1>2

-----------------------------------------------------------------------------
(* Type correctness.                                                       *)

\* A daemon on a new namespace begins within the variables' kinds.
LEMMA InitType == Init => TypeOK
<1> SUFFICES ASSUME Init PROVE TypeOK
  OBVIOUS
<1>1. IsFiniteSet({})
  BY FS_EmptySet
<1>2. ev \in EvRecords /\ IsFiniteSet(ev.man)
  BY <1>1 DEF Init, IdleEv, EvRecords, EvPcs
<1>3. /\ call \in [Clients -> CallRecords] /\ rpc \in [Clients -> RpcPcs]
      /\ \A p \in Clients : IsFiniteSet(call[p].man)
  BY <1>1 DEF Init, NoCall, CallRecords, RpcPcs, Replies
<1>4. base \in Baseline
  BY DEF Init, NoBaseline, Baseline, Times
<1>5. target \in [content : Contents, mtime : Nat]
  BY DEF Init
<1>6. blobs \in [Hashes -> Contents \cup {NoContent}] /\ mu \in {"free", "eval"} \cup Clients
  BY DEF Init
<1>7. manifest \in SUBSET Snapshot /\ IsFiniteSet(manifest)
  BY <1>1 DEF Init
<1> QED
  BY <1>2, <1>3, <1>4, <1>5, <1>6, <1>7 DEF Init, TypeOK

\* Each step keeps the variables within their kinds, and a hash is only used
\* once it has been computed.
LEMMA TypeStep == TypeOK /\ HashKnown /\ [Next]_vars => TypeOK' /\ HashKnown'
<1> SUFFICES ASSUME TypeOK, HashKnown, [Next]_vars PROVE TypeOK' /\ HashKnown'
  OBVIOUS
<1> USE DEF TypeOK, HashKnown, Committing, EvRecords, EvPcs, CallRecords, RpcPcs, Replies
<1> USE DEF vars, stores, daemon, handlers, bounds, evFrame, hFrame, Fault, Reply
<1>idle. IdleEv \in EvRecords /\ IsFiniteSet(IdleEv.man) /\ IdleEv.pc = "idle"
  BY FS_EmptySet DEF IdleEv
<1>none. NoCall \in CallRecords /\ IsFiniteSet(NoCall.man)
  BY FS_EmptySet DEF NoCall
<1>1. ASSUME NEW c \in Contents, Save(c) PROVE TypeOK' /\ HashKnown'
  BY <1>idle, <1>none, <1>1 DEF Save
<1>2. CASE FsEvent
  BY <1>idle, <1>none, <1>2 DEF FsEvent
<1>3. CASE Tick
  BY <1>idle, <1>none, <1>3 DEF Tick
<1>4. CASE Exit
  <2>1. NoBaseline \in Baseline
    BY DEF NoBaseline, Baseline, Times
  <2>2. rpc' \in [Clients -> RpcPcs]
    BY <1>4 DEF Exit
  <2>3. call' \in [Clients -> CallRecords] /\ \A p \in Clients : IsFiniteSet(call'[p].man)
    BY <1>4, <1>none DEF Exit
  <2>4. up' \in BOOLEAN /\ paused' \in BOOLEAN /\ pending' \in BOOLEAN
    BY <1>4 DEF Exit
  <2>5. target' = target /\ blobs' = blobs /\ manifest' = manifest /\ clock' = clock
    BY <1>4 DEF Exit
  <2>6. base' \in Baseline /\ blind' \in BOOLEAN /\ mu' = "free" /\ ev' = IdleEv
    BY <1>4, <2>1 DEF Exit
  <2>7. events' \in Nat /\ faults' \in Nat /\ calls' \in Nat
    BY <1>4 DEF Exit
  <2> QED
    BY <1>idle, <2>2, <2>3, <2>4, <2>5, <2>6, <2>7
<1>5. CASE Start
  <2>1. NoBaseline \in Baseline /\ BaselineFrom(manifest) \in Baseline
    BY BaselineType DEF NoBaseline, Baseline, Times
  <2>2. base' \in Baseline /\ faults' \in Nat
    BY <1>5, <2>1 DEF Start
  <2>3. blind' \in BOOLEAN /\ up' \in BOOLEAN
    BY <1>5 DEF Start
  <2> QED
    BY <1>5, <2>2, <2>3 DEF Start
<1>6. CASE EvStart
  <2> DEFINE begun == [IdleEv EXCEPT !.pc = "stat", !.now = clock + 1]
  <2>1. begun \in EvRecords /\ begun.man = IdleEv.man /\ begun.pc = "stat"
    <3>1. ASSUME NEW r \in EvRecords, NEW n \in Nat
          PROVE  /\ [r EXCEPT !.pc = "stat", !.now = n] \in EvRecords
                 /\ [r EXCEPT !.pc = "stat", !.now = n].man = r.man
                 /\ [r EXCEPT !.pc = "stat", !.now = n].pc = "stat"
      OBVIOUS
    <3>2. clock + 1 \in Nat
      OBVIOUS
    <3> QED
      BY <1>idle, <3>1, <3>2
  <2> HIDE DEF begun
  <2>2. CASE paused
    BY <1>6, <2>2 DEF EvStart
  <2>3. CASE ~paused
    <3>1. ev' = begun /\ clock' = clock + 1
      BY <1>6, <2>3 DEF EvStart, begun
    <3> QED
      BY <1>6, <1>idle, <2>1, <3>1 DEF EvStart
  <2> QED
    BY <2>2, <2>3
<1>7. CASE EvStat
  BY <1>idle, <1>none, <1>7 DEF EvStat
<1>8. CASE EvGate
  BY <1>idle, <1>none, <1>8 DEF EvGate
<1>9. CASE EvHash
  <2>1. Hash(target.content) \in Hashes
    BY DEF Hashes
  <2> QED
    BY <1>idle, <1>none, <1>9, <2>1 DEF EvHash
<1>10. CASE EvDrop
  BY <1>idle, <1>none, <1>10 DEF EvDrop
<1>11. CASE EvDedup
  BY <1>idle, <1>none, <1>11 DEF EvDedup
<1>12. CASE EvCommit
  BY <1>idle, <1>none, <1>12 DEF EvCommit
<1>13. CASE EvCopy
  BY <1>idle, <1>none, <1>13 DEF EvCopy
<1>14. CASE EvLoad
  <2>1. AutoSnapshot \in Snapshot
    BY <1>14 DEF EvLoad, AutoSnapshot, Snapshot, Tags
  <2>2. IsFiniteSet(manifest \cup {AutoSnapshot})
    BY FS_AddElement
  <2> QED
    BY <1>idle, <1>none, <1>14, <2>1, <2>2 DEF EvLoad
<1>15. CASE EvSave
  <2>1. [mtime |-> ev.mtime, hash |-> ev.hash, time |-> ev.now] \in Baseline
    BY DEF Baseline, Times
  <2>2. base' \in Baseline /\ blind' \in BOOLEAN
    BY <1>15, <2>1 DEF EvSave
  <2> QED
    BY <1>idle, <1>none, <1>15, <2>2 DEF EvSave
<1>16. CASE EvScan
  <2>1. Garbage(ev.man) \subseteq Hashes
    BY DEF Garbage
  <2> QED
    BY <1>idle, <1>none, <1>16, <2>1 DEF EvScan
<1>17. ASSUME NEW h \in Hashes, EvRemove(h) PROVE TypeOK' /\ HashKnown'
  BY <1>idle, <1>none, <1>17 DEF EvRemove
<1>18. CASE EvTrim
  BY <1>idle, <1>none, <1>18, KeptSubset DEF EvTrim
<1>19. CASE EvIOError
  BY <1>idle, <1>none, <1>19 DEF EvIOError
<1>20. CASE EvGcError
  BY <1>idle, <1>none, <1>20 DEF EvGcError
<1>21. ASSUME NEW p \in Clients, NEW cmd \in Cmds, Request(p, cmd) PROVE TypeOK' /\ HashKnown'
  BY <1>idle, <1>none, <1>21, ClientAssumption DEF Request
<1>22. ASSUME NEW p \in Clients, Pause(p) PROVE TypeOK' /\ HashKnown'
  BY <1>idle, <1>none, <1>22 DEF Pause
<1>23. ASSUME NEW p \in Clients, ResumeLock(p) PROVE TypeOK' /\ HashKnown'
  BY <1>idle, <1>none, <1>23 DEF ResumeLock
<1>24. ASSUME NEW p \in Clients, ResumeStat(p) PROVE TypeOK' /\ HashKnown'
  BY <1>idle, <1>none, <1>24 DEF ResumeStat
<1>25. ASSUME NEW p \in Clients, ResumeHash(p) PROVE TypeOK' /\ HashKnown'
  <2>1. [mtime |-> call[p].mtime, hash |-> Hash(target.content),
         time |-> clock + 1] \in Baseline
    BY DEF Baseline, Times, Hashes
  <2>2. /\ rpc' \in [Clients -> RpcPcs] /\ call' \in [Clients -> CallRecords]
        /\ \A q \in Clients : IsFiniteSet(call'[q].man)
    BY <1>25, <1>none DEF ResumeHash
  <2>3. up' \in BOOLEAN /\ paused' \in BOOLEAN /\ pending' \in BOOLEAN
    BY <1>25 DEF ResumeHash
  <2>4. target' = target /\ blobs' = blobs /\ manifest' = manifest /\ ev' = ev
    BY <1>25 DEF ResumeHash
  <2>5. base' \in Baseline /\ blind' = blind /\ mu' = "free" /\ clock' \in Nat
    BY <1>25, <2>1 DEF ResumeHash
  <2>6. events' \in Nat /\ faults' \in Nat /\ calls' \in Nat
    BY <1>25 DEF ResumeHash
  <2> QED
    BY <2>2, <2>3, <2>4, <2>5, <2>6
<1>26. ASSUME NEW p \in Clients, ResumeError(p) PROVE TypeOK' /\ HashKnown'
  <2>1. /\ rpc' \in [Clients -> RpcPcs] /\ call' \in [Clients -> CallRecords]
        /\ \A q \in Clients : IsFiniteSet(call'[q].man)
    BY <1>26, <1>none DEF ResumeError
  <2>2. up' \in BOOLEAN /\ paused' \in BOOLEAN /\ pending' \in BOOLEAN
    BY <1>26 DEF ResumeError
  <2>3. target' = target /\ blobs' = blobs /\ manifest' = manifest /\ ev' = ev
    BY <1>26 DEF ResumeError
  <2>4. base' = base /\ blind' = blind /\ mu' = "free" /\ clock' = clock
    BY <1>26 DEF ResumeError
  <2>5. events' \in Nat /\ faults' \in Nat /\ calls' \in Nat
    BY <1>26 DEF ResumeError
  <2> QED
    BY <2>1, <2>2, <2>3, <2>4, <2>5
<1>27. ASSUME NEW p \in Clients, PruneLoad(p) PROVE TypeOK' /\ HashKnown'
  BY <1>idle, <1>none, <1>27 DEF PruneLoad
<1>28. ASSUME NEW p \in Clients, PruneScan(p) PROVE TypeOK' /\ HashKnown'
  <2>1. Garbage(call[p].man) \subseteq Hashes
    BY DEF Garbage
  <2> QED
    BY <1>idle, <1>none, <1>28, <2>1 DEF PruneScan
<1>29. ASSUME NEW p \in Clients, NEW h \in Hashes, PruneRemove(p, h) PROVE TypeOK' /\ HashKnown'
  BY <1>idle, <1>none, <1>29 DEF PruneRemove
<1>30. ASSUME NEW p \in Clients, PruneTrim(p) PROVE TypeOK' /\ HashKnown'
  BY KeptSubset, <1>idle, <1>none, <1>30 DEF PruneTrim
<1>31. ASSUME NEW p \in Clients, PruneError(p) PROVE TypeOK' /\ HashKnown'
  BY <1>idle, <1>none, <1>31 DEF PruneError
<1>32. CASE Rest
  BY <1>idle, <1>none, <1>32 DEF Rest
<1>33. CASE UNCHANGED vars
  BY <1>33
<1> QED
  BY <1>1, <1>2, <1>3, <1>4, <1>5, <1>6, <1>7, <1>8, <1>9, <1>10, <1>11, <1>12, <1>13, <1>14, <1>15, <1>16, <1>17, <1>18, <1>19, <1>20, <1>21, <1>22, <1>23, <1>24, <1>25, <1>26, <1>27, <1>28, <1>29, <1>30, <1>31, <1>32, <1>33
     DEF Next, DaemonStep, EvRun, EvFail, HandlerRun, HandlerFail, Surroundings

\* The type invariant holds in every reachable state, for every set of
\* contents and clients, with every command allowed.
THEOREM TypeCorrect == Spec => []TypeOK
<1>1. Init => TypeOK /\ HashKnown
  <2>1. Init => HashKnown
    BY DEF Init, HashKnown, Committing, IdleEv
  <2> QED
    BY <2>1, InitType
<1>2. TypeOK /\ HashKnown /\ [Next]_vars => TypeOK' /\ HashKnown'
  BY TypeStep
<1> QED
  BY <1>1, <1>2, PTL DEF Spec

-----------------------------------------------------------------------------
(* The newest entries stay restorable.                                     *)

\* The mutex is held by exactly the thread that is in its critical section.
LEMMA MutexStep ==
  TypeOK /\ MutexInv /\ [Next]_vars => MutexInv'
<1> SUFFICES ASSUME TypeOK, MutexInv, [Next]_vars PROVE MutexInv'
  OBVIOUS
<1> USE ClientAssumption
<1> USE DEF TypeOK, MutexInv, Committing, EvRecords, EvPcs, RpcPcs, Replies
<1> USE DEF vars, stores, daemon, handlers, bounds, evFrame, hFrame, Fault, Reply
<1>idle. IdleEv.pc = "idle"
  BY DEF IdleEv
<1>1. ASSUME NEW c \in Contents, Save(c) PROVE MutexInv'
  BY <1>idle, <1>1 DEF Save
<1>2. CASE FsEvent
  BY <1>idle, <1>2 DEF FsEvent
<1>3. CASE Tick
  BY <1>idle, <1>3 DEF Tick
<1>4. CASE Exit
  BY <1>idle, <1>4 DEF Exit
<1>5. CASE Start
  BY <1>idle, <1>5 DEF Start
<1>6. CASE EvStart
  BY <1>idle, <1>6, ZenonT(30) DEF EvStart, IdleEv
<1>7. CASE EvStat
  BY <1>idle, <1>7 DEF EvStat
<1>8. CASE EvGate
  BY <1>idle, <1>8 DEF EvGate
<1>9. CASE EvHash
  BY <1>idle, <1>9 DEF EvHash
<1>10. CASE EvDrop
  BY <1>idle, <1>10 DEF EvDrop
<1>11. CASE EvDedup
  BY <1>idle, <1>11 DEF EvDedup
<1>12. CASE EvCommit
  BY <1>idle, <1>12 DEF EvCommit
<1>13. CASE EvCopy
  BY <1>idle, <1>13 DEF EvCopy
<1>14. CASE EvLoad
  BY <1>idle, <1>14 DEF EvLoad
<1>15. CASE EvSave
  BY <1>idle, <1>15 DEF EvSave
<1>16. CASE EvScan
  BY <1>idle, <1>16 DEF EvScan
<1>17. ASSUME NEW h \in Hashes, EvRemove(h) PROVE MutexInv'
  BY <1>idle, <1>17 DEF EvRemove
<1>18. CASE EvTrim
  BY <1>idle, <1>18 DEF EvTrim
<1>19. CASE EvIOError
  BY <1>idle, <1>19 DEF EvIOError
<1>20. CASE EvGcError
  BY <1>idle, <1>20 DEF EvGcError
<1>21. ASSUME NEW p \in Clients, NEW cmd \in Cmds, Request(p, cmd) PROVE MutexInv'
  BY <1>idle, <1>21 DEF Request
<1>22. ASSUME NEW p \in Clients, Pause(p) PROVE MutexInv'
  BY <1>idle, <1>22 DEF Pause
<1>23. ASSUME NEW p \in Clients, ResumeLock(p) PROVE MutexInv'
  BY <1>idle, <1>23 DEF ResumeLock
<1>24. ASSUME NEW p \in Clients, ResumeStat(p) PROVE MutexInv'
  BY <1>idle, <1>24 DEF ResumeStat
<1>25. ASSUME NEW p \in Clients, ResumeHash(p) PROVE MutexInv'
  BY <1>idle, <1>25 DEF ResumeHash
<1>26. ASSUME NEW p \in Clients, ResumeError(p) PROVE MutexInv'
  BY <1>idle, <1>26 DEF ResumeError
<1>27. ASSUME NEW p \in Clients, PruneLoad(p) PROVE MutexInv'
  BY <1>idle, <1>27 DEF PruneLoad
<1>28. ASSUME NEW p \in Clients, PruneScan(p) PROVE MutexInv'
  BY <1>idle, <1>28 DEF PruneScan
<1>29. ASSUME NEW p \in Clients, NEW h \in Hashes, PruneRemove(p, h) PROVE MutexInv'
  BY <1>idle, <1>29 DEF PruneRemove
<1>30. ASSUME NEW p \in Clients, PruneTrim(p) PROVE MutexInv'
  BY <1>idle, <1>30 DEF PruneTrim
<1>31. ASSUME NEW p \in Clients, PruneError(p) PROVE MutexInv'
  BY <1>idle, <1>31 DEF PruneError
<1>32. CASE Rest
  BY <1>idle, <1>32 DEF Rest
<1>33. CASE UNCHANGED vars
  BY <1>33
<1> QED
  BY <1>1, <1>2, <1>3, <1>4, <1>5, <1>6, <1>7, <1>8, <1>9, <1>10, <1>11, <1>12, <1>13, <1>14, <1>15, <1>16, <1>17, <1>18, <1>19, <1>20, <1>21, <1>22, <1>23, <1>24, <1>25, <1>26, <1>27, <1>28, <1>29, <1>30, <1>31, <1>32, <1>33
     DEF Next, DaemonStep, EvRun, EvFail, HandlerRun, HandlerFail, Surroundings

\* Without the prune command no handler ever prunes.
LEMMA NoPruneStep ==
  ASSUME "prune" \notin Cmds
  PROVE  TypeOK /\ NoPrune /\ [Next]_vars => NoPrune'
<1> SUFFICES ASSUME TypeOK, NoPrune, [Next]_vars PROVE NoPrune'
  OBVIOUS
<1> USE DEF TypeOK, NoPrune, RpcPcs, Replies
<1> USE DEF vars, stores, daemon, handlers, bounds, evFrame, hFrame, Fault, Reply
<1>1. CASE UNCHANGED rpc
  BY <1>1
<1>2. CASE Exit
  BY <1>2 DEF Exit
<1>3. ASSUME NEW p \in Clients, NEW cmd \in Cmds, Request(p, cmd) PROVE NoPrune'
  BY <1>3, ClientAssumption DEF Request
<1>4. ASSUME NEW p \in Clients, Pause(p) PROVE NoPrune'
  BY <1>4 DEF Pause
<1>5. ASSUME NEW p \in Clients, ResumeLock(p) PROVE NoPrune'
  BY <1>5 DEF ResumeLock
<1>6. ASSUME NEW p \in Clients, ResumeStat(p) PROVE NoPrune'
  BY <1>6 DEF ResumeStat
<1>7. ASSUME NEW p \in Clients, ResumeHash(p) PROVE NoPrune'
  BY <1>7 DEF ResumeHash
<1>8. ASSUME NEW p \in Clients, ResumeError(p) PROVE NoPrune'
  BY <1>8 DEF ResumeError
<1>9. ASSUME NEW p \in Clients, PruneLoad(p) PROVE NoPrune'
  BY <1>9 DEF PruneLoad
<1>10. ASSUME NEW p \in Clients, PruneScan(p) PROVE NoPrune'
  BY <1>10 DEF PruneScan
<1>11. ASSUME NEW p \in Clients, NEW h \in Hashes, PruneRemove(p, h) PROVE NoPrune'
  BY <1>11 DEF PruneRemove
<1>12. ASSUME NEW p \in Clients, PruneTrim(p) PROVE NoPrune'
  BY <1>12 DEF PruneTrim
<1>13. ASSUME NEW p \in Clients, PruneError(p) PROVE NoPrune'
  BY <1>13 DEF PruneError
<1>14. CASE EvRun \/ EvFail
  BY <1>1, <1>14
     DEF EvRun, EvFail, EvStart, EvStat, EvGate, EvHash, EvDrop, EvDedup, EvCommit, EvCopy,
         EvLoad, EvSave, EvScan, EvRemove, EvTrim, EvIOError, EvGcError
<1>15. CASE Surroundings \/ Rest \/ UNCHANGED vars
  BY <1>1, <1>2, <1>15
     DEF Surroundings, Save, FsEvent, Tick, Start, Rest
<1> QED
  BY <1>1, <1>2, <1>3, <1>4, <1>5, <1>6, <1>7, <1>8, <1>9, <1>10, <1>11, <1>12, <1>13, <1>14, <1>15 DEF Next, DaemonStep, HandlerRun, HandlerFail

\* What an append and a prune do to the newest entries of a manifest whose
\* newest entries all have their blobs.
LEMMA KeptAfterAppend ==
  ASSUME TypeOK, NewestRestorable, NEW s \in Kept(manifest \cup {AutoSnapshot}),
         HasBlob(ev.hash)
  PROVE  HasBlob(s.hash)
<1>1. IsFiniteSet(manifest \cup {AutoSnapshot})
  BY FS_AddElement DEF TypeOK
<1>2. s \in manifest \cup {AutoSnapshot}
  BY <1>1, KeptSubset
<1>3. CASE s \in manifest
  <2>1. s \in Kept(manifest)
    BY <1>1, <1>3, KeptMonotone
  <2> QED
    BY <2>1 DEF NewestRestorable
<1>4. CASE s = AutoSnapshot
  BY <1>4 DEF AutoSnapshot
<1> QED
  BY <1>2, <1>3, <1>4

\* The pipeline's own invariants and the restorability they give are kept by
\* every step, because only the holder of the mutex touches the stores.
LEMMA PipelineStep ==
  TypeOK /\ StoreInv /\ [Next]_vars => PipelineInv' /\ NewestRestorable'
<1> SUFFICES ASSUME TypeOK, StoreInv, [Next]_vars
             PROVE  PipelineInv' /\ NewestRestorable'
  OBVIOUS
<1> USE DEF StoreInv, HashKnown, MutexInv, PipelineInv, NewestRestorable, NoPrune, HasBlob, Committing
<1> USE DEF TypeOK, EvRecords, EvPcs
<1> USE DEF vars, stores, daemon, handlers, bounds, evFrame, hFrame, Fault, Reply
<1>idle. IdleEv.pc = "idle"
  BY DEF IdleEv
<1>same. ASSUME UNCHANGED stores
         PROVE  Kept(manifest)' = Kept(manifest) /\ NewestRestorable'
  BY <1>same DEF Kept, Newer
<1>calm. ASSUME UNCHANGED <<ev, stores>> PROVE PipelineInv' /\ NewestRestorable'
  <2>1. AutoSnapshot' = AutoSnapshot /\ HashSet(Kept(manifest))' = HashSet(Kept(manifest))
    BY <1>calm, <1>same DEF AutoSnapshot, HashSet
  <2> QED
    BY <1>calm, <1>same, <2>1
<1>over. ASSUME UNCHANGED stores, ev' = IdleEv PROVE PipelineInv' /\ NewestRestorable'
  BY <1>over, <1>same, <1>idle
<1>1. ASSUME NEW c \in Contents, Save(c) PROVE PipelineInv' /\ NewestRestorable'
  BY <1>calm, <1>1 DEF Save
<1>2. CASE FsEvent \/ Tick \/ Start \/ Rest \/ UNCHANGED vars
  BY <1>calm, <1>2 DEF FsEvent, Tick, Start, Rest
<1>3. CASE Exit
  BY <1>over, <1>3 DEF Exit
<1>4. ASSUME NEW p \in Clients, NEW cmd \in Cmds, Request(p, cmd)
      PROVE  PipelineInv' /\ NewestRestorable'
  BY <1>calm, <1>4 DEF Request
<1>5. ASSUME NEW p \in Clients, HandlerRun(p) \/ HandlerFail(p)
      PROVE  PipelineInv' /\ NewestRestorable'
  <2>1. rpc[p] \notin {"prune", "pscan", "psweep"}
    OBVIOUS
  <2>2. UNCHANGED <<ev, stores>>
    BY <1>5, <2>1 DEF HandlerRun, HandlerFail, Pause, ResumeLock, ResumeStat, ResumeHash,
         ResumeError, PruneLoad, PruneScan, PruneRemove, PruneTrim, PruneError
  <2> QED
    BY <1>calm, <2>2
<1>6. CASE EvStart
  <2>1. CASE paused
    BY <1>calm, <1>6, <2>1 DEF EvStart
  <2>2. CASE ~paused
    BY <1>same, <1>6, <2>2 DEF EvStart, IdleEv
  <2> QED
    BY <2>1, <2>2
<1>7. CASE EvStat
  BY <1>same, <1>7 DEF EvStat
<1>8. CASE EvGate
  BY <1>same, <1>idle, <1>8 DEF EvGate
<1>9. CASE EvHash
  BY <1>same, <1>9 DEF EvHash
<1>10. CASE EvDedup
  BY <1>same, <1>idle, <1>10 DEF EvDedup
<1>11. CASE EvCommit
  BY <1>same, <1>11 DEF EvCommit
<1>12. CASE EvDrop \/ EvIOError \/ EvGcError
  BY <1>over, <1>12 DEF EvDrop, EvIOError, EvGcError
\* The copy gives the hash a blob and takes none away.
<1>13. CASE EvCopy
  <2>1. \A h \in Hashes : HasBlob(h) => HasBlob(h)'
    BY <1>13, ContentAssumption DEF EvCopy
  <2>2. HasBlob(ev.hash)' /\ ev'.pc = "load" /\ ev'.hash = ev.hash
    BY <1>13, ContentAssumption DEF EvCopy
  <2>3. Kept(manifest)' = Kept(manifest)
    BY <1>13 DEF EvCopy, Kept, Newer
  <2>4. \A s \in Kept(manifest) : s.hash \in Hashes
    BY KeptSubset DEF Snapshot
  <2> QED
    BY <2>1, <2>2, <2>3, <2>4
\* The manifest in memory is the one on disk, with the new entry.
<1>14. CASE EvLoad
  <2>1. AutoSnapshot' = AutoSnapshot
    BY <1>14 DEF EvLoad, AutoSnapshot
  <2>2. ev'.man = manifest \cup {AutoSnapshot} /\ ev'.pc = "save" /\ ev'.hash = ev.hash
    BY <1>14 DEF EvLoad
  <2> QED
    BY <1>same, <1>14, <2>1, <2>2 DEF EvLoad
\* The new entry has its blob, and who is now among the newest was before.
<1>15. CASE EvSave
  <2>1. manifest' = manifest \cup {AutoSnapshot} /\ blobs' = blobs
    BY <1>15 DEF EvSave
  <2>2. HasBlob(ev.hash)
    BY <1>15 DEF EvSave
  <2>3. \A s \in Kept(manifest \cup {AutoSnapshot}) : HasBlob(s.hash)
    BY <2>2, KeptAfterAppend
  <2>4. NewestRestorable'
    BY <2>1, <2>3 DEF Kept, Newer
  <2>5. CASE OverLimit(ev.man)
    BY <1>15, <2>4, <2>5 DEF EvSave
  <2>6. CASE ~OverLimit(ev.man)
    BY <1>15, <1>idle, <2>4, <2>6 DEF EvSave
  <2> QED
    BY <2>5, <2>6
\* No blob of an entry that stays is chosen.
<1>16. CASE EvScan
  <2>1. ev'.doomed \cap HashSet(Kept(manifest)) = {}
    BY <1>16 DEF EvScan, Garbage
  <2>2. HashSet(Kept(manifest))' = HashSet(Kept(manifest))
    BY <1>16 DEF EvScan, HashSet, Kept, Newer
  <2>3. ev'.pc = "sweep" /\ ev'.man = ev.man
    BY <1>16 DEF EvScan
  <2> QED
    BY <1>same, <1>16, <2>1, <2>2, <2>3 DEF EvScan
<1>17. ASSUME NEW h \in Hashes, EvRemove(h) PROVE PipelineInv' /\ NewestRestorable'
  <2>1. Kept(manifest)' = Kept(manifest) /\ HashSet(Kept(manifest))' = HashSet(Kept(manifest))
    BY <1>17 DEF EvRemove, HashSet, Kept, Newer
  <2>2. h \notin HashSet(Kept(manifest))
    BY <1>17 DEF EvRemove
  <2>3. \A s \in Kept(manifest) : s.hash # h
    BY <2>2 DEF HashSet
  <2>4. \A s \in Kept(manifest) : s.hash \in Hashes
    BY KeptSubset DEF Snapshot
  <2>5. NewestRestorable'
    BY <1>17, <2>1, <2>3, <2>4 DEF EvRemove
  <2>6. ev'.doomed \subseteq ev.doomed /\ ev'.pc = "sweep" /\ ev'.man = ev.man
    BY <1>17 DEF EvRemove
  <2>7. manifest' = manifest
    BY <1>17 DEF EvRemove
  <2> QED
    BY <1>17, <2>1, <2>5, <2>6, <2>7 DEF EvRemove
\* What is left of the newest is among the newest.
<1>18. CASE EvTrim
  <2>1. manifest' = Kept(manifest) /\ blobs' = blobs /\ ev' = IdleEv
    BY <1>18 DEF EvTrim
  <2>2. Kept(Kept(manifest)) \subseteq Kept(manifest)
    BY KeptSubset
  <2>3. Kept(manifest)' = Kept(Kept(manifest))
    BY <2>1 DEF Kept, Newer
  <2> QED
    BY <1>idle, <2>1, <2>2, <2>3
<1> QED
  BY <1>1, <1>2, <1>3, <1>4, <1>5, <1>6, <1>7, <1>8, <1>9, <1>10, <1>11, <1>12, <1>13,
     <1>14, <1>15, <1>16, <1>17, <1>18
     DEF Next, DaemonStep, EvRun, EvFail, Surroundings

\* At every instant, and after any crash or failed step, each of the newest
\* max_snapshots entries of the manifest has its blob, as long as nobody prunes
\* beside the pipeline.
THEOREM NewestAlwaysRestorable ==
  ASSUME "prune" \notin Cmds
  PROVE  Spec => []NewestRestorable
<1>1. Init => StoreInv
  BY ClientAssumption
     DEF Init, StoreInv, HashKnown, MutexInv, PipelineInv, NoPrune, NewestRestorable,
         Committing, IdleEv, Kept
<1>2. TypeOK /\ StoreInv /\ [Next]_vars => StoreInv'
  <2> SUFFICES ASSUME TypeOK, StoreInv, [Next]_vars PROVE StoreInv'
    OBVIOUS
  <2>1. HashKnown' /\ MutexInv'
    BY TypeStep, MutexStep DEF StoreInv
  <2>2. NoPrune'
    BY NoPruneStep DEF StoreInv
  <2>3. PipelineInv' /\ NewestRestorable'
    BY PipelineStep
  <2> QED
    BY <2>1, <2>2, <2>3 DEF StoreInv
<1>3. StoreInv => NewestRestorable
  BY DEF StoreInv
<1> QED
  BY <1>1, <1>2, <1>3, TypeCorrect, PTL DEF Spec

-----------------------------------------------------------------------------
(* The pipeline implements SnapshotHistory.                                *)

\* A manifest that has entries has a newest one: among the sets of entries
\* newer than some entry, take a smallest; it is empty.
LEMMA NewestExists ==
  ASSUME NEW m \in SUBSET Snapshot, IsFiniteSet(m), m # {}
  PROVE  Newest(m) # {}
<1> DEFINE T == {Newer(s, m) : s \in m}
<1>1. T \subseteq FiniteSubsetsOf(m) /\ T # {}
  <2>1. \A s \in m : Newer(s, m) \subseteq m
    BY DEF Newer
  <2>2. \A s \in m : IsFiniteSet(Newer(s, m))
    BY <2>1, FS_Subset
  <2> QED
    BY <2>1, <2>2 DEF FiniteSubsetsOf
<1>2. PICK x \in T : \A y \in T : <<y, x>> \notin StrictSubsetOrdering(m)
  BY <1>1, FS_StrictSubsetOrderingWellFounded, WFMin
<1>3. PICK s \in m : x = Newer(s, m)
  BY <1>2
<1>4. ASSUME NEW u \in Newer(s, m) PROVE FALSE
  <2>1. u \in m /\ u.ts > s.ts /\ u.ts \in Nat /\ s.ts \in Nat
    BY <1>4 DEF Newer, Snapshot
  <2>2. Newer(u, m) \subseteq Newer(s, m)
    <3> SUFFICES ASSUME NEW t \in m, t.ts > u.ts PROVE t.ts > s.ts
      BY DEF Newer
    <3>1. t.ts \in Nat
      BY DEF Snapshot
    <3> QED
      BY <2>1, <3>1
  <2>3. u \notin Newer(u, m)
    BY <2>1 DEF Newer
  <2>4. Newer(u, m) # Newer(s, m)
    BY <1>4, <2>3
  <2>5. Newer(u, m) \in SUBSET m /\ Newer(s, m) \in SUBSET m
    BY DEF Newer
  <2>6. <<Newer(u, m), Newer(s, m)>> \in StrictSubsetOrdering(m)
    BY <2>2, <2>4, <2>5 DEF StrictSubsetOrdering
  <2> QED
    BY <1>2, <1>3, <2>1, <2>6
<1> QED
  BY <1>4 DEF Newest

\* A restarted daemon's baseline is no earlier than any entry.
LEMMA BaselineLatest ==
  ASSUME NEW m \in SUBSET Snapshot, IsFiniteSet(m), NEW t \in m
  PROVE  t.ts <= BaselineFrom(m).time
<1> DEFINE s == CHOOSE u \in Newest(m) : TRUE
<1>1. s \in Newest(m)
  BY NewestExists
<1>2. s \in m /\ Newer(s, m) = {}
  BY <1>1 DEF Newest
<1>3. BaselineFrom(m).time = s.ts
  BY <1>1 DEF BaselineFrom
<1> HIDE DEF s
<1>4. ~(t.ts > s.ts) /\ t.ts \in Nat /\ s.ts \in Nat
  BY <1>2 DEF Newer, Snapshot
<1> QED
  BY <1>3, <1>4

\* No step lets the clock readings, the baseline and the entries get out of order.
LEMMA HistoryStep ==
  TypeOK /\ StoreInv /\ HistoryInv /\ [Next]_vars => HistoryInv'
<1> SUFFICES ASSUME TypeOK, StoreInv, HistoryInv, [Next]_vars PROVE HistoryInv'
  OBVIOUS
<1> USE ConfigAssumption
<1> USE DEF StoreInv, PipelineInv, NoPrune, HistoryInv
<1> USE DEF TypeOK, EvRecords, EvPcs, Baseline, Times, Snapshot
<1> USE DEF vars, stores, daemon, handlers, bounds, evFrame, hFrame, Fault, Reply
<1>idle. IdleEv.pc = "idle"
  BY DEF IdleEv
<1>1. ASSUME NEW c \in Contents, Save(c) PROVE HistoryInv'
  BY <1>1 DEF Save, OverLimit
<1>2. CASE FsEvent \/ Rest \/ UNCHANGED vars
  BY <1>2 DEF FsEvent, Rest, OverLimit
<1>3. CASE Tick
  BY <1>3 DEF Tick, OverLimit
<1>4. CASE Exit
  BY <1>4, <1>idle DEF Exit
<1>5. CASE Start
  <2>1. ~blind' => \A t \in manifest : t.ts <= base'.time
    BY <1>5, BaselineLatest DEF Start
  <2> QED
    BY <1>5, <2>1 DEF Start
<1>6. ASSUME NEW p \in Clients, NEW cmd \in Cmds, Request(p, cmd) PROVE HistoryInv'
  BY <1>6 DEF Request, OverLimit
<1>7. ASSUME NEW p \in Clients, ResumeHash(p) PROVE HistoryInv'
  BY <1>7 DEF ResumeHash, OverLimit
<1>8. ASSUME NEW p \in Clients,
             \/ Pause(p) \/ ResumeLock(p) \/ ResumeStat(p) \/ HandlerFail(p)
             \/ PruneLoad(p) \/ PruneScan(p) \/ PruneTrim(p)
             \/ \E h \in Hashes : PruneRemove(p, h)
      PROVE  HistoryInv'
  <2>1. rpc[p] \notin {"prune", "pscan", "psweep"}
    OBVIOUS
  <2>2. UNCHANGED <<manifest, clock, up, base, blind, ev>>
    BY <1>8, <2>1 DEF Pause, ResumeLock, ResumeStat, HandlerFail, ResumeError,
         PruneLoad, PruneScan, PruneRemove, PruneTrim, PruneError
  <2> QED
    BY <2>2 DEF OverLimit
<1>9. CASE EvStart
  <2>1. CASE paused
    BY <1>9, <2>1 DEF EvStart, OverLimit
  <2>2. CASE ~paused
    <3>1. clock' = clock + 1 /\ ev'.pc = "stat" /\ ev'.now = clock + 1
      BY <1>9, <2>2 DEF EvStart, IdleEv
    <3>2. UNCHANGED <<manifest, up, base, blind>> /\ up
      BY <1>9 DEF EvStart
    <3> QED
      BY <3>1, <3>2
  <2> QED
    BY <2>1, <2>2
<1>10. CASE EvStat
  BY <1>10 DEF EvStat
<1>11. CASE EvGate
  <2>1. CASE ev.mtime = base.mtime \/ WithinInterval(ev.now)
    BY <1>11, <1>idle, <2>1 DEF EvGate
  <2>2. CASE ~(ev.mtime = base.mtime \/ WithinInterval(ev.now))
    <3>1. ~blind => \A s \in manifest : ev.now - s.ts >= MinInterval
      <4>1. MinInterval = 0 \/ ev.now - base.time >= MinInterval
        BY <2>2 DEF WithinInterval, ZeroTime
      <4> QED
        BY <1>11, <4>1 DEF EvGate, ZeroTime
    <3> QED
      BY <1>11, <2>2, <3>1 DEF EvGate
  <2> QED
    BY <2>1, <2>2
<1>12. CASE EvHash
  BY <1>12 DEF EvHash
<1>13. CASE EvDedup
  BY <1>13, <1>idle DEF EvDedup
<1>14. CASE EvCommit \/ EvCopy
  BY <1>14 DEF EvCommit, EvCopy
<1>15. CASE EvLoad
  BY <1>15 DEF EvLoad
<1>16. CASE EvSave
  <2>1. manifest' = manifest \cup {AutoSnapshot} /\ base'.time = ev.now
    BY <1>16 DEF EvSave
  <2>2. clock' = clock /\ up' = up /\ AutoSnapshot.ts = ev.now
    BY <1>16 DEF EvSave, AutoSnapshot
  <2>3. \A s \in manifest' : s.ts <= clock' /\ s.ts <= base'.time
    BY <1>16, <2>1, <2>2 DEF EvSave
  <2>4. CASE OverLimit(ev.man)
    BY <1>16, <2>2, <2>3, <2>4 DEF EvSave, OverLimit
  <2>5. CASE ~OverLimit(ev.man)
    BY <1>16, <1>idle, <2>2, <2>3, <2>5 DEF EvSave
  <2> QED
    BY <2>4, <2>5
<1>17. CASE EvScan \/ \E h \in Hashes : EvRemove(h)
  <2>1. CASE EvScan
    BY <1>17, <2>1 DEF EvScan, OverLimit
  <2>2. ASSUME NEW h \in Hashes, EvRemove(h) PROVE HistoryInv'
    BY <2>2 DEF EvRemove, OverLimit
  <2> QED
    BY <1>17, <2>1, <2>2
<1>18. CASE EvTrim
  BY <1>18, <1>idle, KeptSubset DEF EvTrim
<1>19. CASE EvFail
  BY <1>19, <1>idle DEF EvFail, EvDrop, EvIOError, EvGcError
<1> QED
  BY <1>1, <1>2, <1>3, <1>4, <1>5, <1>6, <1>7, <1>8, <1>9, <1>10, <1>11, <1>12, <1>13,
     <1>14, <1>15, <1>16, <1>17, <1>18, <1>19
     DEF Next, DaemonStep, EvRun, HandlerRun, Surroundings

\* The cardinality the abstract module speaks of is the one used here.
LEMMA SameCardinality == \A S : Promise!Cardinality(S) = Cardinality(S)
  BY DEF Promise!Cardinality, Cardinality

\* A step of the pipeline records one newest snapshot, or trims, or leaves the
\* history alone; a daemon that begins or ends may lose sight of it or not.
LEMMA HistoryRefined ==
  TypeOK /\ StoreInv /\ HistoryInv /\ [Next]_vars => [Promise!Next]_<<manifest, ~blind>>
<1> SUFFICES ASSUME TypeOK, StoreInv, HistoryInv, Next, manifest' # manifest \/ blind' # blind
             PROVE  Promise!Next
  BY DEF vars, stores, daemon
<1> USE DEF StoreInv, PipelineInv, NoPrune, HistoryInv
<1> USE DEF stores, daemon, handlers, bounds, evFrame, hFrame
<1>0. blind \in BOOLEAN
  BY DEF TypeOK
<1>1. EvSave \/ EvTrim \/ Exit \/ Start
  <2>1. ASSUME NEW p \in Clients, HandlerRun(p) \/ HandlerFail(p) PROVE FALSE
    <3>1. rpc[p] \notin {"prune", "pscan", "psweep"}
      OBVIOUS
    <3> QED
      BY <2>1, <3>1
         DEF HandlerRun, HandlerFail, Pause, ResumeLock, ResumeStat, ResumeHash,
             ResumeError, PruneLoad, PruneScan, PruneRemove, PruneTrim, PruneError
  <2>2. /\ ~(FsEvent \/ Tick \/ \E c \in Contents : Save(c))
        /\ ~Rest /\ \A p \in Clients, cmd \in Cmds : ~Request(p, cmd)
    BY DEF Save, FsEvent, Tick, Request, Rest, vars
  <2>3. ~EvFail
    BY DEF EvFail, EvDrop, EvIOError, EvGcError
  <2>4. ~(\/ EvStart \/ EvStat \/ EvGate \/ EvHash \/ EvDedup \/ EvCommit \/ EvCopy
          \/ EvLoad \/ EvScan \/ \E h \in Hashes : EvRemove(h))
    BY DEF EvStart, EvStat, EvGate, EvHash, EvDedup, EvCommit, EvCopy, EvLoad, EvScan,
           EvRemove
  <2> QED
    BY <2>1, <2>2, <2>3, <2>4 DEF Next, DaemonStep, Surroundings, EvRun
<1>2. CASE EvSave
  <2>1. manifest' = manifest \cup {AutoSnapshot} /\ ~blind'
    BY <1>2 DEF EvSave
  <2>2. AutoSnapshot.ts = ev.now
    BY DEF AutoSnapshot
  <2>3. \A s \in manifest :
          AutoSnapshot.ts > s.ts /\ (~blind => AutoSnapshot.ts - s.ts >= MinInterval)
    <3>1. \A s \in manifest : s.ts \in Nat
      BY DEF TypeOK, Snapshot
    <3>2. ev.now \in Nat
      BY DEF TypeOK, EvRecords
    <3> QED
      BY <1>2, <2>2, <3>1, <3>2 DEF EvSave
  <2>4. AutoSnapshot \notin manifest
    <3>1. ev.now \in Nat
      BY DEF TypeOK, EvRecords
    <3> QED
      BY <2>2, <2>3, <3>1
  <2>5. Promise!Record
    BY <2>1, <2>3, <2>4 DEF Promise!Record
  <2> QED
    BY <2>5 DEF Promise!Next
<1>3. CASE EvTrim
  <2>1. manifest' = Kept(manifest) /\ OverLimit(manifest) /\ blind' = blind
    BY <1>3 DEF EvTrim
  <2>2. MaxSnapshots > 0 /\ Cardinality(manifest) > MaxSnapshots
    BY <2>1 DEF OverLimit
  <2>3. Kept(manifest) = {s \in manifest :
          Cardinality({t \in manifest : t.ts > s.ts}) < MaxSnapshots}
    BY <2>2 DEF Kept, Newer
  <2>4. manifest' = {s \in manifest :
          Cardinality({t \in manifest : t.ts > s.ts}) < MaxSnapshots}
    BY <2>1, <2>3
  <2>5. Promise!Trim
    BY <2>1, <2>2, <2>4, SameCardinality DEF Promise!Trim
  <2> QED
    BY <2>5 DEF Promise!Next
<1>4. CASE Exit
  <2>1. ~blind' /\ manifest' = manifest
    BY <1>4 DEF Exit
  <2> QED
    BY <2>1 DEF Promise!Next, Promise!Find
<1>5. CASE Start
  <2>1. blind' /\ manifest' = manifest
    BY <1>0, <1>5 DEF Start
  <2> QED
    BY <2>1 DEF Promise!Next, Promise!Lose
<1> QED
  BY <1>1, <1>2, <1>3, <1>4, <1>5

\* The manifest of a daemon whose clients only pause and resume it is a history
\* of snapshots: it only grows by one newest entry, at least min_interval after
\* the others unless the daemon could not read them at its start, and is only
\* ever cut to its newest max_snapshots entries.
THEOREM PipelineKeepsHistory ==
  ASSUME "prune" \notin Cmds
  PROVE  Spec => History
<1>1. Init => StoreInv /\ HistoryInv /\ Promise!Init
  BY ClientAssumption
     DEF Init, StoreInv, HashKnown, MutexInv, PipelineInv, NoPrune, NewestRestorable,
         HistoryInv, Promise!Init, Committing, IdleEv, Kept
<1>2. TypeOK /\ StoreInv /\ HistoryInv /\ [Next]_vars => StoreInv' /\ HistoryInv'
  <2> SUFFICES ASSUME TypeOK, StoreInv, HistoryInv, [Next]_vars
               PROVE  StoreInv' /\ HistoryInv'
    OBVIOUS
  <2>1. HashKnown' /\ MutexInv'
    BY TypeStep, MutexStep DEF StoreInv
  <2>2. NoPrune'
    BY NoPruneStep DEF StoreInv
  <2>3. PipelineInv' /\ NewestRestorable'
    BY PipelineStep
  <2>4. HistoryInv'
    BY HistoryStep
  <2> QED
    BY <2>1, <2>2, <2>3, <2>4 DEF StoreInv
<1>3. TypeOK /\ StoreInv /\ HistoryInv /\ [Next]_vars => [Promise!Next]_<<manifest, ~blind>>
  BY HistoryRefined
<1> QED
  BY <1>1, <1>2, <1>3, TypeCorrect, PTL DEF Spec, History, Promise!Spec
=============================================================================
