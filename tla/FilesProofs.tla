----------------------------- MODULE FilesProofs -----------------------------
(***************************************************************************)
(* Theorems about module Files, for every set of writers and documents,    *)
(* every number of parts, files, temporary names, retries and faults.      *)
(*                                                                         *)
(* The argument: a writer of a manifest is alone with its temporary file,  *)
(* and so is every writer as long as none has shared a name; the file it   *)
(* fills has no other name and no other descriptor, so what is there       *)
(* already stays as it is, and what it renames is complete and synced.     *)
(***************************************************************************)
EXTENDS Files, TLAPS

Kinds == {"blob", "manifest", "restore"}
JsonNames == {Manifest} \cup {JsonTmp(k) : k \in Numbers}
Filling == {"write", "sync"}

Jobs ==
  [pc : {"idle", "has", "create"} \cup Holding,
   kind : {"none"} \cup Kinds, doc : Docs \cup {Nothing},
   tmp : Temps \cup {Target}, fd : Inodes \cup {Nothing},
   at : 0 .. Parts, tries : 0 .. MaxRetries]

JobOK(j) ==
  /\ j.pc = "idle" => j.kind = "none"
  /\ j.pc # "idle" => j.kind \in Kinds /\ j.doc \in Docs
  /\ j.pc = "has" => j.kind = "blob"
  /\ j.pc = "remove" => j.kind = "restore"
  /\ j.pc \in Holding => j.tmp \in Temps /\ (j.kind = "manifest" <=> j.tmp \in JsonNames)
  /\ j.pc \in Filling <=> j.fd # Nothing
  /\ j.pc = "create" => j.at = 0
  /\ j.pc = "write" => j.at < Parts
  /\ j.pc = "sync" => j.at = Parts

\* What each writer may be doing.
TypeInv ==
  /\ dir \in [Names -> Inodes \cup {Nothing}]
  /\ dirDisk \in [Names -> Inodes \cup {Nothing}]
  /\ mem \in [Inodes -> Data]
  /\ disk \in [Inodes -> Data]
  /\ job \in [Writers -> Jobs]
  /\ shared \in BOOLEAN
  /\ \A p \in Writers : JobOK(job[p])

Single(names) ==
  \A m, n \in Names : names[m] = names[n] /\ names[m] # Nothing => m = n

\* The files of manifests and of the rest are different files.
ApartIn(names) ==
  \A n \in JsonNames : names[n] # Nothing =>
    /\ \A m \in Names \ JsonNames : names[n] # dir[m] /\ names[n] # dirDisk[m]
    /\ \A p \in Writers : job[p].kind # "manifest" => names[n] # job[p].fd

Safe(p) == job[p].kind = "manifest" \/ ~shared

\* A file has one name, and a writer that is safe has its temporary file alone.
NamesInv ==
  /\ Single(dir) /\ Single(dirDisk)
  /\ \A n \in Finals, t \in Temps : dirDisk[n] # Nothing => dirDisk[n] # dir[t]
  /\ ApartIn(dir) /\ ApartIn(dirDisk)
  /\ \A p, q \in Writers : p # q /\ Holds(p) /\ Holds(q) /\ job[p].tmp = job[q].tmp =>
       shared /\ job[p].kind # "manifest"
  /\ \A p \in Writers : Safe(p) /\ job[p].pc \in Filling \cup {"rename"} =>
       /\ dir[job[p].tmp] # Nothing
       /\ job[p].pc \in Filling => job[p].fd = dir[job[p].tmp]

FinalsOK(names) ==
  \A n \in Finals : (n = Manifest \/ ~shared) /\ names[n] # Nothing =>
    \E d \in Docs : /\ n \in {Blob(d), Manifest, Target}
                    /\ mem[names[n]] = Whole(d) /\ disk[names[n]] = Whole(d)

\* What has a final name is complete and synced; what is being written is so
\* as far as it goes.
ContentInv ==
  /\ FinalsOK(dir) /\ FinalsOK(dirDisk)
  /\ \A p \in Writers : Safe(p) =>
       /\ job[p].pc \in Filling => \A k \in 1 .. job[p].at : mem[job[p].fd][k] = job[p].doc
       /\ job[p].pc = "rename" => /\ mem[dir[job[p].tmp]] = Whole(job[p].doc)
                                  /\ disk[dir[job[p].tmp]] = Whole(job[p].doc)

BackedIn(names) ==
  \A d \in Docs :
    names[Manifest] # Nothing /\ mem[names[Manifest]] = Whole(d) => names[Blob(d)] # Nothing

\* The blob is there before the manifest names it.
BackedInv ==
  /\ BackedIn(dir) /\ BackedIn(dirDisk)
  /\ \A p \in Writers : job[p].kind = "manifest" => dir[Blob(job[p].doc)] # Nothing

FilesInv == TypeInv /\ NamesInv /\ ContentInv /\ BackedInv

-----------------------------------------------------------------------------
(* Names and contents.                                                     *)

\* Final and temporary names differ, and so do those of different kinds.
LEMMA NamesApart ==
  /\ Finals \subseteq Names /\ Temps \subseteq Names /\ JsonNames \subseteq Names
  /\ Finals \cap Temps = {}
  /\ Manifest \in Finals /\ Target \in Finals /\ Manifest # Target
  /\ \A d \in Docs : Blob(d) \in Finals /\ BlobTmp(d) \in Temps /\ Blob(d) \notin JsonNames
                     /\ BlobTmp(d) \notin JsonNames /\ Blob(d) # Manifest /\ Blob(d) # Target
  /\ RestoreTmp \in Temps /\ RestoreTmp \notin JsonNames /\ Target \notin JsonNames
  /\ \A k \in Numbers : JsonTmp(k) \in Temps
  /\ JsonNames \ {Manifest} \subseteq Temps
  /\ Manifest \in JsonNames
<1>1. /\ \A d, e : Blob(d) # BlobTmp(e) /\ Blob(d) # JsonTmp(e) /\ BlobTmp(d) # JsonTmp(e)
      /\ \A d : Blob(d) \notin {Manifest, Target, RestoreTmp}
      /\ \A d : BlobTmp(d) \notin {Manifest, Target, RestoreTmp}
      /\ \A d : JsonTmp(d) \notin {Manifest, Target, RestoreTmp}
      /\ Manifest # Target /\ Manifest # RestoreTmp /\ Target # RestoreTmp
  BY DEF Blob, BlobTmp, Manifest, Target, RestoreTmp, JsonTmp
<1>2. Finals \cap Temps = {}
  BY <1>1 DEF Finals, Temps
<1> QED
  BY <1>1, <1>2 DEF Finals, Temps, Names, JsonNames

\* Blobs of different documents have different names.
LEMMA BlobsApart == \A d, e \in Docs : Blob(d) = Blob(e) => d = e
  BY DEF Blob

\* A complete content determines its document.
LEMMA WholeFacts ==
  /\ \A d \in Docs \cup {Nothing} : Whole(d) \in Data
  /\ \A d, e \in Docs \cup {Nothing} : Whole(d) = Whole(e) => d = e
  /\ Blank \in Data
<1>1. 1 \in Part
  BY PartsAssumption DEF Part
<1>2. \A d \in Docs \cup {Nothing} : Whole(d) \in Data
  BY DEF Whole, Data
<1>3. ASSUME NEW d \in Docs \cup {Nothing}, NEW e \in Docs \cup {Nothing}, Whole(d) = Whole(e)
      PROVE  d = e
  <2>1. Whole(d)[1] = d /\ Whole(e)[1] = e
    BY <1>1 DEF Whole
  <2> QED
    BY <2>1, <1>3
<1> QED
  BY <1>2, <1>3 DEF Blank

-----------------------------------------------------------------------------
(* The invariant holds at first.                                           *)

\* What soute has recorded before is in files of its own, complete and synced.
LEMMA InitInv == Init => FilesInv
<1> SUFFICES ASSUME Init PROVE FilesInv
  OBVIOUS
<1>1. PICK at : /\ at \in [Seeded -> Inodes] /\ IsInjective(at)
                /\ dir = [n \in Names |-> IF n \in Seeded THEN at[n] ELSE Nothing]
                /\ mem = [i \in Inodes |-> Whole(IF \E n \in Seeded : at[n] = i THEN Seed
                                                                              ELSE Nothing)]
  BY InodesAssumption DEF Init
<1>2. dirDisk = dir /\ disk = mem /\ job = [p \in Writers |-> Idle] /\ shared = FALSE
  BY DEF Init
<1>3. /\ Seeded \subseteq Finals
      /\ Seeded # {} => /\ Seed \in Docs /\ Seeded = {Blob(Seed), Manifest, Target}
  BY SeedAssumption, NamesApart DEF Seeded
<1>4. \A p \in Writers : job[p] = Idle
  BY <1>2
<1>5. /\ Idle.pc = "idle" /\ Idle.kind = "none" /\ Idle.fd = Nothing
  BY DEF Idle
<1>6. \A n \in Names : dir[n] # Nothing =>
        /\ n \in Seeded /\ dir[n] = at[n] /\ dir[n] \in Inodes
        /\ mem[dir[n]] = Whole(Seed)
  BY <1>1
<1>7. TypeInv
  <2>1. dir \in [Names -> Inodes \cup {Nothing}]
    BY <1>1
  <2>2. mem \in [Inodes -> Data]
    BY <1>1, SeedAssumption, WholeFacts
  <2>3. Idle \in Jobs
    BY PartsAssumption, FilesBounds DEF Idle, Jobs
  <2>4. JobOK(Idle)
    BY <1>5 DEF JobOK, Holding, Filling
  <2> QED
    BY <1>2, <1>4, <2>1, <2>2, <2>3, <2>4 DEF TypeInv
<1>8. NamesInv
  <2>1. Single(dir)
    BY <1>1, <1>6 DEF Single, IsInjective
  <2>2. \A n \in Finals, t \in Temps : dirDisk[n] # Nothing => dirDisk[n] # dir[t]
    BY <1>2, <1>6, <2>1, NamesApart DEF Single
  <2>3. ApartIn(dir)
    BY <1>2, <1>4, <1>5, <2>1, NamesApart DEF ApartIn, Single
  <2> QED
    BY <1>2, <1>4, <1>5, <2>1, <2>2, <2>3 DEF NamesInv, ApartIn, Holds, Holding, Filling
<1>9. ContentInv
  <2>1. FinalsOK(dir)
    BY <1>2, <1>3, <1>6, NamesApart DEF FinalsOK
  <2> QED
    BY <1>2, <1>4, <1>5, <2>1 DEF ContentInv, FinalsOK, Filling
<1>10. BackedInv
  <2>1. ASSUME NEW d \in Docs, dir[Manifest] # Nothing, mem[dir[Manifest]] = Whole(d)
        PROVE  dir[Blob(d)] # Nothing
    <3>1. d = Seed /\ Blob(d) \in Seeded /\ Blob(d) \in Names
      BY <1>3, <1>6, <2>1, NamesApart, WholeFacts
    <3> QED
      BY <1>1, <3>1, NothingAssumption
  <2> QED
    BY <1>2, <1>4, <1>5, <2>1 DEF BackedInv, BackedIn
<1> QED
  BY <1>7, <1>8, <1>9, <1>10 DEF FilesInv

-----------------------------------------------------------------------------
(* The steps, by what they do to the files.                                *)

\* p goes on without touching a file.
Becoming(p, j) ==
  \/ j = Idle
  \/ \E d \in Docs : \/ j \in {Job("has", "blob", d), Job("create", "blob", d),
                               Job("create", "restore", d)}
                     \/ j = Job("create", "manifest", d) /\ dir[Blob(d)] # Nothing
  \/ /\ At(p, "rename") /\ job[p].tries < MaxRetries
     /\ j = [job[p] EXCEPT !.tries = @ + 1]

Quiet(p, j) == Becoming(p, j) /\ Does(p, j, dir, mem, disk)

\* p removes its temporary file, and is done.
Unlink(p) == Holds(p) /\ Does(p, Idle, [dir EXCEPT ![job[p].tmp] = Nothing], mem, disk)

\* Nothing else happens to files.
LEMMA StepKinds ==
  ASSUME TypeInv, Next
  PROVE  \/ \E p \in Writers : \/ \E j : Quiet(p, j)
                               \/ Unlink(p) \/ Create(p) \/ Write(p) \/ Sync(p) \/ Rename(p)
         \/ Commit \/ Crash
<1>1. ASSUME NEW p \in Writers, NEW j, Begin(p, j), Becoming(p, j)
      PROVE  Quiet(p, j)
  BY <1>1 DEF Begin, Quiet
<1>2. ASSUME NEW p \in Writers, Does(p, Idle, dir, mem, disk)
      PROVE  Quiet(p, Idle)
  BY <1>2 DEF Quiet, Becoming
<1>3. ASSUME NEW p \in Writers, Cleanup(p)
      PROVE  Unlink(p) \/ Quiet(p, Idle)
  BY <1>2, <1>3 DEF Cleanup, Unlink
<1>4. ASSUME NEW p \in Writers, NEW d \in Docs, Snapshot(p, d)
      PROVE  Quiet(p, Job("has", "blob", d))
  BY <1>1, <1>4 DEF Snapshot, Becoming
<1>5. ASSUME NEW p \in Writers, NEW d \in Docs, Restore(p, d)
      PROVE  Quiet(p, Job("create", "restore", d))
  BY <1>1, <1>5 DEF Restore, Becoming
<1>6. ASSUME NEW p \in Writers, HasBlob(p)
      PROVE  \E j : Quiet(p, j)
  <2> DEFINE d == job[p].doc
  <2>1. d \in Docs
    BY <1>6 DEF TypeInv, JobOK, HasBlob, At
  <2>2. CASE dir[Blob(d)] # Nothing
    <3>1. Quiet(p, Job("create", "manifest", d))
      BY <1>6, <2>1, <2>2 DEF HasBlob, Quiet, Becoming
    <3> QED
      BY <3>1
  <2>3. CASE dir[Blob(d)] = Nothing
    <3>1. Quiet(p, Job("create", "blob", d))
      BY <1>6, <2>1, <2>3 DEF HasBlob, Quiet, Becoming
    <3> QED
      BY <3>1
  <2> QED
    BY <2>2, <2>3
<1>7. ASSUME NEW p \in Writers, RenameAgain(p)
      PROVE  \E j : Quiet(p, j)
  BY <1>7 DEF RenameAgain, Quiet, Becoming
<1>8. ASSUME NEW p \in Writers, Step(p)
      PROVE  \/ \E j : Quiet(p, j)
             \/ Unlink(p) \/ Create(p) \/ Write(p) \/ Sync(p) \/ Rename(p)
  BY <1>3, <1>6, <1>7, <1>8 DEF Step, GiveUp, Remove
<1>9. ASSUME NEW p \in Writers, Fail(p) \/ Kill(p) \/ ChmodError(p)
      PROVE  (\E j : Quiet(p, j)) \/ Unlink(p)
  BY <1>2, <1>3, <1>9 DEF Fail, Kill, ChmodError
<1> QED
  BY <1>4, <1>5, <1>8, <1>9 DEF Next

-----------------------------------------------------------------------------
(* Each step preserves the invariant.                                      *)

\* A writer's step keeps the kinds if what it writes has them.
LEMMA TypeDoes ==
  ASSUME TypeInv, NEW p \in Writers, NEW j \in Jobs, JobOK(j),
         NEW d \in [Names -> Inodes \cup {Nothing}],
         NEW m \in [Inodes -> Data], NEW s \in [Inodes -> Data], Does(p, j, d, m, s)
  PROVE  TypeInv'
<1>1. dir' = d /\ dirDisk' = dirDisk /\ job' = [job EXCEPT ![p] = j]
  BY DEF Does
<1>2. mem' \in [Inodes -> Data] /\ disk' \in [Inodes -> Data]
  BY WholeFacts DEF Does, Settle
<1>3. shared' \in BOOLEAN
  BY DEF Does, Settle
<1>4. job' \in [Writers -> Jobs] /\ \A q \in Writers : JobOK(job'[q])
  BY <1>1 DEF TypeInv
<1> QED
  BY <1>1, <1>2, <1>3, <1>4 DEF TypeInv, JobOK

\* The records that a writer may begin or end with.
LEMMA JobTypes ==
  ASSUME NEW d \in Docs
  PROVE  /\ Idle \in Jobs /\ JobOK(Idle)
         /\ Job("has", "blob", d) \in Jobs /\ JobOK(Job("has", "blob", d))
         /\ \A kind \in Kinds : Job("create", kind, d) \in Jobs /\ JobOK(Job("create", kind, d))
<1>1. /\ Idle \in [pc : {"idle"}, kind : {"none"}, doc : {Nothing}, tmp : {Target},
                      fd : {Nothing}, at : {0}, tries : {0}]
      /\ 0 \in 0 .. Parts /\ 0 \in 0 .. MaxRetries
  BY PartsAssumption, FilesBounds DEF Idle
<1>2. ASSUME NEW pc \in {"has", "create"}, NEW kind \in Kinds, pc = "has" => kind = "blob"
      PROVE  Job(pc, kind, d) \in Jobs /\ JobOK(Job(pc, kind, d))
  <2>1. Job(pc, kind, d) \in [pc : {pc}, kind : {kind}, doc : {d}, tmp : {Target},
                              fd : {Nothing}, at : {0}, tries : {0}]
    BY <1>1 DEF Job
  <2>2. Job(pc, kind, d) \in Jobs
    BY <1>1, <2>1 DEF Jobs
  <2>3. JobOK(Job(pc, kind, d))
    BY <1>2, <2>1 DEF JobOK, Holding, Filling
  <2> QED
    BY <2>2, <2>3
<1>3. Idle \in Jobs /\ JobOK(Idle)
  BY <1>1 DEF Idle, Jobs, JobOK, Holding, Filling
<1>4. "blob" \in Kinds
  BY DEF Kinds
<1> QED
  BY <1>2, <1>3, <1>4

\* Idle is a record that a writer may have, also without documents.
LEMMA IdleType == Idle \in Jobs /\ JobOK(Idle)
  BY PartsAssumption, FilesBounds DEF Idle, Jobs, JobOK, Holding, Filling

\* Names and parts keep their kinds, and each writer does what it may do.
LEMMA TypeKept == TypeInv /\ [Next]_vars => TypeInv'
<1> SUFFICES ASSUME TypeInv, [Next]_vars PROVE TypeInv'
  OBVIOUS
<1>0. /\ dir \in [Names -> Inodes \cup {Nothing}] /\ dirDisk \in [Names -> Inodes \cup {Nothing}]
      /\ mem \in [Inodes -> Data] /\ disk \in [Inodes -> Data] /\ job \in [Writers -> Jobs]
  BY DEF TypeInv
<1>1. ASSUME NEW p \in Writers, NEW j, Quiet(p, j)
      PROVE  TypeInv'
  <2>1. Does(p, j, dir, mem, disk)
    BY <1>1 DEF Quiet
  <2>2. CASE At(p, "rename") /\ job[p].tries < MaxRetries /\ j = [job[p] EXCEPT !.tries = @ + 1]
    <3>1. j \in Jobs
      BY <1>0, <2>2, FilesBounds DEF Jobs
    <3>2. JobOK(job[p]) /\ job[p] \in Jobs
      BY <1>0 DEF TypeInv
    <3>3. JobOK(j)
      BY <2>2, <3>2 DEF JobOK, Jobs
    <3> QED
      BY <1>0, <2>1, <3>1, <3>3, TypeDoes
  <2>3. CASE j \in Jobs /\ JobOK(j)
    BY <1>0, <2>1, <2>3, TypeDoes
  <2>4. "create" = "create" /\ {"blob", "manifest", "restore"} = Kinds
    BY DEF Kinds
  <2> QED
    BY <1>1, <2>2, <2>3, <2>4, JobTypes, IdleType DEF Quiet, Becoming
<1>2. ASSUME NEW p \in Writers, Unlink(p)
      PROVE  TypeInv'
  <2>1. [dir EXCEPT ![job[p].tmp] = Nothing] \in [Names -> Inodes \cup {Nothing}]
    BY <1>0
  <2> QED
    BY <1>0, <1>2, <2>1, IdleType, TypeDoes DEF Unlink
<1>3. ASSUME NEW p \in Writers, Create(p)
      PROVE  TypeInv'
  <2>1. PICK n, i :
          /\ n \in Temps
          /\ i = IF dir[n] = Nothing THEN CHOOSE u \in Unused : TRUE ELSE dir[n]
          /\ TmpName(p, n)
          /\ dir[n] = Nothing => Unused # {}
          /\ Does(p, [job[p] EXCEPT !.pc = "write", !.tmp = n, !.fd = i],
                  [dir EXCEPT ![n] = i], [mem EXCEPT ![i] = Blank], disk)
    BY <1>3 DEF Create
  <2>2. i \in Inodes /\ i # Nothing
    BY <1>0, <2>1, NamesApart, NothingAssumption DEF Unused
  <2>3. job[p].pc = "create" /\ job[p] \in Jobs /\ JobOK(job[p])
    BY <1>0, <1>3 DEF Create, At, TypeInv
  <2>4. job[p].kind = "manifest" <=> n \in JsonNames
    BY <2>1, <2>3, NamesApart DEF TmpName, JobOK, Kinds, JsonNames
  <2> DEFINE j == [job[p] EXCEPT !.pc = "write", !.tmp = n, !.fd = i]
  <2>5. j \in Jobs
    BY <2>1, <2>2, <2>3 DEF Jobs, Holding
  <2>6. JobOK(j)
    BY <2>1, <2>2, <2>3, <2>4, PartsAssumption DEF JobOK, Jobs, Holding, Filling
  <2>7. [dir EXCEPT ![n] = i] \in [Names -> Inodes \cup {Nothing}]
    BY <1>0, <2>2
  <2>8. [mem EXCEPT ![i] = Blank] \in [Inodes -> Data]
    BY <1>0, WholeFacts
  <2> HIDE DEF j
  <2> QED
    BY <1>0, <2>1, <2>5, <2>6, <2>7, <2>8, TypeDoes DEF j
<1>4. ASSUME NEW p \in Writers, Write(p)
      PROVE  TypeInv'
  <2> DEFINE j == job[p]
             k == j.at + 1
             w == [j EXCEPT !.at = k, !.pc = IF k = Parts THEN "sync" ELSE "write"]
             m == [mem EXCEPT ![j.fd] = [@ EXCEPT ![k] = j.doc]]
  <2>1. j.pc = "write" /\ j \in Jobs /\ JobOK(j)
    BY <1>0, <1>4 DEF Write, At, TypeInv
  <2>2. j.at \in Nat /\ k \in Nat /\ k \in 1 .. Parts /\ j.doc \in Docs
    BY <2>1, PartsAssumption DEF Jobs, JobOK
  <2>3. w \in Jobs
    <3>1. (IF k = Parts THEN "sync" ELSE "write") \in Holding
      BY DEF Holding
    <3>2. k \in 0 .. Parts
      BY <2>2, PartsAssumption
    <3> QED
      BY <2>1, <3>1, <3>2 DEF Jobs
  <2>4. JobOK(w)
    BY <2>1, <2>2, PartsAssumption DEF Jobs, JobOK, Holding, Filling
  <2>5. m \in [Inodes -> Data]
    BY <1>0, <2>2 DEF Data, Part
  <2>6. Does(p, w, dir, m, disk)
    BY <1>4 DEF Write
  <2> HIDE DEF w, m
  <2> QED
    BY <1>0, <2>3, <2>4, <2>5, <2>6, TypeDoes
<1>5. ASSUME NEW p \in Writers, Sync(p)
      PROVE  TypeInv'
  <2> DEFINE j == [job[p] EXCEPT !.pc = "rename", !.fd = Nothing]
             s == [disk EXCEPT ![job[p].fd] = mem[job[p].fd]]
  <2>1. job[p].pc = "sync" /\ job[p] \in Jobs /\ JobOK(job[p])
    BY <1>0, <1>5 DEF Sync, At, TypeInv
  <2>2. j \in Jobs /\ JobOK(j)
    BY <2>1 DEF Jobs, JobOK, Holding, Filling
  <2>3. job[p].fd \in Inodes
    BY <2>1 DEF Jobs, JobOK, Filling
  <2>4. s \in [Inodes -> Data]
    BY <1>0, <2>3
  <2>5. Does(p, j, dir, mem, s)
    BY <1>5 DEF Sync
  <2> HIDE DEF j, s
  <2> QED
    BY <1>0, <2>2, <2>4, <2>5, TypeDoes
<1>6. ASSUME NEW p \in Writers, Rename(p)
      PROVE  TypeInv'
  <2> DEFINE j == job[p]
             d == [dir EXCEPT ![Final(j)] = dir[j.tmp], ![j.tmp] = Nothing]
  <2>1. j.pc = "rename" /\ j \in Jobs /\ JobOK(j)
    BY <1>0, <1>6 DEF Rename, At, TypeInv
  <2>2. j.kind \in Kinds /\ j.doc \in Docs /\ j.tmp \in Temps
    BY <2>1 DEF JobOK, Holding
  <2>3. Final(j) \in Finals
    BY <2>2, NamesApart DEF Final
  <2>4. d \in [Names -> Inodes \cup {Nothing}]
    BY <1>0, <2>2, <2>3, NamesApart
  <2>5. Continue(j) \in Jobs /\ JobOK(Continue(j))
    <3>1. CASE j.kind = "blob"
      BY <2>2, <3>1, JobTypes DEF Continue, Kinds
    <3>2. CASE j.kind = "manifest"
      BY <3>2, IdleType DEF Continue
    <3>3. CASE j.kind = "restore"
      BY <2>1, <3>3 DEF Continue, Jobs, JobOK, Holding, Filling
    <3> QED
      BY <2>2, <3>1, <3>2, <3>3 DEF Kinds
  <2>6. Does(p, Continue(j), d, mem, disk)
    BY <1>6 DEF Rename
  <2> HIDE DEF d
  <2> QED
    BY <1>0, <2>4, <2>5, <2>6, TypeDoes
<1>7. CASE Commit
  <2>1. mem' \in [Inodes -> Data] /\ disk' \in [Inodes -> Data] /\ shared' \in BOOLEAN
    BY <1>0, <1>7, WholeFacts DEF Commit, Settle
  <2> QED
    BY <1>7, <2>1 DEF Commit, TypeInv, JobOK
<1>8. CASE Crash
  <2>1. PICK m \in [Inodes -> Data] : Settle(m, m)
    <3>1. PICK lost : Settle([i \in Inodes |-> [k \in Part |->
                                IF <<i, k>> \in lost THEN disk[i][k] ELSE mem[i][k]]],
                             [i \in Inodes |-> [k \in Part |->
                                IF <<i, k>> \in lost THEN disk[i][k] ELSE mem[i][k]]])
      BY <1>8 DEF Crash
    <3>2. [i \in Inodes |-> [k \in Part |-> IF <<i, k>> \in lost THEN disk[i][k] ELSE mem[i][k]]]
            \in [Inodes -> Data]
      BY <1>0 DEF Data
    <3> QED
      BY <3>1, <3>2
  <2>2. mem' \in [Inodes -> Data] /\ disk' \in [Inodes -> Data] /\ shared' \in BOOLEAN
    BY <2>1, WholeFacts DEF Settle
  <2>3. job' \in [Writers -> Jobs] /\ \A q \in Writers : JobOK(job'[q])
    BY <1>8, IdleType DEF Crash
  <2> QED
    BY <1>0, <1>8, <2>2, <2>3 DEF Crash, TypeInv, JobOK
<1>9. CASE UNCHANGED vars
  BY <1>9 DEF vars, TypeInv, JobOK
<1> QED
  BY <1>1, <1>2, <1>3, <1>4, <1>5, <1>6, <1>7, <1>8, <1>9, StepKinds

\* A writer's step that gives no name and no descriptor away keeps the names
\* in order, if it leaves the temporary files of the others that are safe.
LEMMA NamesShrink ==
  ASSUME TypeInv, NamesInv, NEW p \in Writers, NEW j, NEW d, NEW m, NEW s, Does(p, j, d, m, s),
         \A n \in Names : d[n] \in {Nothing, dir[n]},
         j.fd \in {Nothing, job[p].fd} /\ (j.fd # Nothing => j.kind = job[p].kind),
         j.pc \in Holding => Holds(p) /\ j.tmp = job[p].tmp /\ j.kind = job[p].kind,
         \A q \in Writers \ {p} :
           job[q].pc \in Filling \cup {"rename"} /\ Safe(q) => d[job[q].tmp] = dir[job[q].tmp],
         j.pc \in Filling \cup {"rename"} =>
           d = dir /\ job[p].pc \in Filling \cup {"rename"},
         j.pc \in Filling => job[p].pc \in Filling /\ j.fd = job[p].fd
  PROVE  NamesInv'
<1>1. dir' = d /\ dirDisk' = dirDisk /\ job' = [job EXCEPT ![p] = j]
  BY DEF Does
<1>2. shared' = (shared \/ Overlap')
  BY DEF Does, Settle
<1>3. job'[p] = j /\ \A q \in Writers : q # p => job'[q] = job[q]
  BY <1>1 DEF TypeInv
<1>4. \A q \in Writers : Safe(q)' /\ job'[q].kind = job[q].kind => Safe(q)
  BY <1>2 DEF Safe
<1>5. Single(dir)' /\ Single(dirDisk)'
  BY <1>1 DEF NamesInv, Single
<1>6. \A n \in Finals, t \in Temps : dirDisk'[n] # Nothing => dirDisk'[n] # dir'[t]
  BY <1>1, NamesApart DEF NamesInv
<1>7. \A q \in Writers : /\ job'[q].fd \in {Nothing, job[q].fd}
                         /\ job'[q].fd # Nothing => job'[q].kind = job[q].kind
  BY <1>3
<1>8. ApartIn(dir)'
  <2> SUFFICES ASSUME NEW n \in JsonNames, dir'[n] # Nothing
               PROVE  /\ \A k \in Names \ JsonNames : dir'[n] # dir'[k] /\ dir'[n] # dirDisk'[k]
                      /\ \A q \in Writers : job'[q].kind # "manifest" => dir'[n] # job'[q].fd
    BY DEF ApartIn
  <2>1. n \in Names /\ dir'[n] = dir[n] /\ dir[n] # Nothing
    BY <1>1, NamesApart
  <2> QED
    BY <1>1, <1>7, <2>1 DEF NamesInv, ApartIn
<1>9. ApartIn(dirDisk)'
  <2> SUFFICES ASSUME NEW n \in JsonNames, dirDisk'[n] # Nothing
               PROVE  /\ \A k \in Names \ JsonNames : /\ dirDisk'[n] # dir'[k]
                                                      /\ dirDisk'[n] # dirDisk'[k]
                      /\ \A q \in Writers : job'[q].kind # "manifest" => dirDisk'[n] # job'[q].fd
    BY DEF ApartIn
  <2> QED
    BY <1>1, <1>7 DEF NamesInv, ApartIn
<1>10. ASSUME NEW q \in Writers, NEW r \in Writers, q # r,
              Holds(q)', Holds(r)', job'[q].tmp = job'[r].tmp
       PROVE  shared' /\ job'[q].kind # "manifest"
  <2>1. /\ Holds(q) /\ job'[q].tmp = job[q].tmp /\ job'[q].kind = job[q].kind
        /\ Holds(r) /\ job'[r].tmp = job[r].tmp
    BY <1>3, <1>10 DEF Holds
  <2> QED
    BY <1>2, <1>10, <2>1 DEF NamesInv
<1>11. ASSUME NEW q \in Writers, Safe(q)', job'[q].pc \in Filling \cup {"rename"}
       PROVE  /\ dir'[job'[q].tmp] # Nothing
              /\ job'[q].pc \in Filling => job'[q].fd = dir'[job'[q].tmp]
  <2>1. CASE q = p
    <3>1. j.pc \in Holding
      BY <1>3, <1>11, <2>1 DEF Holding, Filling
    <3> QED
      BY <1>1, <1>3, <1>4, <1>11, <2>1, <3>1 DEF NamesInv
  <2>2. CASE q # p
    <3>1. job'[q] = job[q] /\ Safe(q)
      BY <1>3, <1>4, <1>11, <2>2
    <3> QED
      BY <1>1, <1>11, <2>2, <3>1 DEF NamesInv
  <2> QED
    BY <2>1, <2>2
<1> QED
  BY <1>5, <1>6, <1>8, <1>9, <1>10, <1>11 DEF NamesInv

\* A safe writer shares its temporary name with nobody.
LEMMA SafeAlone ==
  ASSUME TypeInv, NamesInv, NEW p \in Writers, NEW q \in Writers, p # q, Holds(p), Holds(q),
         Safe(q)
  PROVE  job[p].tmp # job[q].tmp
  BY DEF NamesInv, Safe

\* A file that is created has a free name and no other descriptor, or is one
\* that no other safe writer has.
LEMMA NamesCreate ==
  ASSUME TypeInv, NamesInv, NEW p \in Writers, Create(p)
  PROVE  NamesInv'
<1> DEFINE j(n, i) == [job[p] EXCEPT !.pc = "write", !.tmp = n, !.fd = i]
<1>1. PICK n, i :
        /\ n \in Temps
        /\ i = IF dir[n] = Nothing THEN CHOOSE u \in Unused : TRUE ELSE dir[n]
        /\ TmpName(p, n)
        /\ dir[n] = Nothing => Unused # {}
        /\ Does(p, j(n, i), [dir EXCEPT ![n] = i], [mem EXCEPT ![i] = Blank], disk)
  BY DEF Create
<1>2. /\ job[p].pc = "create" /\ JobOK(job[p]) /\ job[p] \in Jobs /\ n \in Names
      /\ dir \in [Names -> Inodes \cup {Nothing}]
  BY <1>1, NamesApart DEF Create, At, TypeInv
<1>3. job[p].kind = "manifest" <=> n \in JsonNames
  BY <1>1, <1>2, NamesApart DEF TmpName, JobOK, Kinds, JsonNames
<1>4. job[p].kind = "manifest" => dir[n] = Nothing
  BY <1>1 DEF TmpName
<1>5. /\ dir' = [dir EXCEPT ![n] = i] /\ dirDisk' = dirDisk
      /\ job' = [job EXCEPT ![p] = j(n, i)]
      /\ shared' = (shared \/ Overlap')
  BY <1>1 DEF Does, Settle
<1>6. /\ \A k \in Names : k # n => dir'[k] = dir[k]
      /\ dir'[n] = i
  BY <1>2, <1>5
<1>7. /\ \A q \in Writers : q # p => job'[q] = job[q]
      /\ job'[p].pc = "write" /\ job'[p].tmp = n /\ job'[p].fd = i
      /\ job'[p].kind = job[p].kind
  BY <1>2, <1>5 DEF TypeInv, Jobs
<1>8. i \in Inodes /\ i # Nothing
  BY <1>1, <1>2, NothingAssumption DEF Unused
<1>9. ASSUME dir[n] = Nothing
      PROVE  /\ Single(dir)' /\ Single(dirDisk)' /\ ApartIn(dir)' /\ ApartIn(dirDisk)'
             /\ \A f \in Finals, t \in Temps : dirDisk'[f] # Nothing => dirDisk'[f] # dir'[t]
  <2>1. /\ \A k \in Names : i # dir[k] /\ i # dirDisk[k]
        /\ \A q \in Writers : i # job[q].fd
    BY <1>1, <1>9 DEF Unused, Used
  <2>2. Single(dir)' /\ Single(dirDisk)'
    BY <1>5, <1>6, <2>1 DEF NamesInv, Single
  <2>3. \A f \in Finals, t \in Temps : dirDisk'[f] # Nothing => dirDisk'[f] # dir'[t]
    BY <1>5, <1>6, <2>1, NamesApart DEF NamesInv
  <2>4. ApartIn(dirDisk)'
    <3> SUFFICES ASSUME NEW f \in JsonNames, dirDisk'[f] # Nothing
                 PROVE  /\ \A k \in Names \ JsonNames : /\ dirDisk'[f] # dir'[k]
                                                        /\ dirDisk'[f] # dirDisk'[k]
                        /\ \A q \in Writers :
                             job'[q].kind # "manifest" => dirDisk'[f] # job'[q].fd
      BY DEF ApartIn
    <3>1. f \in Names /\ dirDisk'[f] = dirDisk[f] /\ dirDisk[f] # i
      BY <1>5, <2>1, NamesApart
    <3> QED
      BY <1>5, <1>6, <1>7, <3>1 DEF NamesInv, ApartIn
  <2>5. ApartIn(dir)'
    <3> SUFFICES ASSUME NEW f \in JsonNames, dir'[f] # Nothing
                 PROVE  /\ \A k \in Names \ JsonNames : dir'[f] # dir'[k] /\ dir'[f] # dirDisk'[k]
                        /\ \A q \in Writers :
                             job'[q].kind # "manifest" => dir'[f] # job'[q].fd
      BY DEF ApartIn
    <3>0. f \in Names
      BY NamesApart
    <3>1. CASE f = n
      BY <1>3, <1>5, <1>6, <1>7, <2>1, <3>0, <3>1
    <3>2. CASE f # n
      <4>1. dir'[f] = dir[f] /\ dir[f] # i
        BY <1>6, <2>1, <3>0, <3>2
      <4> QED
        BY <1>5, <1>6, <1>7, <4>1 DEF NamesInv, ApartIn
    <3> QED
      BY <3>1, <3>2
  <2> QED
    BY <2>2, <2>3, <2>4, <2>5
<1>10. ASSUME dir[n] # Nothing
       PROVE  /\ Single(dir)' /\ Single(dirDisk)' /\ ApartIn(dir)' /\ ApartIn(dirDisk)'
              /\ \A f \in Finals, t \in Temps : dirDisk'[f] # Nothing => dirDisk'[f] # dir'[t]
  <2>1. i = dir[n] /\ dir' = dir /\ job[p].kind # "manifest" /\ n \notin JsonNames
    BY <1>1, <1>2, <1>3, <1>4, <1>5, <1>10
  <2>2. ApartIn(dir)' /\ ApartIn(dirDisk)'
    BY <1>2, <1>5, <1>7, <2>1 DEF NamesInv, ApartIn
  <2> QED
    BY <1>5, <2>1, <2>2 DEF NamesInv, Single
<1>11. /\ Single(dir)' /\ Single(dirDisk)' /\ ApartIn(dir)' /\ ApartIn(dirDisk)'
       /\ \A f \in Finals, t \in Temps : dirDisk'[f] # Nothing => dirDisk'[f] # dir'[t]
  BY <1>5, <1>9, <1>10 DEF NamesInv
<1>12. \A q \in Writers : q # p /\ Holds(q) /\ job[q].kind = "manifest" => job[q].tmp # n
  <2> SUFFICES ASSUME NEW q \in Writers, q # p, Holds(q), job[q].kind = "manifest",
                      job[q].tmp = n
               PROVE  FALSE
    OBVIOUS
  <2>1. JobOK(job[q])
    BY DEF TypeInv
  <2>2. n \in JsonNames /\ job[q].pc \in Filling \cup {"rename"}
    BY <2>1 DEF Holds, Holding, JobOK, Filling
  <2>3. dir[n] # Nothing
    BY <2>2 DEF NamesInv, Safe
  <2> QED
    BY <1>3, <1>4, <2>2, <2>3
<1>13. ASSUME NEW q \in Writers, NEW r \in Writers, q # r,
              Holds(q)', Holds(r)', job'[q].tmp = job'[r].tmp
       PROVE  shared' /\ job'[q].kind # "manifest"
  <2>1. shared'
    BY <1>5, <1>13 DEF Overlap
  <2>2. CASE q # p /\ r # p
    <3>1. Holds(q) /\ Holds(r) /\ job[q].tmp = job[r].tmp /\ job'[q].kind = job[q].kind
      BY <1>7, <1>13, <2>2 DEF Holds
    <3> QED
      BY <1>13, <2>1, <3>1 DEF NamesInv
  <2>3. CASE q # p /\ r = p
    <3>1. Holds(q) /\ job[q].tmp = n /\ job'[q].kind = job[q].kind
      BY <1>7, <1>13, <2>3 DEF Holds
    <3> QED
      BY <1>12, <2>1, <2>3, <3>1
  <2>4. CASE q = p
    <3>1. r # p /\ Holds(r) /\ job[r].tmp = n /\ JobOK(job[r])
      BY <1>7, <1>13, <2>4 DEF Holds, TypeInv
    <3>2. job[r].kind # "manifest" /\ n \notin JsonNames
      BY <1>12, <3>1 DEF JobOK, Holds
    <3> QED
      BY <1>3, <1>7, <2>1, <2>4, <3>2
  <2> QED
    BY <2>1, <2>2, <2>3, <2>4
<1>14. ASSUME NEW q \in Writers, Safe(q)', job'[q].pc \in Filling \cup {"rename"}
       PROVE  /\ dir'[job'[q].tmp] # Nothing
              /\ job'[q].pc \in Filling => job'[q].fd = dir'[job'[q].tmp]
  <2>1. CASE q = p
    BY <1>6, <1>7, <1>8, <2>1
  <2>2. CASE q # p
    <3>1. job'[q] = job[q] /\ Safe(q) /\ JobOK(job[q])
      BY <1>5, <1>7, <1>14, <2>2 DEF Safe, TypeInv
    <3>2. Holds(q)' /\ Holds(p)' /\ Holds(q)
      BY <1>7, <1>14, <3>1 DEF Holds, Holding, Filling
    <3>3. job[q].tmp # n
      BY <1>7, <1>12, <1>13, <1>14, <2>2, <3>1, <3>2 DEF Safe
    <3>4. job[q].tmp \in Names
      BY <3>1, <3>2, NamesApart DEF JobOK, Holds
    <3> QED
      BY <1>6, <1>14, <3>1, <3>3, <3>4 DEF NamesInv
  <2> QED
    BY <2>1, <2>2
<1> QED
  BY <1>11, <1>13, <1>14 DEF NamesInv

\* The final and the temporary name of a writer that renames.
LEMMA RenameFacts ==
  ASSUME TypeInv, NEW p \in Writers, Rename(p)
  PROVE  /\ job[p].pc = "rename" /\ JobOK(job[p]) /\ job[p].doc \in Docs
         /\ Final(job[p]) \in Finals /\ job[p].tmp \in Temps /\ dir[job[p].tmp] # Nothing
         /\ Final(job[p]) \in {Blob(job[p].doc), Manifest, Target}
         /\ job[p].kind = "manifest" <=> Final(job[p]) = Manifest
         /\ job[p].kind = "manifest" <=> job[p].tmp \in JsonNames
         /\ Final(job[p]) \in JsonNames <=> job[p].tmp \in JsonNames
         /\ dir' = [dir EXCEPT ![Final(job[p])] = dir[job[p].tmp], ![job[p].tmp] = Nothing]
         /\ \A n \in Names : dir'[n] = IF n = job[p].tmp THEN Nothing
                                       ELSE IF n = Final(job[p]) THEN dir[job[p].tmp] ELSE dir[n]
         /\ dirDisk' = dirDisk /\ job' = [job EXCEPT ![p] = Continue(job[p])]
         /\ shared' = (shared \/ Overlap')
         /\ \A q \in Writers : q # p => job'[q] = job[q]
         /\ job'[p].fd = Nothing /\ job'[p].pc \notin Filling \cup {"rename"}
         /\ job'[p].pc \in Holding => job'[p].tmp = job[p].tmp /\ job'[p].kind = job[p].kind
<1> DEFINE j == job[p]
<1>1. j.pc = "rename" /\ JobOK(j) /\ j \in Jobs
  BY DEF Rename, At, TypeInv
<1>2. j.doc \in Docs /\ j.kind \in Kinds /\ j.tmp \in Temps /\ (j.kind = "manifest" <=> j.tmp \in JsonNames)
      /\ j.fd = Nothing
  BY <1>1 DEF JobOK, Holding, Filling
<1>3. /\ Final(j) \in Finals /\ Final(j) \in {Blob(j.doc), Manifest, Target}
      /\ j.kind = "manifest" <=> Final(j) = Manifest
      /\ Final(j) \in JsonNames <=> j.kind = "manifest"
  BY <1>2, NamesApart DEF Final, Kinds
<1>4. /\ dir' = [dir EXCEPT ![Final(j)] = dir[j.tmp], ![j.tmp] = Nothing] /\ dirDisk' = dirDisk
      /\ job' = [job EXCEPT ![p] = Continue(j)] /\ shared' = (shared \/ Overlap')
      /\ dir[j.tmp] # Nothing
  BY DEF Rename, Does, Settle
<1>5. \A n \in Names : dir'[n] = IF n = j.tmp THEN Nothing
                                 ELSE IF n = Final(j) THEN dir[j.tmp] ELSE dir[n]
  BY <1>2, <1>3, <1>4, NamesApart DEF TypeInv
<1>6. job'[p] = Continue(j) /\ \A q \in Writers : q # p => job'[q] = job[q]
  BY <1>4 DEF TypeInv
<1>7. /\ Continue(j).fd = Nothing /\ Continue(j).pc \notin Filling \cup {"rename"}
      /\ Continue(j).pc \in Holding => Continue(j).tmp = j.tmp /\ Continue(j).kind = j.kind
  <2>1. CASE j.kind = "blob"
    <3>1. /\ Job("create", "manifest", j.doc).pc = "create"
          /\ Job("create", "manifest", j.doc).fd = Nothing
      BY DEF Job, Idle
    <3> QED
      BY <2>1, <3>1 DEF Continue, Filling, Holding
  <2>2. CASE j.kind = "manifest"
    BY <2>2 DEF Continue, Idle, Filling, Holding
  <2>3. CASE j.kind = "restore"
    <3>1. Continue(j) = [j EXCEPT !.pc = "remove"]
      BY <2>3 DEF Continue
    <3> QED
      BY <1>1, <1>2, <2>3, <3>1 DEF Filling, Holding, Jobs
  <2> QED
    BY <1>2, <2>1, <2>2, <2>3 DEF Kinds
<1> QED
  BY <1>1, <1>2, <1>3, <1>4, <1>5, <1>6, <1>7

\* A rename gives the file a final name for its temporary one.
LEMMA NamesRename ==
  ASSUME TypeInv, NamesInv, NEW p \in Writers, Rename(p)
  PROVE  NamesInv'
<1> DEFINE t == job[p].tmp
           f == Final(job[p])
<1>1. /\ job[p].pc = "rename" /\ JobOK(job[p])
      /\ f \in Finals /\ t \in Temps /\ f \in Names /\ t \in Names /\ f # t /\ dir[t] # Nothing
      /\ job[p].kind = "manifest" <=> t \in JsonNames
      /\ f \in JsonNames <=> t \in JsonNames
      /\ \A n \in Names : dir'[n] = IF n = t THEN Nothing ELSE IF n = f THEN dir[t] ELSE dir[n]
      /\ dirDisk' = dirDisk
      /\ shared' = (shared \/ Overlap')
      /\ \A q \in Writers : q # p => job'[q] = job[q]
      /\ job'[p].fd = Nothing /\ job'[p].pc \notin Filling \cup {"rename"}
      /\ job'[p].pc \in Holding => job'[p].tmp = t /\ job'[p].kind = job[p].kind
  BY RenameFacts, NamesApart
<1> HIDE DEF t, f
<1>2. Single(dir)' /\ Single(dirDisk)'
  BY <1>1 DEF NamesInv, Single
<1>3. \A n \in Finals, u \in Temps : dirDisk'[n] # Nothing => dirDisk'[n] # dir'[u]
  BY <1>1, NamesApart DEF NamesInv
<1>4. \A q \in Writers : /\ job'[q].fd \in {Nothing, job[q].fd}
                         /\ job'[q].fd # Nothing => job'[q].kind = job[q].kind
  BY <1>1
<1>5. \A n \in JsonNames : dir'[n] # Nothing => \E k \in JsonNames : k \in Names /\ dir'[n] = dir[k]
  BY <1>1, NamesApart
<1>6. \A n \in Names \ JsonNames :
        dir'[n] # Nothing => \E k \in Names \ JsonNames : dir'[n] = dir[k]
  BY <1>1
<1>7. ApartIn(dir)'
  <2> SUFFICES ASSUME NEW n \in JsonNames, dir'[n] # Nothing
               PROVE  /\ \A k \in Names \ JsonNames : dir'[n] # dir'[k] /\ dir'[n] # dirDisk'[k]
                      /\ \A q \in Writers : job'[q].kind # "manifest" => dir'[n] # job'[q].fd
    BY DEF ApartIn
  <2>1. PICK k \in JsonNames : dir'[n] = dir[k] /\ dir[k] # Nothing
    BY <1>5
  <2>2. /\ \A m \in Names \ JsonNames : dir[k] # dir[m] /\ dir[k] # dirDisk[m]
        /\ \A q \in Writers : job[q].kind # "manifest" => dir[k] # job[q].fd
    BY <2>1 DEF NamesInv, ApartIn
  <2> QED
    BY <1>1, <1>4, <1>6, <2>1, <2>2
<1>8. ApartIn(dirDisk)'
  <2> SUFFICES ASSUME NEW n \in JsonNames, dirDisk'[n] # Nothing
               PROVE  /\ \A k \in Names \ JsonNames : /\ dirDisk'[n] # dir'[k]
                                                      /\ dirDisk'[n] # dirDisk'[k]
                      /\ \A q \in Writers : job'[q].kind # "manifest" => dirDisk'[n] # job'[q].fd
    BY DEF ApartIn
  <2>1. /\ \A m \in Names \ JsonNames : dirDisk[n] # dir[m] /\ dirDisk[n] # dirDisk[m]
        /\ \A q \in Writers : job[q].kind # "manifest" => dirDisk[n] # job[q].fd
    BY <1>1 DEF NamesInv, ApartIn
  <2> QED
    BY <1>1, <1>4, <1>6, <2>1
<1>9. Holds(p)
  BY <1>1 DEF Holds, Holding
<1>10. ASSUME NEW q \in Writers, NEW r \in Writers, q # r,
              Holds(q)', Holds(r)', job'[q].tmp = job'[r].tmp
       PROVE  shared' /\ job'[q].kind # "manifest"
  <2>1. /\ Holds(q) /\ job'[q].tmp = job[q].tmp /\ job'[q].kind = job[q].kind
        /\ Holds(r) /\ job'[r].tmp = job[r].tmp
    BY <1>1, <1>9, <1>10 DEF Holds, t
  <2> QED
    BY <1>1, <1>10, <2>1 DEF NamesInv
<1>11. ASSUME NEW q \in Writers, Safe(q)', job'[q].pc \in Filling \cup {"rename"}
       PROVE  /\ dir'[job'[q].tmp] # Nothing
              /\ job'[q].pc \in Filling => job'[q].fd = dir'[job'[q].tmp]
  <2>1. q # p /\ job'[q] = job[q] /\ Safe(q) /\ JobOK(job[q]) /\ Holds(q)
    BY <1>1, <1>11 DEF Safe, TypeInv, Holds, Holding, Filling
  <2>2. job[q].tmp \in Temps /\ job[q].tmp # t
    BY <1>9, <2>1, SafeAlone DEF JobOK, Holds, t
  <2>3. job[q].tmp # f /\ job[q].tmp \in Names
    BY <1>1, <2>2, NamesApart
  <2> QED
    BY <1>1, <1>11, <2>1, <2>2, <2>3 DEF NamesInv
<1> QED
  BY <1>2, <1>3, <1>7, <1>8, <1>10, <1>11 DEF NamesInv

\* The names stay in order.
LEMMA NamesKept == TypeInv /\ NamesInv /\ [Next]_vars => NamesInv'
<1> SUFFICES ASSUME TypeInv, NamesInv, [Next]_vars PROVE NamesInv'
  OBVIOUS
<1>1. ASSUME NEW p \in Writers, NEW j, Quiet(p, j)
      PROVE  NamesInv'
  <2>1. Does(p, j, dir, mem, disk)
    BY <1>1 DEF Quiet
  <2>2. JobOK(job[p]) /\ job[p] \in Jobs
    BY DEF TypeInv
  <2>3. CASE j.fd = Nothing /\ j.pc \notin Holding
    BY <2>1, <2>3, NamesShrink DEF Holding, Filling
  <2>4. CASE At(p, "rename") /\ j = [job[p] EXCEPT !.tries = @ + 1]
    <3>1. /\ j.pc = "rename" /\ j.fd = Nothing /\ j.tmp = job[p].tmp /\ j.kind = job[p].kind
          /\ job[p].pc = "rename" /\ Holds(p)
      BY <2>2, <2>4 DEF At, Jobs, JobOK, Filling, Holds, Holding
    <3> QED
      BY <2>1, <3>1, NamesShrink DEF Filling
  <2>5. /\ Idle.fd = Nothing /\ Idle.pc \notin Holding
        /\ \A kind, d : /\ Job("create", kind, d).fd = Nothing
                        /\ Job("create", kind, d).pc \notin Holding
                        /\ Job("has", kind, d).fd = Nothing
                        /\ Job("has", kind, d).pc \notin Holding
    BY DEF Job, Idle, Holding
  <2> QED
    BY <1>1, <2>3, <2>4, <2>5 DEF Quiet, Becoming
<1>2. ASSUME NEW p \in Writers, Unlink(p)
      PROVE  NamesInv'
  <2> DEFINE d == [dir EXCEPT ![job[p].tmp] = Nothing]
  <2>1. Does(p, Idle, d, mem, disk) /\ Holds(p)
    BY <1>2 DEF Unlink
  <2>2. \A n \in Names : d[n] \in {Nothing, dir[n]} /\ (n # job[p].tmp => d[n] = dir[n])
    BY DEF TypeInv
  <2>3. ASSUME NEW q \in Writers \ {p}, job[q].pc \in Filling \cup {"rename"}, Safe(q)
        PROVE  d[job[q].tmp] = dir[job[q].tmp]
    <3>1. Holds(q) /\ JobOK(job[q])
      BY <2>3 DEF Holds, Holding, Filling, TypeInv
    <3>2. job[q].tmp # job[p].tmp /\ job[q].tmp \in Names
      BY <2>1, <2>3, <3>1, SafeAlone, NamesApart DEF JobOK, Holds
    <3> QED
      BY <2>2, <3>2
  <2>4. Idle.fd = Nothing /\ Idle.pc \notin Holding /\ Idle.pc \notin Filling \cup {"rename"}
    BY DEF Idle, Holding, Filling
  <2> HIDE DEF d
  <2> QED
    BY <2>1, <2>2, <2>3, <2>4, NamesShrink DEF Filling
<1>3. ASSUME NEW p \in Writers, Write(p)
      PROVE  NamesInv'
  <2> DEFINE j == [job[p] EXCEPT !.at = job[p].at + 1,
                     !.pc = IF job[p].at + 1 = Parts THEN "sync" ELSE "write"]
             m == [mem EXCEPT ![job[p].fd] = [@ EXCEPT ![job[p].at + 1] = job[p].doc]]
  <2>1. Does(p, j, dir, m, disk)
    BY <1>3 DEF Write
  <2>2. job[p].pc = "write" /\ job[p] \in Jobs
    BY <1>3 DEF Write, At, TypeInv
  <2>3. /\ j.fd = job[p].fd /\ j.tmp = job[p].tmp /\ j.kind = job[p].kind
        /\ Holds(p) /\ job[p].pc \in Filling
    BY <2>2 DEF Jobs, Holds, Holding, Filling
  <2> HIDE DEF j, m
  <2> QED
    BY <2>1, <2>3, NamesShrink
<1>4. ASSUME NEW p \in Writers, Sync(p)
      PROVE  NamesInv'
  <2> DEFINE j == [job[p] EXCEPT !.pc = "rename", !.fd = Nothing]
             s == [disk EXCEPT ![job[p].fd] = mem[job[p].fd]]
  <2>1. Does(p, j, dir, mem, s)
    BY <1>4 DEF Sync
  <2>2. job[p].pc = "sync" /\ job[p] \in Jobs
    BY <1>4 DEF Sync, At, TypeInv
  <2>3. /\ j.fd = Nothing /\ j.tmp = job[p].tmp /\ j.kind = job[p].kind /\ j.pc = "rename"
        /\ Holds(p) /\ job[p].pc \in Filling
    BY <2>2 DEF Jobs, Holds, Holding, Filling
  <2>4. j.pc \notin Filling
    BY <2>3 DEF Filling
  <2> HIDE DEF j, s
  <2> QED
    BY <2>1, <2>3, <2>4, NamesShrink
<1>5. CASE Commit
  <2>1. dirDisk' = dir /\ dir' = dir /\ job' = job /\ shared' = (shared \/ Overlap')
    BY <1>5 DEF Commit, Settle
  <2>2. /\ Single(dir)' /\ Single(dirDisk)' /\ ApartIn(dir)' /\ ApartIn(dirDisk)'
    BY <2>1 DEF NamesInv, Single, ApartIn
  <2>3. \A n \in Finals, t \in Temps : dirDisk'[n] # Nothing => dirDisk'[n] # dir'[t]
    BY <2>1, NamesApart DEF NamesInv, Single
  <2> QED
    BY <2>1, <2>2, <2>3 DEF NamesInv, Holds, Safe
<1>6. CASE Crash
  <2>1. dir' = dirDisk /\ dirDisk' = dirDisk /\ job' = [p \in Writers |-> Idle]
    BY <1>6 DEF Crash
  <2>2. Idle.pc = "idle" /\ Idle.fd = Nothing
    BY DEF Idle
  <2>3. /\ Single(dir)' /\ Single(dirDisk)' /\ ApartIn(dir)' /\ ApartIn(dirDisk)'
    BY <2>1, <2>2 DEF NamesInv, Single, ApartIn
  <2>4. \A n \in Finals, t \in Temps : dirDisk'[n] # Nothing => dirDisk'[n] # dir'[t]
    BY <2>1, NamesApart DEF NamesInv, Single
  <2> QED
    BY <2>1, <2>2, <2>3, <2>4 DEF NamesInv, Holds, Holding, Filling
<1>7. CASE UNCHANGED vars
  BY <1>7 DEF vars, NamesInv, Single, ApartIn, Holds, Safe
<1> QED
  BY <1>1, <1>2, <1>3, <1>4, <1>5, <1>6, <1>7, StepKinds, NamesCreate, NamesRename

-----------------------------------------------------------------------------
(* Contents.                                                               *)

\* The parts of a file that is still named or open are kept.
LEMMA Settled ==
  ASSUME NEW m, NEW s, Settle(m, s), NEW i \in Inodes, i \in Used'
  PROVE  mem'[i] = m[i] /\ disk'[i] = s[i]
  BY DEF Settle

\* The files i that a final name n may have, with parts m and s.
Good(n, i, m, s) ==
  \E e \in Docs : n \in {Blob(e), Manifest, Target} /\ m[i] = Whole(e) /\ s[i] = Whole(e)

\* A writer's step keeps the contents in order if its parts are.
LEMMA ContentDoes ==
  ASSUME TypeInv, TypeInv', NamesInv', ContentInv,
         NEW p \in Writers, NEW j, NEW d, NEW m, NEW s, Does(p, j, d, m, s),
         \A n \in Finals : n = Manifest \/ ~shared' =>
           /\ d[n] # Nothing => Good(n, d[n], m, s)
           /\ dirDisk[n] # Nothing => Good(n, dirDisk[n], m, s),
         \A q \in Writers \ {p} : job[q].kind = "manifest" \/ ~shared' =>
           /\ job[q].pc \in Filling => m[job[q].fd] = mem[job[q].fd]
           /\ job[q].pc = "rename" => /\ d[job[q].tmp] = dir[job[q].tmp]
                                      /\ m[dir[job[q].tmp]] = mem[dir[job[q].tmp]]
                                      /\ s[dir[job[q].tmp]] = disk[dir[job[q].tmp]],
         j.kind = "manifest" \/ ~shared' =>
           /\ j.pc \in Filling => \A k \in 1 .. j.at : m[j.fd][k] = j.doc
           /\ j.pc = "rename" => m[d[j.tmp]] = Whole(j.doc) /\ s[d[j.tmp]] = Whole(j.doc)
  PROVE  ContentInv'
<1>1. /\ dir' = d /\ dirDisk' = dirDisk /\ job' = [job EXCEPT ![p] = j] /\ Settle(m, s)
  BY DEF Does
<1>2. job'[p] = j /\ \A q \in Writers : q # p => job'[q] = job[q]
  BY <1>1 DEF TypeInv
<1>3. shared => shared'
  BY <1>1 DEF Settle
<1>4. ASSUME NEW n \in Names
      PROVE  /\ d[n] # Nothing => mem'[d[n]] = m[d[n]] /\ disk'[d[n]] = s[d[n]]
             /\ dirDisk[n] # Nothing => /\ mem'[dirDisk[n]] = m[dirDisk[n]]
                                        /\ disk'[dirDisk[n]] = s[dirDisk[n]]
  <2>1. /\ d[n] # Nothing => d[n] \in Inodes /\ d[n] \in Used'
        /\ dirDisk[n] # Nothing => dirDisk[n] \in Inodes /\ dirDisk[n] \in Used'
    BY <1>1 DEF TypeInv, Used
  <2> QED
    BY <1>1, <2>1, Settled
<1>5. FinalsOK(dir)' /\ FinalsOK(dirDisk)'
  BY <1>1, <1>4, NamesApart DEF FinalsOK, Good
<1>6. ASSUME NEW q \in Writers, Safe(q)', job'[q].pc \in Filling
      PROVE  \A k \in 1 .. job'[q].at : mem'[job'[q].fd][k] = job'[q].doc
  <2>1. job'[q].fd \in Inodes /\ job'[q].fd \in Used'
    BY <1>6 DEF TypeInv, Jobs, JobOK, Used
  <2>2. mem'[job'[q].fd] = m[job'[q].fd]
    BY <1>1, <2>1, Settled
  <2>3. CASE q = p
    BY <1>2, <1>6, <2>2, <2>3 DEF Safe
  <2>4. CASE q # p
    <3>1. Safe(q) /\ job'[q] = job[q]
      BY <1>2, <1>3, <1>6, <2>4 DEF Safe
    <3>2. m[job[q].fd] = mem[job[q].fd]
      BY <1>6, <2>4, <3>1 DEF Safe
    <3> QED
      BY <1>6, <2>2, <3>1, <3>2 DEF ContentInv
  <2> QED
    BY <2>3, <2>4
<1>7. ASSUME NEW q \in Writers, Safe(q)', job'[q].pc = "rename"
      PROVE  /\ mem'[dir'[job'[q].tmp]] = Whole(job'[q].doc)
             /\ disk'[dir'[job'[q].tmp]] = Whole(job'[q].doc)
  <2>1. dir'[job'[q].tmp] # Nothing /\ job'[q].tmp \in Names
    BY <1>7, NamesApart DEF NamesInv, TypeInv, JobOK, Holding
  <2>2. /\ mem'[dir'[job'[q].tmp]] = m[dir'[job'[q].tmp]]
        /\ disk'[dir'[job'[q].tmp]] = s[dir'[job'[q].tmp]]
    BY <1>1, <1>4, <2>1
  <2>3. CASE q = p
    BY <1>1, <1>2, <1>7, <2>2, <2>3 DEF Safe
  <2>4. CASE q # p
    <3>1. Safe(q) /\ job'[q] = job[q]
      BY <1>2, <1>3, <1>7, <2>4 DEF Safe
    <3>2. /\ d[job[q].tmp] = dir[job[q].tmp]
          /\ m[dir[job[q].tmp]] = mem[dir[job[q].tmp]]
          /\ s[dir[job[q].tmp]] = disk[dir[job[q].tmp]]
      BY <1>7, <2>4, <3>1 DEF Safe
    <3> QED
      BY <1>1, <1>7, <2>2, <3>1, <3>2 DEF ContentInv
  <2> QED
    BY <2>3, <2>4
<1> QED
  BY <1>5, <1>6, <1>7 DEF ContentInv

\* What p writes to is no file of a final name, nor of another safe writer.
LEMMA FillingAlone ==
  ASSUME TypeInv, NamesInv, NEW p \in Writers, job[p].pc \in Filling
  PROVE  /\ \A n \in Finals : n = Manifest \/ ~shared =>
              dir[n] # job[p].fd /\ dirDisk[n] # job[p].fd
         /\ \A q \in Writers \ {p} : Safe(q) /\ job[q].pc \in Filling \cup {"rename"} =>
              dir[job[q].tmp] # job[p].fd
<1>1. /\ JobOK(job[p]) /\ job[p].fd # Nothing /\ Holds(p) /\ job[p].tmp \in Temps
      /\ job[p].tmp \in Names
  BY NamesApart DEF TypeInv, JobOK, Holds, Holding, Filling
<1>2. CASE Safe(p)
  <2>1. job[p].fd = dir[job[p].tmp] /\ dir[job[p].tmp] # Nothing
    BY <1>2 DEF NamesInv
  <2>2. \A n \in Finals : dir[n] # job[p].fd /\ dirDisk[n] # job[p].fd
    BY <1>1, <2>1, NamesApart DEF NamesInv, Single
  <2>3. ASSUME NEW q \in Writers \ {p}, Safe(q), job[q].pc \in Filling \cup {"rename"}
        PROVE  dir[job[q].tmp] # job[p].fd
    <3>1. Holds(q) /\ job[q].tmp \in Names
      BY <2>3, NamesApart DEF TypeInv, JobOK, Holds, Holding, Filling
    <3>2. job[q].tmp # job[p].tmp
      BY <1>1, <2>3, <3>1, SafeAlone
    <3> QED
      BY <1>1, <2>1, <3>1, <3>2 DEF NamesInv, Single
  <2> QED
    BY <2>2, <2>3
<1>3. CASE ~Safe(p)
  <2>1. shared /\ job[p].kind # "manifest"
    BY <1>3 DEF Safe
  <2>2. \A n \in JsonNames : dir[n] # job[p].fd /\ dirDisk[n] # job[p].fd
    BY <1>1, <2>1 DEF NamesInv, ApartIn
  <2>3. ASSUME NEW q \in Writers \ {p}, Safe(q), job[q].pc \in Filling \cup {"rename"}
        PROVE  job[q].tmp \in JsonNames
    BY <2>1, <2>3 DEF Safe, TypeInv, JobOK, Holding, Filling
  <2> QED
    BY <2>1, <2>2, <2>3, NamesApart
<1> QED
  BY <1>2, <1>3

\* What is complete and synced stays so for a step that leaves it alone.
LEMMA GoodStays ==
  ASSUME ContentInv, shared => shared', NEW m, NEW s, NEW n \in Finals,
         n = Manifest \/ ~shared'
  PROVE  /\ dir[n] # Nothing /\ m[dir[n]] = mem[dir[n]] /\ s[dir[n]] = disk[dir[n]]
              => Good(n, dir[n], m, s)
         /\ dirDisk[n] # Nothing /\ m[dirDisk[n]] = mem[dirDisk[n]]
                                 /\ s[dirDisk[n]] = disk[dirDisk[n]]
              => Good(n, dirDisk[n], m, s)
  BY DEF ContentInv, FinalsOK, Good

\* A file that is created is nobody's yet, or only a writer's that is no longer safe.
LEMMA ContentCreate ==
  ASSUME TypeInv, NamesInv, ContentInv, TypeInv', NamesInv', NEW p \in Writers, Create(p)
  PROVE  ContentInv'
<1>1. PICK n, i :
        /\ n \in Temps
        /\ i = IF dir[n] = Nothing THEN CHOOSE u \in Unused : TRUE ELSE dir[n]
        /\ dir[n] = Nothing => Unused # {}
        /\ Does(p, [job[p] EXCEPT !.pc = "write", !.tmp = n, !.fd = i],
                [dir EXCEPT ![n] = i], [mem EXCEPT ![i] = Blank], disk)
  BY DEF Create
<1> DEFINE j == [job[p] EXCEPT !.pc = "write", !.tmp = n, !.fd = i]
           d == [dir EXCEPT ![n] = i]
           m == [mem EXCEPT ![i] = Blank]
<1>2. /\ job[p].pc = "create" /\ JobOK(job[p]) /\ job[p] \in Jobs /\ n \in Names
      /\ dir \in [Names -> Inodes \cup {Nothing}]
  BY <1>1, NamesApart DEF Create, At, TypeInv
<1>3. j.pc = "write" /\ j.tmp = n /\ j.at = 0
  BY <1>2 DEF Jobs, JobOK
<1>4. \A k \in Names : k # n => d[k] = dir[k]
  BY <1>2
<1>5. \A k \in Inodes : k # i => m[k] = mem[k]
  BY DEF TypeInv
<1>6. (shared => shared') /\ job' = [job EXCEPT ![p] = j]
  BY <1>1 DEF Does, Settle
<1>7. job'[p] = j /\ \A q \in Writers : q # p => job'[q] = job[q]
  BY <1>6 DEF TypeInv
<1>8. \A f \in Finals : (dir[f] # Nothing => dir[f] # i) /\ (dirDisk[f] # Nothing => dirDisk[f] # i)
  <2>1. CASE dir[n] = Nothing
    BY <1>1, <2>1, NamesApart DEF Unused, Used
  <2>2. CASE dir[n] # Nothing
    BY <1>1, <1>2, <2>2, NamesApart DEF NamesInv, Single
  <2> QED
    BY <2>1, <2>2
<1>9. ASSUME NEW q \in Writers \ {p}, job[q].kind = "manifest" \/ ~shared',
             job[q].pc \in Filling \cup {"rename"}
      PROVE  /\ dir[job[q].tmp] # Nothing /\ dir[job[q].tmp] \in Inodes
             /\ dir[job[q].tmp] # i /\ d[job[q].tmp] = dir[job[q].tmp]
             /\ job[q].pc \in Filling => job[q].fd = dir[job[q].tmp]
  <2>1. Safe(q) /\ Holds(q)' /\ Holds(p)' /\ job[q].tmp \in Names
    BY <1>3, <1>6, <1>7, <1>9, NamesApart DEF Safe, Holds, Holding, Filling, TypeInv, JobOK
  <2>2. job[q].tmp # n
    <3>1. job'[p].tmp = n /\ job'[q] = job[q]
      BY <1>3, <1>7
    <3> QED
      BY <1>9, <2>1, <3>1 DEF NamesInv
  <2>3. dir[job[q].tmp] # Nothing /\ (job[q].pc \in Filling => job[q].fd = dir[job[q].tmp])
    BY <1>9, <2>1 DEF NamesInv
  <2>4. dir[job[q].tmp] # i
    <3>1. CASE dir[n] = Nothing
      BY <1>1, <2>1, <3>1 DEF Unused, Used
    <3>2. CASE dir[n] # Nothing
      BY <1>1, <1>2, <2>1, <2>2, <2>3, <3>2 DEF NamesInv, Single
    <3> QED
      BY <3>1, <3>2
  <2> QED
    BY <1>2, <1>4, <2>1, <2>2, <2>3, <2>4
<1>10. Does(p, j, d, m, disk)
  BY <1>1
<1> HIDE DEF j, d, m
<1>11. \A f \in Finals : f = Manifest \/ ~shared' =>
         /\ d[f] # Nothing => Good(f, d[f], m, disk)
         /\ dirDisk[f] # Nothing => Good(f, dirDisk[f], m, disk)
  <2> SUFFICES ASSUME NEW f \in Finals, f = Manifest \/ ~shared'
               PROVE  /\ d[f] # Nothing => Good(f, d[f], m, disk)
                      /\ dirDisk[f] # Nothing => Good(f, dirDisk[f], m, disk)
    OBVIOUS
  <2>1. d[f] = dir[f] /\ f \in Names
    BY <1>1, <1>4, NamesApart
  <2>2. /\ dir[f] # Nothing => dir[f] \in Inodes /\ m[dir[f]] = mem[dir[f]]
        /\ dirDisk[f] # Nothing => dirDisk[f] \in Inodes /\ m[dirDisk[f]] = mem[dirDisk[f]]
    BY <1>5, <1>8, <2>1 DEF TypeInv
  <2> QED
    BY <1>6, <2>1, <2>2, GoodStays
<1>12. \A q \in Writers \ {p} : job[q].kind = "manifest" \/ ~shared' =>
         /\ job[q].pc \in Filling => m[job[q].fd] = mem[job[q].fd]
         /\ job[q].pc = "rename" => /\ d[job[q].tmp] = dir[job[q].tmp]
                                    /\ m[dir[job[q].tmp]] = mem[dir[job[q].tmp]]
                                    /\ disk[dir[job[q].tmp]] = disk[dir[job[q].tmp]]
  BY <1>5, <1>9
<1>13. j.kind = "manifest" \/ ~shared' =>
         /\ j.pc \in Filling => \A k \in 1 .. j.at : m[j.fd][k] = j.doc
         /\ j.pc = "rename" => m[d[j.tmp]] = Whole(j.doc) /\ disk[d[j.tmp]] = Whole(j.doc)
  <2>1. 1 .. j.at = {}
    BY <1>3
  <2> QED
    BY <1>3, <2>1
<1> QED
  BY <1>10, <1>11, <1>12, <1>13, ContentDoes

\* A write goes to a file that is alone with its writer.
LEMMA ContentWrite ==
  ASSUME TypeInv, NamesInv, ContentInv, TypeInv', NamesInv', NEW p \in Writers, Write(p)
  PROVE  ContentInv'
<1> DEFINE fd == job[p].fd
           k == job[p].at + 1
           j == [job[p] EXCEPT !.at = k, !.pc = IF k = Parts THEN "sync" ELSE "write"]
           m == [mem EXCEPT ![fd] = [@ EXCEPT ![k] = job[p].doc]]
<1>1. Does(p, j, dir, m, disk) /\ (shared => shared')
  BY DEF Write, Does, Settle
<1>2. job[p].pc = "write" /\ job[p] \in Jobs /\ JobOK(job[p])
  BY DEF Write, At, TypeInv
<1>3. /\ fd \in Inodes /\ job[p].at \in Nat /\ k \in Part /\ job[p].doc \in Docs
      /\ job[p].pc \in Filling
  BY <1>2, PartsAssumption DEF Jobs, JobOK, Filling, Part
<1>4. /\ j.fd = fd /\ j.at = k /\ j.doc = job[p].doc /\ j.kind = job[p].kind /\ j.pc # "rename"
  BY <1>2 DEF Jobs
<1>5. /\ \A i \in Inodes : i # fd => m[i] = mem[i]
      /\ m[fd] = [mem[fd] EXCEPT ![k] = job[p].doc]
      /\ mem[fd] \in Data
  BY <1>3 DEF TypeInv
<1>6. \A i \in 1 .. k : i = k \/ i \in 1 .. job[p].at
  BY <1>3
<1>7. 1 .. k \subseteq Part
  BY <1>3, PartsAssumption DEF Part
<1> HIDE DEF fd, j, m, k
<1>8. \A n \in Finals : n = Manifest \/ ~shared' =>
        /\ dir[n] # Nothing => Good(n, dir[n], m, disk)
        /\ dirDisk[n] # Nothing => Good(n, dirDisk[n], m, disk)
  <2> SUFFICES ASSUME NEW n \in Finals, n = Manifest \/ ~shared'
               PROVE  /\ dir[n] # Nothing => Good(n, dir[n], m, disk)
                      /\ dirDisk[n] # Nothing => Good(n, dirDisk[n], m, disk)
    OBVIOUS
  <2>1. dir[n] # fd /\ dirDisk[n] # fd /\ n \in Names
    BY <1>1, <1>3, FillingAlone, NamesApart DEF fd
  <2>2. /\ dir[n] # Nothing => dir[n] \in Inodes /\ m[dir[n]] = mem[dir[n]]
        /\ dirDisk[n] # Nothing => dirDisk[n] \in Inodes /\ m[dirDisk[n]] = mem[dirDisk[n]]
    BY <1>5, <2>1 DEF TypeInv
  <2> QED
    BY <1>1, <2>2, GoodStays
<1>9. \A q \in Writers \ {p} : job[q].kind = "manifest" \/ ~shared' =>
        /\ job[q].pc \in Filling => m[job[q].fd] = mem[job[q].fd]
        /\ job[q].pc = "rename" => /\ dir[job[q].tmp] = dir[job[q].tmp]
                                   /\ m[dir[job[q].tmp]] = mem[dir[job[q].tmp]]
                                   /\ disk[dir[job[q].tmp]] = disk[dir[job[q].tmp]]
  <2> SUFFICES ASSUME NEW q \in Writers \ {p}, Safe(q), job[q].pc \in Filling \cup {"rename"}
               PROVE  /\ m[dir[job[q].tmp]] = mem[dir[job[q].tmp]]
                      /\ job[q].pc \in Filling => job[q].fd = dir[job[q].tmp]
    BY <1>1 DEF Safe
  <2>1. dir[job[q].tmp] # fd
    BY <1>3, FillingAlone DEF fd
  <2>2. /\ dir[job[q].tmp] # Nothing /\ job[q].tmp \in Names
        /\ job[q].pc \in Filling => job[q].fd = dir[job[q].tmp]
    BY NamesApart DEF NamesInv, TypeInv, JobOK, Holding, Filling
  <2> QED
    BY <1>5, <2>1, <2>2 DEF TypeInv
<1>10. j.kind = "manifest" \/ ~shared' =>
         /\ j.pc \in Filling => \A i \in 1 .. j.at : m[j.fd][i] = j.doc
         /\ j.pc = "rename" => m[dir[j.tmp]] = Whole(j.doc) /\ disk[dir[j.tmp]] = Whole(j.doc)
  <2> SUFFICES ASSUME Safe(p) PROVE \A i \in 1 .. k : m[fd][i] = job[p].doc
    BY <1>1, <1>4 DEF Safe
  <2>1. \A i \in 1 .. job[p].at : mem[fd][i] = job[p].doc
    BY <1>3 DEF ContentInv, fd
  <2> QED
    BY <1>3, <1>5, <1>6, <1>7, <2>1 DEF Data
<1> QED
  BY <1>1, <1>8, <1>9, <1>10, ContentDoes

\* A sync completes a file that is alone with its writer.
LEMMA ContentSync ==
  ASSUME TypeInv, NamesInv, ContentInv, TypeInv', NamesInv', NEW p \in Writers, Sync(p)
  PROVE  ContentInv'
<1> DEFINE fd == job[p].fd
           j == [job[p] EXCEPT !.pc = "rename", !.fd = Nothing]
           s == [disk EXCEPT ![fd] = mem[fd]]
<1>1. Does(p, j, dir, mem, s) /\ (shared => shared')
  BY DEF Sync, Does, Settle
<1>2. job[p].pc = "sync" /\ job[p] \in Jobs /\ JobOK(job[p])
  BY DEF Sync, At, TypeInv
<1>3. fd \in Inodes /\ job[p].doc \in Docs /\ job[p].pc \in Filling /\ job[p].at = Parts
  BY <1>2 DEF Jobs, JobOK, Filling
<1>4. j.tmp = job[p].tmp /\ j.doc = job[p].doc /\ j.kind = job[p].kind /\ j.pc \notin Filling
  BY <1>2 DEF Jobs, Filling
<1>5. (\A i \in Inodes : i # fd => s[i] = disk[i]) /\ s[fd] = mem[fd] /\ mem[fd] \in Data
  BY <1>3 DEF TypeInv
<1> HIDE DEF fd, j, s
<1>6. \A n \in Finals : n = Manifest \/ ~shared' =>
        /\ dir[n] # Nothing => Good(n, dir[n], mem, s)
        /\ dirDisk[n] # Nothing => Good(n, dirDisk[n], mem, s)
  <2> SUFFICES ASSUME NEW n \in Finals, n = Manifest \/ ~shared'
               PROVE  /\ dir[n] # Nothing => Good(n, dir[n], mem, s)
                      /\ dirDisk[n] # Nothing => Good(n, dirDisk[n], mem, s)
    OBVIOUS
  <2>1. dir[n] # fd /\ dirDisk[n] # fd /\ n \in Names
    BY <1>1, <1>3, FillingAlone, NamesApart DEF fd
  <2>2. /\ dir[n] # Nothing => dir[n] \in Inodes /\ s[dir[n]] = disk[dir[n]]
        /\ dirDisk[n] # Nothing => dirDisk[n] \in Inodes /\ s[dirDisk[n]] = disk[dirDisk[n]]
    BY <1>5, <2>1 DEF TypeInv
  <2> QED
    BY <1>1, <2>2, GoodStays
<1>7. \A q \in Writers \ {p} : job[q].kind = "manifest" \/ ~shared' =>
        /\ job[q].pc \in Filling => mem[job[q].fd] = mem[job[q].fd]
        /\ job[q].pc = "rename" => /\ dir[job[q].tmp] = dir[job[q].tmp]
                                   /\ mem[dir[job[q].tmp]] = mem[dir[job[q].tmp]]
                                   /\ s[dir[job[q].tmp]] = disk[dir[job[q].tmp]]
  <2> SUFFICES ASSUME NEW q \in Writers \ {p}, Safe(q), job[q].pc = "rename"
               PROVE  s[dir[job[q].tmp]] = disk[dir[job[q].tmp]]
    BY <1>1 DEF Safe
  <2>1. dir[job[q].tmp] # fd
    BY <1>3, FillingAlone DEF fd
  <2>2. dir[job[q].tmp] # Nothing /\ job[q].tmp \in Names
    BY NamesApart DEF NamesInv, TypeInv, JobOK, Holding
  <2> QED
    BY <1>5, <2>1, <2>2 DEF TypeInv
<1>8. j.kind = "manifest" \/ ~shared' =>
        /\ j.pc \in Filling => \A i \in 1 .. j.at : mem[j.fd][i] = j.doc
        /\ j.pc = "rename" => mem[dir[j.tmp]] = Whole(j.doc) /\ s[dir[j.tmp]] = Whole(j.doc)
  <2> SUFFICES ASSUME Safe(p)
               PROVE  mem[dir[job[p].tmp]] = Whole(job[p].doc) /\ s[dir[job[p].tmp]] = Whole(job[p].doc)
    BY <1>1, <1>4 DEF Safe
  <2>1. \A i \in Part : mem[fd][i] = job[p].doc
    BY <1>3 DEF ContentInv, fd, Part
  <2>2. mem[fd] = Whole(job[p].doc)
    BY <1>5, <2>1 DEF Data, Whole
  <2>3. fd = dir[job[p].tmp]
    BY <1>3 DEF NamesInv, fd
  <2> QED
    BY <1>5, <2>2, <2>3
<1> QED
  BY <1>1, <1>6, <1>7, <1>8, ContentDoes

\* What a safe writer renames is complete and synced.
LEMMA ContentRename ==
  ASSUME TypeInv, NamesInv, ContentInv, TypeInv', NamesInv', NEW p \in Writers, Rename(p)
  PROVE  ContentInv'
<1> DEFINE t == job[p].tmp
           f == Final(job[p])
           d == [dir EXCEPT ![f] = dir[t], ![t] = Nothing]
<1>1. Does(p, Continue(job[p]), d, mem, disk) /\ (shared => shared')
  BY DEF Rename, Does, Settle
<1>2. /\ job[p].pc = "rename" /\ f \in Finals /\ t \in Temps /\ dir[t] # Nothing
      /\ f \in {Blob(job[p].doc), Manifest, Target} /\ job[p].doc \in Docs
      /\ job[p].kind = "manifest" <=> f = Manifest
      /\ job'[p] = Continue(job[p]) /\ job'[p].pc \notin Filling \cup {"rename"}
      /\ Holds(p)
  BY RenameFacts DEF Holds, Holding, TypeInv
<1>3. \A n \in Names : d[n] = IF n = t THEN Nothing ELSE IF n = f THEN dir[t] ELSE dir[n]
  BY <1>2, NamesApart DEF TypeInv
<1> HIDE DEF t, f, d
<1>4. \A n \in Finals : n = Manifest \/ ~shared' =>
        /\ d[n] # Nothing => Good(n, d[n], mem, disk)
        /\ dirDisk[n] # Nothing => Good(n, dirDisk[n], mem, disk)
  <2> SUFFICES ASSUME NEW n \in Finals, n = Manifest \/ ~shared'
               PROVE  /\ d[n] # Nothing => Good(n, d[n], mem, disk)
                      /\ dirDisk[n] # Nothing => Good(n, dirDisk[n], mem, disk)
    OBVIOUS
  <2>0. n \in Names /\ n # t
    BY <1>2, NamesApart
  <2>1. CASE n = f
    <3>1. Safe(p)
      BY <1>1, <1>2, <2>1 DEF Safe
    <3>2. mem[dir[t]] = Whole(job[p].doc) /\ disk[dir[t]] = Whole(job[p].doc)
      BY <1>2, <3>1 DEF ContentInv, t
    <3> QED
      BY <1>1, <1>2, <1>3, <2>0, <2>1, <3>2, GoodStays DEF Good
  <2>2. CASE n # f
    BY <1>1, <1>3, <2>0, <2>2, GoodStays
  <2> QED
    BY <2>1, <2>2
<1>5. \A q \in Writers \ {p} : job[q].kind = "manifest" \/ ~shared' =>
        /\ job[q].pc \in Filling => mem[job[q].fd] = mem[job[q].fd]
        /\ job[q].pc = "rename" => /\ d[job[q].tmp] = dir[job[q].tmp]
                                   /\ mem[dir[job[q].tmp]] = mem[dir[job[q].tmp]]
                                   /\ disk[dir[job[q].tmp]] = disk[dir[job[q].tmp]]
  <2> SUFFICES ASSUME NEW q \in Writers \ {p}, Safe(q), job[q].pc = "rename"
               PROVE  d[job[q].tmp] = dir[job[q].tmp]
    BY <1>1 DEF Safe
  <2>1. Holds(q) /\ job[q].tmp \in Temps
    BY DEF Holds, Holding, TypeInv, JobOK
  <2>2. job[q].tmp # t
    BY <1>2, <2>1, SafeAlone DEF t
  <2> QED
    BY <1>2, <1>3, <2>1, <2>2, NamesApart
<1> QED
  BY <1>1, <1>2, <1>4, <1>5, ContentDoes

\* The contents stay in order.
LEMMA ContentKept ==
  TypeInv /\ NamesInv /\ ContentInv /\ TypeInv' /\ NamesInv' /\ [Next]_vars => ContentInv'
<1> SUFFICES ASSUME TypeInv, NamesInv, ContentInv, TypeInv', NamesInv', [Next]_vars
             PROVE  ContentInv'
  OBVIOUS
<1>1. ASSUME NEW p \in Writers, NEW j, NEW d, Does(p, j, d, mem, disk),
             \A n \in Finals : d[n] = dir[n],
             \A q \in Writers \ {p} : Safe(q) /\ job[q].pc = "rename" =>
               d[job[q].tmp] = dir[job[q].tmp],
             j.pc \notin Filling,
             j.pc = "rename" => /\ job[p].pc = "rename" /\ d = dir /\ j.tmp = job[p].tmp
                                /\ j.doc = job[p].doc /\ j.kind = job[p].kind
      PROVE  ContentInv'
  <2>1. shared => shared'
    BY <1>1 DEF Does, Settle
  <2>2. \A n \in Finals : n = Manifest \/ ~shared' =>
          /\ d[n] # Nothing => Good(n, d[n], mem, disk)
          /\ dirDisk[n] # Nothing => Good(n, dirDisk[n], mem, disk)
    BY <1>1, <2>1, GoodStays
  <2>3. \A q \in Writers \ {p} : job[q].kind = "manifest" \/ ~shared' =>
          /\ job[q].pc \in Filling => mem[job[q].fd] = mem[job[q].fd]
          /\ job[q].pc = "rename" => /\ d[job[q].tmp] = dir[job[q].tmp]
                                     /\ mem[dir[job[q].tmp]] = mem[dir[job[q].tmp]]
                                     /\ disk[dir[job[q].tmp]] = disk[dir[job[q].tmp]]
    BY <1>1, <2>1 DEF Safe
  <2>4. j.kind = "manifest" \/ ~shared' =>
          /\ j.pc \in Filling => \A k \in 1 .. j.at : mem[j.fd][k] = j.doc
          /\ j.pc = "rename" => mem[d[j.tmp]] = Whole(j.doc) /\ disk[d[j.tmp]] = Whole(j.doc)
    BY <1>1, <2>1 DEF ContentInv, Safe
  <2> QED
    BY <1>1, <2>2, <2>3, <2>4, ContentDoes
<1>2. ASSUME NEW p \in Writers, NEW j, Quiet(p, j)
      PROVE  ContentInv'
  <2>1. Does(p, j, dir, mem, disk) /\ job[p] \in Jobs
    BY <1>2 DEF Quiet, TypeInv
  <2>2. CASE j.pc \notin Filling \cup {"rename"}
    BY <1>1, <2>1, <2>2
  <2>3. CASE At(p, "rename") /\ j = [job[p] EXCEPT !.tries = @ + 1]
    <3>1. /\ j.pc = "rename" /\ job[p].pc = "rename" /\ j.tmp = job[p].tmp
          /\ j.doc = job[p].doc /\ j.kind = job[p].kind /\ j.pc \notin Filling
      BY <2>1, <2>3 DEF At, Jobs, Filling
    <3> QED
      BY <1>1, <2>1, <3>1
  <2>4. /\ Idle.pc \notin Filling \cup {"rename"}
        /\ \A kind, d : /\ Job("create", kind, d).pc \notin Filling \cup {"rename"}
                        /\ Job("has", kind, d).pc \notin Filling \cup {"rename"}
    BY DEF Job, Idle, Filling
  <2> QED
    BY <1>2, <2>2, <2>3, <2>4 DEF Quiet, Becoming
<1>3. ASSUME NEW p \in Writers, Unlink(p)
      PROVE  ContentInv'
  <2> DEFINE d == [dir EXCEPT ![job[p].tmp] = Nothing]
  <2>1. Does(p, Idle, d, mem, disk) /\ Holds(p) /\ job[p].tmp \in Temps
    BY <1>3 DEF Unlink, Holds, TypeInv, JobOK
  <2>2. \A n \in Names : n # job[p].tmp => d[n] = dir[n]
    BY DEF TypeInv
  <2>3. \A n \in Finals : d[n] = dir[n]
    BY <2>1, <2>2, NamesApart
  <2>4. ASSUME NEW q \in Writers \ {p}, Safe(q), job[q].pc = "rename"
        PROVE  d[job[q].tmp] = dir[job[q].tmp]
    <3>1. Holds(q) /\ JobOK(job[q])
      BY <2>4 DEF Holds, Holding, TypeInv
    <3>2. job[q].tmp # job[p].tmp /\ job[q].tmp \in Names
      BY <2>1, <2>4, <3>1, SafeAlone, NamesApart DEF JobOK, Holds
    <3> QED
      BY <2>2, <3>2
  <2>5. Idle.pc \notin Filling /\ Idle.pc # "rename"
    BY DEF Idle, Filling
  <2> HIDE DEF d
  <2> QED
    BY <1>1, <2>1, <2>3, <2>4, <2>5
<1>4. CASE Commit
  <2>1. /\ dirDisk' = dir /\ dir' = dir /\ job' = job /\ shared' = (shared \/ Overlap')
        /\ Settle(mem, disk)
    BY <1>4 DEF Commit, Settle
  <2>2. \A n \in Names : dir[n] # Nothing =>
          mem'[dir[n]] = mem[dir[n]] /\ disk'[dir[n]] = disk[dir[n]]
    <3> SUFFICES ASSUME NEW n \in Names, dir[n] # Nothing
                 PROVE  mem'[dir[n]] = mem[dir[n]] /\ disk'[dir[n]] = disk[dir[n]]
      OBVIOUS
    <3>1. dir[n] \in Inodes /\ dir[n] \in Used'
      BY <2>1 DEF TypeInv, Used
    <3> QED
      BY <2>1, <3>1, Settled
  <2>3. FinalsOK(dir)' /\ FinalsOK(dirDisk)'
    <3>1. ASSUME NEW n \in Finals, n = Manifest \/ ~shared', dir[n] # Nothing
          PROVE  Good(n, dir[n], mem', disk')
      <4>1. mem'[dir[n]] = mem[dir[n]] /\ disk'[dir[n]] = disk[dir[n]]
        BY <2>2, <3>1, NamesApart
      <4>2. shared => shared'
        BY <2>1
      <4> QED
        BY <3>1, <4>1, <4>2, GoodStays
    <3> QED
      BY <2>1, <3>1 DEF FinalsOK, Good
  <2>4. ASSUME NEW q \in Writers, Safe(q)'
        PROVE  /\ job'[q].pc \in Filling =>
                    \A k \in 1 .. job'[q].at : mem'[job'[q].fd][k] = job'[q].doc
               /\ job'[q].pc = "rename" => /\ mem'[dir'[job'[q].tmp]] = Whole(job'[q].doc)
                                           /\ disk'[dir'[job'[q].tmp]] = Whole(job'[q].doc)
    <3>1. Safe(q) /\ job'[q] = job[q]
      BY <2>1, <2>4 DEF Safe
    <3>2. job[q].pc \in Filling \cup {"rename"} =>
            job[q].tmp \in Names /\ dir[job[q].tmp] # Nothing
      BY <3>1, NamesApart DEF NamesInv, TypeInv, JobOK, Holding, Filling
    <3>3. job[q].pc \in Filling => job[q].fd = dir[job[q].tmp]
      BY <3>1 DEF NamesInv
    <3> QED
      BY <2>1, <2>2, <3>1, <3>2, <3>3 DEF ContentInv
  <2> QED
    BY <2>3, <2>4 DEF ContentInv
<1>5. CASE Crash
  <2>1. PICK lost :
          LET m == [i \in Inodes |-> [k \in Part |->
                      IF <<i, k>> \in lost THEN disk[i][k] ELSE mem[i][k]]]
          IN Settle(m, m)
    BY <1>5 DEF Crash
  <2> DEFINE m == [i \in Inodes |-> [k \in Part |->
                     IF <<i, k>> \in lost THEN disk[i][k] ELSE mem[i][k]]]
  <2>2. dir' = dirDisk /\ dirDisk' = dirDisk /\ job' = [p \in Writers |-> Idle] /\ Settle(m, m)
    BY <1>5, <2>1 DEF Crash
  <2>3. ASSUME NEW i \in Inodes, NEW e, mem[i] = Whole(e), disk[i] = Whole(e)
        PROVE  m[i] = Whole(e)
    BY <2>3 DEF Whole
  <2>4. shared => shared'
    BY <2>2 DEF Settle
  <2> HIDE DEF m
  <2>5. ASSUME NEW n \in Finals, n = Manifest \/ ~shared', dirDisk[n] # Nothing
        PROVE  Good(n, dirDisk[n], mem, disk)' /\ Good(n, dir[n], mem, disk)'
    <3>1. n \in Names /\ dirDisk[n] \in Inodes /\ dirDisk[n] \in Used'
      BY <2>2, <2>5, NamesApart DEF TypeInv, Used
    <3>2. mem'[dirDisk[n]] = m[dirDisk[n]] /\ disk'[dirDisk[n]] = m[dirDisk[n]]
      BY <2>2, <3>1, Settled
    <3>3. PICK e \in Docs : /\ n \in {Blob(e), Manifest, Target}
                            /\ mem[dirDisk[n]] = Whole(e) /\ disk[dirDisk[n]] = Whole(e)
      BY <2>4, <2>5 DEF ContentInv, FinalsOK
    <3>4. m[dirDisk[n]] = Whole(e)
      BY <2>3, <3>1, <3>3
    <3> QED
      BY <2>2, <3>2, <3>3, <3>4 DEF Good
  <2>6. FinalsOK(dir)' /\ FinalsOK(dirDisk)'
    BY <2>2, <2>5 DEF FinalsOK, Good
  <2>7. Idle.pc = "idle"
    BY DEF Idle
  <2> QED
    BY <2>2, <2>6, <2>7 DEF ContentInv, Filling
<1>6. CASE UNCHANGED vars
  BY <1>6 DEF vars, ContentInv, FinalsOK, Safe
<1> QED
  BY <1>2, <1>3, <1>4, <1>5, <1>6, StepKinds, ContentCreate, ContentWrite, ContentSync, ContentRename

-----------------------------------------------------------------------------
(* Blobs before manifests.                                                 *)

\* A writer's step keeps manifests backed if blobs keep their names, and the
\* manifest is as before or names a blob that is there.
LEMMA BackedDoes ==
  ASSUME TypeInv, TypeInv', BackedInv,
         NEW p \in Writers, NEW j, NEW d, NEW m, NEW s, Does(p, j, d, m, s),
         \A e \in Docs : dir[Blob(e)] # Nothing => d[Blob(e)] # Nothing,
         d[Manifest] # Nothing =>
           \/ d[Manifest] = dir[Manifest] /\ m[dir[Manifest]] = mem[dir[Manifest]]
           \/ \E e \in Docs : m[d[Manifest]] = Whole(e) /\ d[Blob(e)] # Nothing,
         dirDisk[Manifest] # Nothing => m[dirDisk[Manifest]] = mem[dirDisk[Manifest]],
         j.kind = "manifest" => d[Blob(j.doc)] # Nothing
  PROVE  BackedInv'
<1>1. /\ dir' = d /\ dirDisk' = dirDisk /\ job' = [job EXCEPT ![p] = j] /\ Settle(m, s)
  BY DEF Does
<1>2. job'[p] = j /\ \A q \in Writers : q # p => job'[q] = job[q]
  BY <1>1 DEF TypeInv
<1>3. Manifest \in Names /\ \A e \in Docs : Blob(e) \in Names
  BY NamesApart
<1>4. BackedIn(dir)'
  <2> SUFFICES ASSUME NEW e \in Docs, d[Manifest] # Nothing, mem'[d[Manifest]] = Whole(e)
               PROVE  d[Blob(e)] # Nothing
    BY <1>1 DEF BackedIn
  <2>1. d[Manifest] \in Inodes /\ d[Manifest] \in Used'
    BY <1>1, <1>3 DEF TypeInv, Used
  <2>2. m[d[Manifest]] = Whole(e)
    BY <1>1, <2>1, Settled
  <2>3. CASE d[Manifest] = dir[Manifest] /\ m[dir[Manifest]] = mem[dir[Manifest]]
    BY <2>2, <2>3 DEF BackedInv, BackedIn
  <2>4. CASE \E c \in Docs : m[d[Manifest]] = Whole(c) /\ d[Blob(c)] # Nothing
    BY <2>2, <2>4, WholeFacts
  <2> QED
    BY <2>3, <2>4
<1>5. BackedIn(dirDisk)'
  <2> SUFFICES ASSUME NEW e \in Docs, dirDisk[Manifest] # Nothing,
                      mem'[dirDisk[Manifest]] = Whole(e)
               PROVE  dirDisk[Blob(e)] # Nothing
    BY <1>1 DEF BackedIn
  <2>1. dirDisk[Manifest] \in Inodes /\ dirDisk[Manifest] \in Used'
    BY <1>1, <1>3 DEF TypeInv, Used
  <2>2. mem[dirDisk[Manifest]] = Whole(e)
    BY <1>1, <2>1, Settled
  <2> QED
    BY <2>2 DEF BackedInv, BackedIn
<1>6. ASSUME NEW q \in Writers, job'[q].kind = "manifest"
      PROVE  dir'[Blob(job'[q].doc)] # Nothing
  <2>1. CASE q = p
    BY <1>1, <1>2, <1>6, <2>1
  <2>2. CASE q # p
    <3>1. job'[q] = job[q] /\ dir[Blob(job[q].doc)] # Nothing
      BY <1>2, <1>6, <2>2 DEF BackedInv
    <3>2. job[q].doc \in Docs
      BY <1>6, <3>1 DEF TypeInv, JobOK
    <3> QED
      BY <1>1, <3>1, <3>2
  <2> QED
    BY <2>1, <2>2
<1> QED
  BY <1>4, <1>5, <1>6 DEF BackedInv

\* A manifest names a snapshot only when its blob is there.
LEMMA BackedKept ==
  TypeInv /\ NamesInv /\ ContentInv /\ BackedInv /\ TypeInv' /\ [Next]_vars => BackedInv'
<1> SUFFICES ASSUME TypeInv, NamesInv, ContentInv, BackedInv, TypeInv', [Next]_vars
             PROVE  BackedInv'
  OBVIOUS
<1>0. Manifest \in Names /\ \A e \in Docs : Blob(e) \in Names
  BY NamesApart
<1>1. ASSUME NEW p \in Writers, NEW j, Quiet(p, j)
      PROVE  BackedInv'
  <2>1. Does(p, j, dir, mem, disk) /\ job[p] \in Jobs
    BY <1>1 DEF Quiet, TypeInv
  <2>2. CASE j = Idle \/ \E e \in Docs : j \in {Job("has", "blob", e), Job("create", "blob", e),
                                               Job("create", "restore", e)}
    <3>0. Idle.kind = "none" /\ \A pc, kind, d : Job(pc, kind, d).kind = kind
      BY DEF Job, Idle
    <3>1. j.kind # "manifest"
      BY <2>2, <3>0
    <3> QED
      BY <2>1, <3>1, BackedDoes
  <2>3. CASE \E e \in Docs : j = Job("create", "manifest", e) /\ dir[Blob(e)] # Nothing
    <3>1. dir[Blob(j.doc)] # Nothing
      BY <2>3 DEF Job, Idle
    <3> QED
      BY <2>1, <3>1, BackedDoes
  <2>4. CASE j = [job[p] EXCEPT !.tries = @ + 1]
    <3>1. j.kind = job[p].kind /\ j.doc = job[p].doc
      BY <2>1, <2>4 DEF Jobs
    <3>2. j.kind = "manifest" => dir[Blob(j.doc)] # Nothing
      BY <3>1 DEF BackedInv
    <3> QED
      BY <2>1, <3>2, BackedDoes
  <2> QED
    BY <1>1, <2>2, <2>3, <2>4 DEF Quiet, Becoming
<1>2. ASSUME NEW p \in Writers, Unlink(p)
      PROVE  BackedInv'
  <2> DEFINE d == [dir EXCEPT ![job[p].tmp] = Nothing]
  <2>1. Does(p, Idle, d, mem, disk) /\ Holds(p) /\ job[p].tmp \in Temps
    BY <1>2 DEF Unlink, Holds, TypeInv, JobOK
  <2>2. \A n \in Names : n # job[p].tmp => d[n] = dir[n]
    BY DEF TypeInv
  <2>3. d[Manifest] = dir[Manifest] /\ \A e \in Docs : d[Blob(e)] = dir[Blob(e)]
    BY <2>1, <2>2, NamesApart
  <2>4. Idle.kind # "manifest"
    BY DEF Idle
  <2> HIDE DEF d
  <2> QED
    BY <2>1, <2>3, <2>4, BackedDoes
<1>3. ASSUME NEW p \in Writers, Create(p)
      PROVE  BackedInv'
  <2>1. PICK n, i :
          /\ n \in Temps
          /\ i = IF dir[n] = Nothing THEN CHOOSE u \in Unused : TRUE ELSE dir[n]
          /\ dir[n] = Nothing => Unused # {}
          /\ Does(p, [job[p] EXCEPT !.pc = "write", !.tmp = n, !.fd = i],
                  [dir EXCEPT ![n] = i], [mem EXCEPT ![i] = Blank], disk)
    BY <1>3 DEF Create
  <2> DEFINE j == [job[p] EXCEPT !.pc = "write", !.tmp = n, !.fd = i]
             d == [dir EXCEPT ![n] = i]
             m == [mem EXCEPT ![i] = Blank]
  <2>2. n \in Names /\ job[p] \in Jobs
    BY <2>1, NamesApart DEF TypeInv
  <2>3. d[Manifest] = dir[Manifest] /\ \A e \in Docs : d[Blob(e)] = dir[Blob(e)]
    BY <1>0, <2>1, NamesApart DEF TypeInv
  <2>4. (dir[Manifest] # Nothing => dir[Manifest] # i)
        /\ (dirDisk[Manifest] # Nothing => dirDisk[Manifest] # i)
    <3>1. CASE dir[n] = Nothing
      BY <1>0, <2>1, <3>1 DEF Unused, Used
    <3>2. CASE dir[n] # Nothing
      BY <1>0, <2>1, <2>2, <3>2, NamesApart DEF NamesInv, Single
    <3> QED
      BY <3>1, <3>2
  <2>5. \A k \in Inodes : k # i => m[k] = mem[k]
    BY DEF TypeInv
  <2>6. /\ dir[Manifest] # Nothing => m[dir[Manifest]] = mem[dir[Manifest]]
        /\ dirDisk[Manifest] # Nothing => m[dirDisk[Manifest]] = mem[dirDisk[Manifest]]
    BY <1>0, <2>4, <2>5 DEF TypeInv
  <2>7. j.kind = job[p].kind /\ j.doc = job[p].doc
    BY <2>2 DEF Jobs
  <2>8. j.kind = "manifest" => j.doc \in Docs /\ dir[Blob(j.doc)] # Nothing
    <3>1. JobOK(job[p]) /\ job[p].pc = "create"
      BY <1>3 DEF Create, At, TypeInv
    <3> QED
      BY <2>7, <3>1 DEF BackedInv, JobOK
  <2>9. Does(p, j, d, m, disk)
    BY <2>1
  <2> HIDE DEF j, d, m
  <2> QED
    BY <2>3, <2>6, <2>8, <2>9, BackedDoes
<1>4. ASSUME NEW p \in Writers, Write(p)
      PROVE  BackedInv'
  <2> DEFINE j == [job[p] EXCEPT !.at = job[p].at + 1,
                     !.pc = IF job[p].at + 1 = Parts THEN "sync" ELSE "write"]
             m == [mem EXCEPT ![job[p].fd] = [@ EXCEPT ![job[p].at + 1] = job[p].doc]]
  <2>1. Does(p, j, dir, m, disk) /\ job[p].pc \in Filling /\ job[p] \in Jobs
    BY <1>4 DEF Write, At, Filling, TypeInv
  <2>2. j.kind = job[p].kind /\ j.doc = job[p].doc
    BY <2>1 DEF Jobs
  <2>3. dir[Manifest] # job[p].fd /\ dirDisk[Manifest] # job[p].fd
    BY <2>1, FillingAlone, NamesApart
  <2>4. /\ dir[Manifest] # Nothing => m[dir[Manifest]] = mem[dir[Manifest]]
        /\ dirDisk[Manifest] # Nothing => m[dirDisk[Manifest]] = mem[dirDisk[Manifest]]
    BY <1>0, <2>3 DEF TypeInv
  <2>5. j.kind = "manifest" => dir[Blob(j.doc)] # Nothing
    BY <2>2 DEF BackedInv
  <2> HIDE DEF j, m
  <2> QED
    BY <2>1, <2>4, <2>5, BackedDoes
<1>5. ASSUME NEW p \in Writers, Sync(p)
      PROVE  BackedInv'
  <2> DEFINE j == [job[p] EXCEPT !.pc = "rename", !.fd = Nothing]
             s == [disk EXCEPT ![job[p].fd] = mem[job[p].fd]]
  <2>1. Does(p, j, dir, mem, s) /\ job[p] \in Jobs
    BY <1>5 DEF Sync, TypeInv
  <2>2. j.kind = job[p].kind /\ j.doc = job[p].doc
    BY <2>1 DEF Jobs
  <2>3. j.kind = "manifest" => dir[Blob(j.doc)] # Nothing
    BY <2>2 DEF BackedInv
  <2> HIDE DEF j, s
  <2> QED
    BY <2>1, <2>3, BackedDoes
<1>6. ASSUME NEW p \in Writers, Rename(p)
      PROVE  BackedInv'
  <2> DEFINE t == job[p].tmp
             f == Final(job[p])
             d == [dir EXCEPT ![f] = dir[t], ![t] = Nothing]
  <2>1. Does(p, Continue(job[p]), d, mem, disk)
    BY <1>6 DEF Rename
  <2>2. /\ job[p].pc = "rename" /\ f \in Finals /\ t \in Temps /\ dir[t] # Nothing
        /\ job[p].doc \in Docs
        /\ job[p].kind = "manifest" <=> f = Manifest
    BY <1>6, RenameFacts DEF TypeInv
  <2>3. \A n \in Names : d[n] = IF n = t THEN Nothing ELSE IF n = f THEN dir[t] ELSE dir[n]
    BY <2>2, NamesApart DEF TypeInv
  <2>4. Continue(job[p]).kind = "manifest" =>
          f = Blob(job[p].doc) /\ Continue(job[p]).doc = job[p].doc
    <3>1. job[p] \in Jobs /\ job[p].kind \in Kinds
      BY <2>2 DEF TypeInv, JobOK
    <3> QED
      BY <3>1 DEF Continue, Job, Idle, Final, Jobs, Kinds
  <2> HIDE DEF t, f, d
  <2>5. \A e \in Docs : dir[Blob(e)] # Nothing => d[Blob(e)] # Nothing
    BY <2>2, <2>3, NamesApart
  <2>6. d[Manifest] # Nothing =>
          \/ d[Manifest] = dir[Manifest]
          \/ \E e \in Docs : mem[d[Manifest]] = Whole(e) /\ d[Blob(e)] # Nothing
    <3>1. CASE f # Manifest
      BY <2>2, <2>3, <3>1, NamesApart
    <3>2. CASE f = Manifest
      <4>1. job[p].kind = "manifest" /\ dir[Blob(job[p].doc)] # Nothing
        BY <2>2, <3>2 DEF BackedInv
      <4>2. mem[dir[t]] = Whole(job[p].doc)
        BY <2>2, <4>1 DEF ContentInv, Safe, t
      <4>3. d[Manifest] = dir[t]
        BY <2>2, <2>3, <3>2, NamesApart
      <4> QED
        BY <2>2, <2>5, <4>1, <4>2, <4>3
    <3> QED
      BY <3>1, <3>2
  <2>7. Continue(job[p]).kind = "manifest" => d[Blob(Continue(job[p]).doc)] # Nothing
    BY <2>2, <2>3, <2>4, NamesApart
  <2> QED
    BY <2>1, <2>5, <2>6, <2>7, BackedDoes
<1>7. CASE Commit
  <2>1. dirDisk' = dir /\ dir' = dir /\ job' = job /\ Settle(mem, disk)
    BY <1>7 DEF Commit
  <2>2. dir[Manifest] # Nothing => mem'[dir[Manifest]] = mem[dir[Manifest]]
    <3> SUFFICES ASSUME dir[Manifest] # Nothing
                 PROVE  mem'[dir[Manifest]] = mem[dir[Manifest]]
      OBVIOUS
    <3>1. dir[Manifest] \in Inodes /\ dir[Manifest] \in Used'
      BY <1>0, <2>1 DEF TypeInv, Used
    <3> QED
      BY <2>1, <3>1, Settled
  <2> QED
    BY <2>1, <2>2 DEF BackedInv, BackedIn
<1>8. CASE Crash
  <2>1. PICK lost :
          LET m == [i \in Inodes |-> [k \in Part |->
                      IF <<i, k>> \in lost THEN disk[i][k] ELSE mem[i][k]]]
          IN Settle(m, m)
    BY <1>8 DEF Crash
  <2> DEFINE m == [i \in Inodes |-> [k \in Part |->
                     IF <<i, k>> \in lost THEN disk[i][k] ELSE mem[i][k]]]
  <2>2. dir' = dirDisk /\ dirDisk' = dirDisk /\ job' = [p \in Writers |-> Idle] /\ Settle(m, m)
    BY <1>8, <2>1 DEF Crash
  <2>3. ASSUME NEW i \in Inodes, NEW e, mem[i] = Whole(e), disk[i] = Whole(e)
        PROVE  m[i] = Whole(e)
    BY <2>3 DEF Whole
  <2> HIDE DEF m
  <2>4. ASSUME NEW e \in Docs, dirDisk[Manifest] # Nothing, mem'[dirDisk[Manifest]] = Whole(e)
        PROVE  dirDisk[Blob(e)] # Nothing
    <3>1. dirDisk[Manifest] \in Inodes /\ dirDisk[Manifest] \in Used'
      BY <1>0, <2>2, <2>4 DEF TypeInv, Used
    <3>2. m[dirDisk[Manifest]] = Whole(e)
      BY <2>2, <2>4, <3>1, Settled
    <3>3. PICK c \in Docs : mem[dirDisk[Manifest]] = Whole(c) /\ disk[dirDisk[Manifest]] = Whole(c)
      BY <2>4, NamesApart DEF ContentInv, FinalsOK
    <3>4. c = e
      BY <2>3, <3>1, <3>2, <3>3, WholeFacts
    <3> QED
      BY <2>4, <3>3, <3>4 DEF BackedInv, BackedIn
  <2>5. Idle.kind # "manifest"
    BY DEF Idle
  <2> QED
    BY <2>2, <2>4, <2>5 DEF BackedInv, BackedIn
<1>9. CASE UNCHANGED vars
  BY <1>9 DEF vars, BackedInv, BackedIn
<1> QED
  BY <1>1, <1>2, <1>3, <1>4, <1>5, <1>6, <1>7, <1>8, <1>9, StepKinds

-----------------------------------------------------------------------------
(* The theorems.                                                           *)

\* The invariant is preserved.
LEMMA Inductive == FilesInv /\ [Next]_vars => FilesInv'
  BY TypeKept, NamesKept, ContentKept, BackedKept DEF FilesInv

\* It holds always.
THEOREM FilesInvariant == Spec => []FilesInv
  BY InitInv, Inductive, PTL DEF Spec

\* What a reader finds under a final name is complete, where FinalsOK says so.
LEMMA SoundFromInv ==
  ASSUME FilesInv, NEW n \in Finals, n = Manifest \/ ~shared
  PROVE  Sound(n)
<1>1. CASE dir[n] = Nothing
  BY <1>1 DEF Sound, Reads
<1>2. CASE dir[n] # Nothing
  <2>1. PICK d \in Docs : n \in {Blob(d), Manifest, Target} /\ mem[dir[n]] = Whole(d)
    BY <1>2 DEF FilesInv, ContentInv, FinalsOK
  <2> QED
    BY <1>2, <2>1 DEF Sound, Reads, Proper
<1> QED
  BY <1>1, <1>2

\* No kill, no crash of the machine and no other writer ever leaves a torn
\* manifest: what atomicwrite.Bytes is for.
THEOREM ManifestNeverTorn == Spec => []ManifestWhole
<1>1. FilesInv => ManifestWhole
  BY SoundFromInv, NamesApart DEF ManifestWhole
<1> QED
  BY <1>1, FilesInvariant, PTL

\* Blobs and the target are complete as long as no two writers had the same
\* temporary file at once: what CommitBlob and the swap of restore are for.
THEOREM WholeWhenAlone == Spec => []WholeIfAlone
<1>1. FilesInv => WholeIfAlone
  BY SoundFromInv DEF WholeIfAlone
<1> QED
  BY <1>1, FilesInvariant, PTL

\* The order of CommitBlob and the manifest's write survives a crash of the
\* machine: a manifest names a snapshot only when its blob is there, complete.
THEOREM EntriesBackedAfterCrash == Spec => []EntryBackedIfAlone
<1>1. ASSUME FilesInv, ~shared, NEW d \in Docs, Reads(dir, mem, Manifest) = Whole(d)
      PROVE  Reads(dir, mem, Blob(d)) = Whole(d)
  <2>1. CASE dir[Blob(d)] # Nothing
    <3>1. PICK e \in Docs : Blob(d) \in {Blob(e), Manifest, Target}
                            /\ mem[dir[Blob(d)]] = Whole(e)
      BY <1>1, <2>1, NamesApart DEF FilesInv, ContentInv, FinalsOK
    <3>2. e = d
      BY <3>1, NamesApart, BlobsApart
    <3> QED
      BY <2>1, <3>1, <3>2 DEF Reads
  <2>2. CASE dir[Blob(d)] = Nothing
    <3>1. dir[Manifest] = Nothing
      BY <1>1, <2>2 DEF FilesInv, BackedInv, BackedIn, Reads
    <3> QED
      BY <1>1, <2>2, <3>1 DEF Reads
  <2> QED
    BY <2>1, <2>2
<1>2. FilesInv => EntryBackedIfAlone
  BY <1>1 DEF EntryBackedIfAlone
<1> QED
  BY <1>2, FilesInvariant, PTL

\* How many jobs and faults there have been.
Counted == jobs \in 0 .. MaxJobs /\ faults \in 0 .. MaxFaults

\* Every variable keeps its kind, and the counters their bounds.
THEOREM TypeCorrect == Spec => []TypeOK
<1>1. Init => Counted
  BY FilesBounds DEF Init, Counted
<1>2. Counted /\ [Next]_vars => Counted'
  <2> SUFFICES ASSUME Counted, [Next]_vars PROVE Counted'
    OBVIOUS
  <2>1. ASSUME NEW p \in Writers, NEW j, Begin(p, j)
        PROVE  Counted'
    BY <2>1, FilesBounds DEF Begin, Counted
  <2>2. ASSUME Fault
        PROVE  Counted'
    BY <2>2, FilesBounds DEF Fault, Counted
  <2>3. ASSUME UNCHANGED <<jobs, faults>>
        PROVE  Counted'
    BY <2>3 DEF Counted
  <2> QED
    BY <2>1, <2>2, <2>3
    DEF Next, Snapshot, Restore, Step, Kill, ChmodError, Commit, Crash, vars
<1>3. FilesInv /\ Counted => TypeOK
  BY DEF FilesInv, TypeInv, Counted, TypeOK, Jobs, Kinds
<1> QED
  BY <1>1, <1>2, <1>3, FilesInvariant, PTL DEF Spec

-----------------------------------------------------------------------------
(* What readers see.                                                       *)

See == [n \in Finals |-> Reads(dir, mem, n)]

\* A writer's step that leaves the final names and their files alone is not seen.
LEMMA Unseen ==
  ASSUME TypeInv', NEW p \in Writers, NEW j, NEW d, NEW m, NEW s, Does(p, j, d, m, s),
         \A n \in Finals : d[n] = dir[n] /\ (dir[n] # Nothing => m[dir[n]] = mem[dir[n]])
  PROVE  See' = See
<1>1. ASSUME NEW n \in Finals
      PROVE  Reads(dir, mem, n)' = Reads(dir, mem, n)
  <2>1. dir' = d /\ Settle(m, s) /\ n \in Names
    BY NamesApart DEF Does
  <2>2. CASE d[n] # Nothing
    <3>1. d[n] \in Inodes /\ d[n] \in Used'
      BY <2>1, <2>2 DEF TypeInv, Used
    <3>2. mem'[d[n]] = m[d[n]]
      BY <2>1, <3>1, Settled
    <3> QED
      BY <2>1, <2>2, <3>2 DEF Reads
  <2>3. CASE d[n] = Nothing
    BY <2>1, <2>3 DEF Reads
  <2> QED
    BY <2>2, <2>3
<1> QED
  BY <1>1 DEF See

\* Readers see one complete document replace another, or a crash go back to
\* what was on disk: the rename is atomic, and its file complete and synced.
THEOREM ChangesWhole == Spec => ChangesWholeIfAlone
<1> DEFINE Changed == \/ See' = See
                      \/ \E p \in Writers :
                           See' = [See EXCEPT ![Final(job[p])] = Whole(job[p].doc)]
                      \/ See' = [n \in Finals |-> Reads(dirDisk, disk, n)]
<1>1. ASSUME FilesInv, FilesInv', ~shared', [Next]_vars
      PROVE  Changed
  <2>0. /\ TypeInv /\ NamesInv /\ ContentInv /\ TypeInv'
        /\ Finals \subseteq Names
    BY <1>1, NamesApart DEF FilesInv
  <2>1. ASSUME NEW p \in Writers, NEW j, Quiet(p, j)
        PROVE  See' = See
    <3>1. Does(p, j, dir, mem, disk)
      BY <2>1 DEF Quiet
    <3> QED
      BY <2>0, <3>1, Unseen
  <2>2. ASSUME NEW p \in Writers, Unlink(p)
        PROVE  See' = See
    <3>1. /\ Does(p, Idle, [dir EXCEPT ![job[p].tmp] = Nothing], mem, disk)
          /\ job[p].tmp \in Temps
      BY <2>0, <2>2 DEF Unlink, Holds, TypeInv, JobOK
    <3>2. \A n \in Finals : [dir EXCEPT ![job[p].tmp] = Nothing][n] = dir[n]
      BY <2>0, <3>1, NamesApart DEF TypeInv
    <3> QED
      BY <2>0, <3>1, <3>2, Unseen
  <2>3. ASSUME NEW p \in Writers, Create(p)
        PROVE  See' = See
    <3>1. PICK n, i :
            /\ n \in Temps
            /\ i = IF dir[n] = Nothing THEN CHOOSE u \in Unused : TRUE ELSE dir[n]
            /\ dir[n] = Nothing => Unused # {}
            /\ Does(p, [job[p] EXCEPT !.pc = "write", !.tmp = n, !.fd = i],
                    [dir EXCEPT ![n] = i], [mem EXCEPT ![i] = Blank], disk)
      BY <2>3 DEF Create
    <3>2. \A f \in Finals : [dir EXCEPT ![n] = i][f] = dir[f]
      BY <2>0, <3>1, NamesApart DEF TypeInv
    <3>3. \A f \in Finals : dir[f] # Nothing => dir[f] # i
      <4>1. CASE dir[n] = Nothing
        BY <2>0, <3>1, <4>1 DEF Unused, Used
      <4>2. CASE dir[n] # Nothing
        BY <2>0, <3>1, <4>2, NamesApart DEF NamesInv, Single
      <4> QED
        BY <4>1, <4>2
    <3>4. \A f \in Finals : dir[f] # Nothing => [mem EXCEPT ![i] = Blank][dir[f]] = mem[dir[f]]
      BY <2>0, <3>3 DEF TypeInv
    <3> DEFINE j == [job[p] EXCEPT !.pc = "write", !.tmp = n, !.fd = i]
               d == [dir EXCEPT ![n] = i]
               m == [mem EXCEPT ![i] = Blank]
    <3>5. /\ Does(p, j, d, m, disk)
          /\ \A f \in Finals : d[f] = dir[f] /\ (dir[f] # Nothing => m[dir[f]] = mem[dir[f]])
      BY <3>1, <3>2, <3>4
    <3> HIDE DEF j, d, m
    <3> QED
      BY <2>0, <3>5, Unseen
  <2>4. ASSUME NEW p \in Writers, Write(p)
        PROVE  See' = See
    <3> DEFINE j == [job[p] EXCEPT !.at = job[p].at + 1,
                       !.pc = IF job[p].at + 1 = Parts THEN "sync" ELSE "write"]
               m == [mem EXCEPT ![job[p].fd] = [@ EXCEPT ![job[p].at + 1] = job[p].doc]]
    <3>1. Does(p, j, dir, m, disk) /\ job[p].pc \in Filling /\ ~shared
      BY <1>1, <2>4 DEF Write, At, Filling, Does, Settle
    <3>2. \A n \in Finals : dir[n] # job[p].fd
      BY <2>0, <3>1, FillingAlone
    <3>3. \A n \in Finals : dir[n] # Nothing => m[dir[n]] = mem[dir[n]]
      BY <2>0, <3>2 DEF TypeInv
    <3> HIDE DEF j, m
    <3> QED
      BY <2>0, <3>1, <3>3, Unseen
  <2>5. ASSUME NEW p \in Writers, Sync(p)
        PROVE  See' = See
    <3>1. Does(p, [job[p] EXCEPT !.pc = "rename", !.fd = Nothing],
               dir, mem, [disk EXCEPT ![job[p].fd] = mem[job[p].fd]])
      BY <2>5 DEF Sync
    <3> QED
      BY <2>0, <3>1, Unseen
  <2>6. ASSUME NEW p \in Writers, Rename(p)
        PROVE  See' = [See EXCEPT ![Final(job[p])] = Whole(job[p].doc)]
    <3> DEFINE t == job[p].tmp
               f == Final(job[p])
               d == [dir EXCEPT ![f] = dir[t], ![t] = Nothing]
    <3>1. Does(p, Continue(job[p]), d, mem, disk) /\ ~shared
      BY <1>1, <2>6 DEF Rename, Does, Settle
    <3>2. /\ job[p].pc = "rename" /\ f \in Finals /\ t \in Temps /\ dir[t] # Nothing
      BY <2>0, <2>6, RenameFacts DEF TypeInv
    <3>3. mem[dir[t]] = Whole(job[p].doc)
      BY <2>0, <3>1, <3>2 DEF ContentInv, Safe
    <3>4. \A n \in Names : d[n] = IF n = t THEN Nothing ELSE IF n = f THEN dir[t] ELSE dir[n]
      BY <2>0, <3>2, NamesApart DEF TypeInv
    <3> HIDE DEF t, f, d
    <3>5. ASSUME NEW n \in Finals
          PROVE  Reads(dir, mem, n)' = IF n = f THEN Whole(job[p].doc) ELSE Reads(dir, mem, n)
      <4>1. dir' = d /\ Settle(mem, disk) /\ n \in Names /\ n # t
        BY <3>1, <3>2, NamesApart DEF Does
      <4>2. CASE d[n] # Nothing
        <5>1. d[n] \in Inodes /\ d[n] \in Used'
          BY <2>0, <4>1, <4>2 DEF TypeInv, Used
        <5>2. mem'[d[n]] = mem[d[n]]
          BY <4>1, <5>1, Settled
        <5> QED
          BY <3>3, <3>4, <4>1, <4>2, <5>2 DEF Reads
      <4>3. CASE d[n] = Nothing
        BY <3>2, <3>4, <4>1, <4>3 DEF Reads
      <4> QED
        BY <4>2, <4>3
    <3> QED
      BY <3>5 DEF See, f
  <2>7. CASE Commit
    <3>1. ASSUME NEW n \in Finals
          PROVE  Reads(dir, mem, n)' = Reads(dir, mem, n)
      <4>1. dir' = dir /\ Settle(mem, disk) /\ n \in Names
        BY <2>0, <2>7 DEF Commit
      <4>2. dir[n] # Nothing => dir[n] \in Inodes /\ dir[n] \in Used'
        BY <2>0, <4>1 DEF TypeInv, Used
      <4>3. dir[n] # Nothing => mem'[dir[n]] = mem[dir[n]]
        BY <4>1, <4>2, Settled
      <4> QED
        BY <4>1, <4>3 DEF Reads
    <3> QED
      BY <3>1 DEF See
  <2>8. CASE Crash
    <3>1. PICK lost :
            LET m == [i \in Inodes |-> [k \in Part |->
                        IF <<i, k>> \in lost THEN disk[i][k] ELSE mem[i][k]]]
            IN Settle(m, m)
      BY <2>8 DEF Crash
    <3> DEFINE m == [i \in Inodes |-> [k \in Part |->
                       IF <<i, k>> \in lost THEN disk[i][k] ELSE mem[i][k]]]
    <3>2. dir' = dirDisk /\ dirDisk' = dirDisk /\ Settle(m, m) /\ ~shared
      BY <1>1, <2>8, <3>1 DEF Crash, Settle
    <3>3. ASSUME NEW i \in Inodes, NEW e, mem[i] = Whole(e), disk[i] = Whole(e)
          PROVE  m[i] = disk[i]
      BY <3>3 DEF Whole
    <3> HIDE DEF m
    <3>4. ASSUME NEW n \in Finals
          PROVE  Reads(dir, mem, n)' = Reads(dirDisk, disk, n)
      <4>1. CASE dirDisk[n] = Nothing
        BY <3>2, <4>1 DEF Reads
      <4>2. CASE dirDisk[n] # Nothing
        <5>1. dirDisk[n] \in Inodes /\ dirDisk[n] \in Used'
          BY <2>0, <3>2, <4>2 DEF TypeInv, Used
        <5>2. mem'[dirDisk[n]] = m[dirDisk[n]]
          BY <3>2, <5>1, Settled
        <5>3. m[dirDisk[n]] = disk[dirDisk[n]]
          BY <2>0, <3>2, <3>3, <4>2, <5>1 DEF ContentInv, FinalsOK
        <5> QED
          BY <3>2, <4>2, <5>2, <5>3 DEF Reads
      <4> QED
        BY <4>1, <4>2
    <3> QED
      BY <3>4 DEF See
  <2>9. CASE UNCHANGED vars
    BY <2>9 DEF vars, See, Reads
  <2> QED
    BY <1>1, <2>0, <2>1, <2>2, <2>3, <2>4, <2>5, <2>6, <2>7, <2>8, <2>9, StepKinds
<1>2. ASSUME FilesInv, FilesInv', [Next]_vars
      PROVE  [~shared' =>
                LET see == [n \in Finals |-> Reads(dir, mem, n)]
                IN \/ see' = see
                   \/ \E p \in Writers : LET j == job[p]
                        IN see' = [see EXCEPT ![Final(j)] = Whole(j.doc)]
                   \/ see' = [n \in Finals |-> Reads(dirDisk, disk, n)]]_vars
  BY <1>1, <1>2 DEF See
<1> QED
  BY <1>2, FilesInvariant, PTL DEF Spec, ChangesWholeIfAlone

-----------------------------------------------------------------------------
(* What is left.                                                           *)

\* Each temporary file that is there is the one that some writer is working on.
Claimed == \A n \in Temps : dir[n] # Nothing => \E p \in Writers : Holds(p) /\ job[p].tmp = n

ClaimedInv == faults = 0 => Claimed

\* A step of p that leaves the names alone, with its temporary file kept or not
\* yet made.
LEMMA ClaimedKept ==
  ASSUME TypeInv, Claimed, NEW p \in Writers, NEW j, dir' = dir, job' = [job EXCEPT ![p] = j],
         ~Holds(p) \/ (j.pc \in Holding /\ j.tmp = job[p].tmp)
  PROVE  Claimed'
<1> SUFFICES ASSUME NEW n \in Temps, dir[n] # Nothing
             PROVE  \E q \in Writers : job'[q].pc \in Holding /\ job'[q].tmp = n
  BY DEF Claimed, Holds
<1>1. PICK q \in Writers : Holds(q) /\ job[q].tmp = n
  BY DEF Claimed
<1>2. job'[p] = j /\ (q # p => job'[q] = job[q])
  BY DEF TypeInv
<1> QED
  BY <1>1, <1>2 DEF Holds

\* A step of p after which the name of its temporary file is free.
LEMMA ClaimedFreed ==
  ASSUME TypeInv, Claimed, NEW p \in Writers, NEW j, job' = [job EXCEPT ![p] = j],
         dir'[job[p].tmp] = Nothing, \A n \in Temps \ {job[p].tmp} : dir'[n] = dir[n]
  PROVE  Claimed'
<1> SUFFICES ASSUME NEW n \in Temps, dir'[n] # Nothing
             PROVE  \E q \in Writers : job'[q].pc \in Holding /\ job'[q].tmp = n
  BY DEF Claimed, Holds
<1>1. PICK q \in Writers : Holds(q) /\ job[q].tmp = n
  BY DEF Claimed
<1>2. q # p /\ job'[q] = job[q]
  BY <1>1 DEF TypeInv
<1> QED
  BY <1>1, <1>2 DEF Holds

\* Each step but a fault keeps it so.
LEMMA ClaimedStep == TypeInv /\ Counted /\ Claimed /\ [Next]_vars /\ faults' = faults => Claimed'
<1> SUFFICES ASSUME TypeInv, Counted, Claimed, [Next]_vars, UNCHANGED faults PROVE Claimed'
  OBVIOUS
<1>0. /\ dir \in [Names -> Inodes \cup {Nothing}] /\ job \in [Writers -> Jobs]
      /\ Temps \subseteq Names /\ Temps \cap Finals = {}
  BY NamesApart DEF TypeInv, Names
<1>1. ASSUME NEW p \in Writers, NEW j, Does(p, j, dir, mem, disk),
             ~Holds(p) \/ (j.pc \in Holding /\ j.tmp = job[p].tmp)
      PROVE  Claimed'
  BY <1>1, ClaimedKept DEF Does
<1>2. ASSUME NEW p \in Writers, NEW j, Begin(p, j)
      PROVE  Claimed'
  BY <1>1, <1>2 DEF Begin, At, Holds, Holding
<1>3. ASSUME NEW p \in Writers, HasBlob(p)
      PROVE  Claimed'
  BY <1>1, <1>3 DEF HasBlob, At, Holds, Holding
<1>4. ASSUME NEW p \in Writers, RenameAgain(p)
      PROVE  Claimed'
  <2> DEFINE j == [job[p] EXCEPT !.tries = @ + 1]
  <2>1. j.pc \in Holding /\ j.tmp = job[p].tmp /\ Does(p, j, dir, mem, disk)
    BY <1>0, <1>4 DEF RenameAgain, At, Jobs, Holding
  <2> QED
    BY <1>1, <2>1
<1>5. ASSUME NEW p \in Writers, Write(p) \/ Sync(p)
      PROVE  Claimed'
  <2>1. CASE Write(p)
    <3> DEFINE k == job[p].at + 1
               j == [job[p] EXCEPT !.at = k, !.pc = IF k = Parts THEN "sync" ELSE "write"]
    <3>1. j.pc \in Holding /\ j.tmp = job[p].tmp
      BY <1>0 DEF Jobs, Holding
    <3>2. dir' = dir /\ job' = [job EXCEPT ![p] = j]
      BY <2>1 DEF Write, Does
    <3> QED
      BY <3>1, <3>2, ClaimedKept
  <2>2. CASE Sync(p)
    <3> DEFINE j == [job[p] EXCEPT !.pc = "rename", !.fd = Nothing]
    <3>1. j.pc \in Holding /\ j.tmp = job[p].tmp
      BY <1>0 DEF Jobs, Holding
    <3>2. dir' = dir /\ job' = [job EXCEPT ![p] = j]
      BY <2>2 DEF Sync, Does
    <3> QED
      BY <3>1, <3>2, ClaimedKept
  <2> QED
    BY <1>5, <2>1, <2>2
<1>6. ASSUME NEW p \in Writers, Create(p)
      PROVE  Claimed'
  <2>0. PICK n \in Temps : \E i :
          /\ dir' = [dir EXCEPT ![n] = i]
          /\ job' = [job EXCEPT ![p] = [job[p] EXCEPT !.pc = "write", !.tmp = n, !.fd = i]]
    BY <1>6 DEF Create, Does
  <2>1. PICK i :
          /\ dir' = [dir EXCEPT ![n] = i]
          /\ job' = [job EXCEPT ![p] = [job[p] EXCEPT !.pc = "write", !.tmp = n, !.fd = i]]
    BY <2>0
  <2>2. job'[p].pc \in Holding /\ job'[p].tmp = n
    BY <1>0, <2>1 DEF Jobs, Holding
  <2>3. ASSUME NEW t \in Temps, dir'[t] # Nothing
        PROVE  \E q \in Writers : job'[q].pc \in Holding /\ job'[q].tmp = t
    <3>1. CASE t = n
      BY <2>2, <3>1
    <3>2. CASE t # n
      <4>1. PICK q \in Writers : Holds(q) /\ job[q].tmp = t
        BY <1>0, <2>1, <2>3, <3>2 DEF Claimed
      <4>2. q # p
        BY <1>6, <4>1 DEF Create, At, Holds, Holding
      <4> QED
        BY <1>0, <2>1, <4>1, <4>2 DEF Holds
    <3> QED
      BY <3>1, <3>2
  <2> QED
    BY <2>3 DEF Claimed, Holds
<1>7. ASSUME NEW p \in Writers, Rename(p)
      PROVE  Claimed'
  <2>1. job[p].tmp \in Temps /\ Final(job[p]) \in Finals
    BY <1>7, RenameFacts
  <2>2. /\ dir' = [dir EXCEPT ![Final(job[p])] = dir[job[p].tmp], ![job[p].tmp] = Nothing]
        /\ job' = [job EXCEPT ![p] = Continue(job[p])]
    BY <1>7 DEF Rename, Does
  <2>3. dir'[job[p].tmp] = Nothing /\ \A n \in Temps \ {job[p].tmp} : dir'[n] = dir[n]
    BY <1>0, <2>1, <2>2
  <2> QED
    BY <2>2, <2>3, ClaimedFreed
<1>8. ASSUME NEW p \in Writers, Cleanup(p)
      PROVE  Claimed'
  <2>1. CASE Holds(p)
    <3>1. job[p].tmp \in Temps
      BY <2>1 DEF TypeInv, JobOK, Holds
    <3>2. dir' = [dir EXCEPT ![job[p].tmp] = Nothing] /\ job' = [job EXCEPT ![p] = Idle]
      BY <1>8, <2>1 DEF Cleanup, Does
    <3>3. dir'[job[p].tmp] = Nothing /\ \A n \in Temps \ {job[p].tmp} : dir'[n] = dir[n]
      BY <1>0, <3>1, <3>2
    <3> QED
      BY <3>2, <3>3, ClaimedFreed
  <2>2. CASE ~Holds(p)
    BY <1>1, <1>8, <2>2 DEF Cleanup
  <2> QED
    BY <2>1, <2>2
<1>9. CASE Commit \/ UNCHANGED vars
  BY <1>9 DEF Commit, vars, Claimed, Holds
<1>10. ~Fault
  BY DEF Fault, Counted
<1> QED
  BY <1>2, <1>3, <1>4, <1>5, <1>6, <1>7, <1>8, <1>9, <1>10
  DEF Next, Snapshot, Restore, Step, GiveUp, Remove, Fail, Kill, ChmodError, Crash

\* When all writers are done and none was killed, no temporary file is left,
\* whichever calls failed and whoever shared a name: each way out of Bytes,
\* CommitBlob and copyToFile but the failing chmod removes what it has made
\* (atomicwrite.go, blobstore.go, restore.go).
THEOREM NothingLeftOver == Spec => []NoLitter
<1>1. Init => TypeInv /\ Counted /\ ClaimedInv
  <2> SUFFICES ASSUME Init PROVE Counted /\ Claimed
    BY InitInv DEF FilesInv, ClaimedInv
  <2>1. Counted
    BY FilesBounds DEF Init, Counted
  <2>2. ASSUME NEW n \in Temps
        PROVE  n \in Names /\ n \notin Seeded
    <3>1. Seeded \subseteq Finals
      BY SeedAssumption, NamesApart DEF Seeded
    <3> QED
      BY <3>1, NamesApart
  <2>3. \A n \in Temps : dir[n] = Nothing
    BY <2>2 DEF Init
  <2> QED
    BY <2>1, <2>3 DEF Claimed
<1>2. TypeInv /\ Counted /\ ClaimedInv /\ [Next]_vars => ClaimedInv'
  <2> SUFFICES ASSUME TypeInv, Counted, ClaimedInv, [Next]_vars, faults' = 0
               PROVE  Claimed'
    BY DEF ClaimedInv
  <2>0. faults \in Nat
    BY FilesBounds DEF Counted
  <2>1. faults' \in {faults, faults + 1}
    BY DEF Next, Snapshot, Restore, Begin, Step, Kill, ChmodError, Commit, Crash, Fault, vars
  <2>2. faults' = faults
    BY <2>0, <2>1
  <2> QED
    BY <2>2, ClaimedStep DEF ClaimedInv
<1>3. ClaimedInv => NoLitter
  BY DEF ClaimedInv, Claimed, NoLitter, At, Holds, Holding
<1>4. TypeOK => Counted
  BY DEF TypeOK, Counted
<1>5. FilesInv => TypeInv
  BY DEF FilesInv
<1> QED
  BY <1>1, <1>2, <1>3, <1>4, <1>5, FilesInvariant, TypeCorrect, PTL DEF Spec
=============================================================================
