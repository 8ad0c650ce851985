------------------------------- MODULE Manifest -------------------------------
(***************************************************************************)
(* The manifest as the code keeps it (internal/store/manifest.go and       *)
(* gc.go): a slice of entries, in the order they were appended until a     *)
(* collection leaves it sorted, newest first.  Module Evaluator works with *)
(* the set of entries and distinct timestamps instead; here timestamps may *)
(* be equal or run backwards, as they do when the system clock is coarse   *)
(* or is set, and the two views are compared.                              *)
(*                                                                         *)
(* Simplifications: an entry is its timestamp and its hash; the manifest   *)
(* on disk changes whole (module Evaluator has the steps of a collection); *)
(* files of the data directory that are no blobs, which a collection skips *)
(* (isHexHash), are left out.                                              *)
(***************************************************************************)
EXTENDS Integers, FiniteSets, Sequences, SequencesExt

CONSTANTS
  Hashes,        \* the names of blobs
  Times,         \* the readings of the clock
  MaxSnapshots,  \* config: max_snapshots, 0 disables trimming
  MaxEntries     \* bound: the length of the manifest

ASSUME TimeAssumption == Times \subseteq Nat
ASSUME LimitAssumption == MaxSnapshots \in Nat /\ MaxEntries \in Nat

VARIABLES
  snaps,  \* Manifest.Snapshots
  data    \* the blobs of the data directory

vars == <<snaps, data>>

Snapshot == [ts : Times, hash : Hashes]

-----------------------------------------------------------------------------
(* manifest.go.                                                            *)

After(s, t) == s.ts > t.ts

\* Variant: of equal timestamps the last wins.
Newest_Last(m) == FoldLeft(LAMBDA n, s : IF After(n, s) THEN n ELSE s, Head(m), Tail(m))

\* The first entry that no other is after.
Newest(m) == FoldLeft(LAMBDA n, s : IF After(s, n) THEN s ELSE n, Head(m), Tail(m))

HashSet(m) == {m[i].hash : i \in DOMAIN m}

\* Variant: an unstable sort.
Insert_Unstable(m, s) ==
  LET i == SelectInSeq(m, LAMBDA t : ~After(t, s))
  IN IF i = 0 THEN Append(m, s) ELSE InsertAt(m, i, s)

\* sort.SliceStable: each entry is inserted behind those it is not after.
Insert(m, s) ==
  LET i == SelectInSeq(m, LAMBDA t : After(s, t))
  IN IF i = 0 THEN Append(m, s) ELSE InsertAt(m, i, s)

SortByTimestampDesc(m) == FoldLeft(Insert, <<>>, m)

-----------------------------------------------------------------------------
(* gc.go.                                                                  *)

OverLimit(m) == MaxSnapshots > 0 /\ Len(m) > MaxSnapshots

\* Variant: one entry too few is kept.
Trimmed_Short(m) ==
  IF OverLimit(m) THEN SubSeq(SortByTimestampDesc(m), 1, MaxSnapshots - 1) ELSE m

Trimmed(m) ==
  IF OverLimit(m) THEN SubSeq(SortByTimestampDesc(m), 1, MaxSnapshots) ELSE m

\* Variant: what the removed entries refer to goes, whoever else refers to it.
Orphans_Shared(m) ==
  data \cap {s.hash : s \in ToSet(m) \ ToSet(Trimmed(m))}

Orphans(m) == data \ HashSet(Trimmed(m))

-----------------------------------------------------------------------------
Init == snaps = <<>> /\ data = {}

\* A snapshot: the blob first, unless it is there, then the entry.
Commit(h, t) ==
  /\ Len(snaps) < MaxEntries
  /\ data' = data \cup {h}
  /\ snaps' = Append(snaps, [ts |-> t, hash |-> h])

\* The entry cannot be saved: the blob is an orphan.
CommitUnsaved(h) ==
  /\ data' = data \cup {h}
  /\ UNCHANGED snaps

Prune ==
  /\ data' = data \ Orphans(snaps)
  /\ snaps' = Trimmed(snaps)

\* Prune stops at a blob that it cannot remove, or its caller cannot save what
\* is left, or either is killed: some or all orphans are gone, the entries stay.
PruneStops(gone) ==
  /\ data' = data \ gone
  /\ UNCHANGED snaps

Next ==
  \/ \E h \in Hashes, t \in Times : Commit(h, t)
  \/ \E h \in Hashes : CommitUnsaved(h)
  \/ Prune
  \/ \E gone \in SUBSET Orphans(snaps) : PruneStops(gone)

Spec == Init /\ [][Next]_vars

-----------------------------------------------------------------------------
(* Properties.                                                             *)

\* Where the i-th entry belongs: behind all that are later, and behind those
\* of the same time that were before it.
Rank(m, i) ==
  1 + Cardinality({j \in DOMAIN m : After(m[j], m[i]) \/ (j < i /\ ~After(m[i], m[j]))})

\* Sorting permutes, orders and is stable: each entry comes to its rank.  The
\* list and status commands and the picker show this order, and the cut of a
\* collection relies on it.
SortsByRank ==
  LET sorted == SortByTimestampDesc(snaps)
  IN /\ Len(sorted) = Len(snaps)
     /\ \A i \in DOMAIN snaps : sorted[Rank(snaps, i)] = snaps[i]

\* A collection never changes which entry is newest, also when several have
\* the latest timestamp and although it reorders the manifest: a daemon that
\* restarts after it reads the baseline that it read before.
BaselineStable ==
  snaps # <<>> => Newest(Trimmed(snaps)) = Newest(snaps)

\* The entries the next collection would keep have their blobs, also after
\* collections that stopped half-way and with a clock that was set back: no
\* later commit brings an entry back among those kept whose blob is gone.
KeptRestorable == HashSet(Trimmed(snaps)) \subseteq data

Newer(s, S) == {t \in S : t.ts > s.ts}
DistinctTimes == \A i, j \in DOMAIN snaps : snaps[i].ts = snaps[j].ts => i = j

\* As long as timestamps differ the entries kept, and the newest, are those
\* that module Evaluator computes from the set of entries.
SetView ==
  DistinctTimes =>
    LET S == ToSet(snaps)
    IN /\ ToSet(Trimmed(snaps))
            = {s \in S : MaxSnapshots > 0 => Cardinality(Newer(s, S)) < MaxSnapshots}
       /\ snaps # <<>> => {Newest(snaps)} = {s \in S : Newer(s, S) = {}}
=============================================================================
