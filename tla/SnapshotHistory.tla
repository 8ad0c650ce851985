--------------------------- MODULE SnapshotHistory ---------------------------
(***************************************************************************)
(* What the daemon promises about the history of a watched file, with      *)
(* nothing said of how: the history only ever grows by one snapshot that   *)
(* is newer than all the others and far enough from them, and only ever    *)
(* shrinks to its newest MaxSnapshots members.  There is no way to rewrite *)
(* or reorder what was recorded.  A daemon that has lost sight of the      *)
(* history may record one snapshot too early.  Module Evaluator implements *)
(* it.                                                                     *)
(***************************************************************************)
EXTENDS Integers, FiniteSets

CONSTANTS
  MinInterval,    \* config: min_interval_seconds
  MaxSnapshots    \* config: max_snapshots, 0 for no limit

VARIABLES
  history,  \* the set of recorded snapshots, each with a timestamp ts
  aware     \* whether the daemon knows when the newest was recorded

Init == history = {} /\ aware = TRUE

\* A snapshot is recorded: it is the newest and, as far as the daemon knows of
\* the others, at least MinInterval later.
Record ==
  \E s \in history' :
    /\ s \notin history
    /\ history' = history \cup {s}
    /\ \A t \in history : s.ts > t.ts /\ (aware => s.ts - t.ts >= MinInterval)
    /\ aware' = TRUE

\* The history is over its limit and is cut down to its newest members, those
\* that fewer than MaxSnapshots others are newer than.
Trim ==
  /\ MaxSnapshots > 0
  /\ Cardinality(history) > MaxSnapshots
  /\ history' = {s \in history :
                   Cardinality({t \in history : t.ts > s.ts}) < MaxSnapshots}
  /\ UNCHANGED aware

\* A daemon begins and cannot read the history; it ends, and the next one may.
Lose == aware' = FALSE /\ UNCHANGED history
Find == aware' = TRUE /\ UNCHANGED history

Next == Record \/ Trim \/ Lose \/ Find

Spec == Init /\ [][Next]_<<history, aware>>
=============================================================================
