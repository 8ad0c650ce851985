------------------------------- MODULE Debounce -------------------------------
(***************************************************************************)
(* How file events reach the evaluator: the queue of fsnotify, the select  *)
(* loop of the daemon's main goroutine (internal/watcher/daemon.go) and    *)
(* the goroutine of the debouncer (internal/watcher/debounce.go), which    *)
(* meet on two unbuffered channels, trigger and acked, and one channel     *)
(* with room for one signal, out.                                          *)
(*                                                                         *)
(* Simplifications: time is counted in units of which Interval make the    *)
(* debounce window, and stands still when nobody measures it; an           *)
(* evaluation is its beginning and its end, and sees what the file held    *)
(* at its beginning or later (module Evaluator has the steps between).     *)
(***************************************************************************)
EXTENDS Integers, Sequences

CONSTANTS
  Interval,    \* config: debounce_ms, in units of time
  QueueSize,   \* events the operating system queues before it drops some
  MaxEvents    \* bound: events of the watched directory

ASSUME IntervalAssumption == Interval \in Nat \ {0}
ASSUME QueueAssumption == QueueSize \in Nat \ {0} /\ MaxEvents \in Nat

VARIABLES
  queue,    \* the events on their way to w.Events, "target" or "sibling"
  main,     \* where the main goroutine is
  deb,      \* where the debouncer's goroutine is
  timer,    \* what is left of the armed timer, 0 once it has expired
  out,      \* the number of signals in the channel out
  stop,     \* whether the daemon was asked to stop
  quiet,    \* time since the last trigger, up to Interval
  dirty,    \* the target changed since the last evaluation began
  lost,     \* an event of the target was dropped
  events, triggers, evals   \* how many there were

vars == <<queue, main, deb, timer, out, stop, quiet, dirty, lost,
          events, triggers, evals>>

NoTimer == -1   \* the nil channel

MainPcs == {"select", "trigger", "ack", "eval", "done"}
DebPcs == {"select", "ack", "fire", "done"}

Init ==
  /\ queue = <<>>
  /\ main = "select" /\ deb = "select"
  /\ timer = NoTimer /\ out = 0
  /\ stop = FALSE
  /\ quiet = Interval
  /\ dirty = FALSE /\ lost = FALSE
  /\ events = 0 /\ triggers = 0 /\ evals = 0

-----------------------------------------------------------------------------
(* The surroundings.                                                       *)

\* Something happens to a file of the target's directory.  The watcher is told
\* of it unless its queue is full; then the event is dropped, and the error
\* that says so is read from w.Errors and ignored.
FileEvent(kind) ==
  /\ main # "done"
  /\ events < MaxEvents
  /\ events' = events + 1
  /\ queue' = IF Len(queue) < QueueSize THEN Append(queue, kind) ELSE queue
  /\ dirty' = (dirty \/ kind = "target")
  /\ lost' = (lost \/ (kind = "target" /\ Len(queue) >= QueueSize))
  /\ UNCHANGED <<main, deb, timer, out, stop, quiet, triggers, evals>>

\* An IPC stop, an interrupt or a failing listener ends the main loop.
AskStop ==
  /\ ~stop
  /\ stop' = TRUE
  /\ UNCHANGED <<queue, main, deb, timer, out, quiet, dirty, lost, events,
                 triggers, evals>>

Tick ==
  /\ timer > 0 \/ quiet < Interval
  /\ timer' = IF timer > 0 THEN timer - 1 ELSE timer
  /\ quiet' = IF quiet < Interval THEN quiet + 1 ELSE quiet
  /\ UNCHANGED <<queue, main, deb, out, stop, dirty, lost, events, triggers, evals>>

-----------------------------------------------------------------------------
(* The main goroutine, and its meetings with the debouncer.                *)

\* An event of another file is skipped; one of the target calls Trigger.
ReadEvent ==
  /\ main = "select"
  /\ queue # <<>>
  /\ queue' = Tail(queue)
  /\ main' = IF Head(queue) = "target" THEN "trigger" ELSE "select"
  /\ UNCHANGED <<deb, timer, out, stop, quiet, dirty, lost, events, triggers, evals>>

\* Variant: a timer that is armed already is left to run.
Trigger_Once ==
  /\ main = "trigger" /\ deb = "select"
  /\ main' = "ack" /\ deb' = "ack"
  /\ timer' = IF timer = NoTimer THEN Interval ELSE timer
  /\ quiet' = 0
  /\ triggers' = triggers + 1
  /\ UNCHANGED <<queue, out, stop, dirty, lost, events, evals>>

\* The channel trigger: the debouncer arms a new timer and forgets the old one.
Trigger ==
  /\ main = "trigger" /\ deb = "select"
  /\ main' = "ack" /\ deb' = "ack"
  /\ timer' = Interval
  /\ quiet' = 0
  /\ triggers' = triggers + 1
  /\ UNCHANGED <<queue, out, stop, dirty, lost, events, evals>>

\* The channel acked.
Ack ==
  /\ main = "ack" /\ deb = "ack"
  /\ main' = "select" /\ deb' = "select"
  /\ UNCHANGED <<queue, timer, out, stop, quiet, dirty, lost, events, triggers, evals>>

BeginEval ==
  /\ main = "select"
  /\ out = 1
  /\ out' = 0
  /\ main' = "eval"
  /\ dirty' = FALSE
  /\ evals' = evals + 1
  /\ UNCHANGED <<queue, deb, timer, stop, quiet, lost, events, triggers>>

\* Variant: the events that piled up during an evaluation are taken for its own.
EndEval_Drain ==
  /\ main = "eval"
  /\ main' = "select"
  /\ queue' = <<>>
  /\ UNCHANGED <<deb, timer, out, stop, quiet, dirty, lost, events, triggers, evals>>

EndEval ==
  /\ main = "eval"
  /\ main' = "select"
  /\ UNCHANGED <<queue, deb, timer, out, stop, quiet, dirty, lost, events,
                 triggers, evals>>

\* Run returns; its deferred calls close the watcher and the debouncer.
Quit ==
  /\ main = "select"
  /\ stop
  /\ main' = "done"
  /\ UNCHANGED <<queue, deb, timer, out, stop, quiet, dirty, lost, events,
                 triggers, evals>>

-----------------------------------------------------------------------------
(* The debouncer's goroutine.                                              *)

\* Variant: a ticker instead of a timer.
Expire_Ticker ==
  /\ deb = "select"
  /\ timer = 0
  /\ timer' = Interval
  /\ deb' = "fire"
  /\ UNCHANGED <<queue, main, out, stop, quiet, dirty, lost, events, triggers, evals>>

\* The timer's channel is read and forgotten.
Expire ==
  /\ deb = "select"
  /\ timer = 0
  /\ timer' = NoTimer
  /\ deb' = "fire"
  /\ UNCHANGED <<queue, main, out, stop, quiet, dirty, lost, events, triggers, evals>>

\* The signal is sent if there is room for it; if not, one is waiting already.
Fire ==
  /\ deb = "fire"
  /\ deb' = "select"
  /\ out' = 1
  /\ UNCHANGED <<queue, main, timer, stop, quiet, dirty, lost, events, triggers, evals>>

\* Variant: nobody stops the debouncer.
Return_Never == deb = "select" /\ main = "done" /\ UNCHANGED vars

Return ==
  /\ deb = "select"
  /\ main = "done"
  /\ deb' = "done"
  /\ UNCHANGED <<queue, main, timer, out, stop, quiet, dirty, lost, events,
                 triggers, evals>>

-----------------------------------------------------------------------------
System ==
  \/ Tick
  \/ ReadEvent \/ Trigger \/ Ack \/ BeginEval \/ EndEval \/ Quit
  \/ Expire \/ Fire \/ Return

\* Nothing is left to do; any other state without a successor is a deadlock.
Rest ==
  /\ \/ main = "done" /\ deb = "done"
     \/ main = "select" /\ queue = <<>> /\ deb = "select" /\ timer = NoTimer /\ out = 0
  /\ UNCHANGED vars

Next == System \/ (\E kind \in {"target", "sibling"} : FileEvent(kind)) \/ AskStop \/ Rest

Spec == Init /\ [][Next]_vars

\* Time passes and goroutines that can run do run.  As there are finitely many
\* events, Go's choice among several ready cases of a select need not be fair.
LiveSpec == Spec /\ WF_vars(System)

-----------------------------------------------------------------------------
(* Properties.                                                             *)

\* Every variable holds a value of its kind; in particular, out holds at most
\* the one signal it has room for.
TypeOK ==
  /\ queue \in Seq({"target", "sibling"})
  /\ main \in MainPcs /\ deb \in DebPcs
  /\ timer \in {NoTimer} \cup 0 .. Interval
  /\ out \in {0, 1}
  /\ quiet \in 0 .. Interval
  /\ stop \in BOOLEAN /\ dirty \in BOOLEAN /\ lost \in BOOLEAN
  /\ events \in Nat /\ triggers \in Nat /\ evals \in Nat

InQueue(kind) == \E i \in 1 .. Len(queue) : queue[i] = kind

\* A change of the target is never forgotten on its way: until an evaluation
\* begins after it, its event is queued, being handed over, waiting for the
\* timer, or signalled.  Neither re-arming the timer, nor the signal that finds
\* the channel full, nor one that arrives during an evaluation loses it.
NoLostEvent ==
  dirty /\ ~lost /\ main # "done" =>
    \/ InQueue("target")
    \/ main \in {"trigger", "ack"}
    \/ timer # NoTimer
    \/ deb = "fire"
    \/ out = 1

\* The two goroutines wait for the acknowledgement together, with the timer
\* armed.
Handshake ==
  /\ main = "ack" <=> deb = "ack"
  /\ deb = "ack" => timer # NoTimer
  /\ deb = "done" => main = "done"

Count(b) == IF b THEN 1 ELSE 0

\* Bursts only collapse: each evaluation, begun or still to come, has a trigger
\* of its own, and a trigger never causes two.
OneEvalPerTrigger ==
  evals + out + Count(deb = "fire") + Count(timer # NoTimer) <= triggers

\* Once events stop, what the target holds is looked at, or the daemon stops.
ChangeEvaluated == dirty ~> (~dirty \/ lost \/ main = "done")

\* A daemon that is asked to stop ends both goroutines, whatever they were
\* doing: the debouncer is not closed under a main loop that waits for it.
StopEnds == stop ~> (main = "done" /\ deb = "done")

\* A signal is raised only when no event was handed over for a full interval
\* (spec.md 5.2: "Any subsequent events reset this timer"), and then for good: it
\* stays in the channel when later events arm the timer again, so an evaluation
\* may begin inside the next window.
FireWhenQuiet == deb = "fire" \/ timer = 0 => quiet = Interval

\* Why: an armed timer and the time since the last trigger add up to the
\* interval, and no trigger is taken between the timer's end and the signal.
TimerInv ==
  /\ timer # NoTimer => timer + quiet = Interval
  /\ deb = "fire" => quiet = Interval
=============================================================================
