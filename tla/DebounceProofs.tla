---------------------------- MODULE DebounceProofs ----------------------------
(***************************************************************************)
(* Theorems about module Debounce, for every interval, queue and number of *)
(* events.                                                                 *)
(***************************************************************************)
EXTENDS Debounce, SequenceTheorems, TLAPS

\* The invariants hold when Run has created the watcher and the debouncer.
LEMMA InitInv == Init => TypeOK /\ Handshake /\ NoLostEvent /\ OneEvalPerTrigger
<1> SUFFICES ASSUME Init PROVE TypeOK /\ Handshake /\ NoLostEvent /\ OneEvalPerTrigger
  OBVIOUS
<1>1. queue \in Seq({"target", "sibling"})
  BY DEF Init
<1>2. main \in MainPcs /\ deb \in DebPcs
  BY DEF Init, MainPcs, DebPcs
<1>3. timer \in {NoTimer} \cup 0 .. Interval /\ out \in {0, 1} /\ quiet \in 0 .. Interval
  BY IntervalAssumption DEF Init
<1>4. stop \in BOOLEAN /\ dirty \in BOOLEAN /\ lost \in BOOLEAN
  BY DEF Init
<1>5. events \in Nat /\ triggers \in Nat /\ evals \in Nat
  BY DEF Init
<1>6. TypeOK
  BY <1>1, <1>2, <1>3, <1>4, <1>5 DEF TypeOK
<1>7. Handshake
  BY DEF Init, Handshake
<1>8. NoLostEvent
  BY DEF Init, NoLostEvent
<1>9. OneEvalPerTrigger
  BY DEF Init, OneEvalPerTrigger, Count, NoTimer
<1> QED
  BY <1>6, <1>7, <1>8, <1>9

\* Each step keeps the variables within their kinds.
LEMMA TypeStep == TypeOK /\ [Next]_vars => TypeOK'
<1> SUFFICES ASSUME TypeOK, [Next]_vars PROVE TypeOK'
  OBVIOUS
<1> USE IntervalAssumption DEF TypeOK, MainPcs, DebPcs, NoTimer
<1>1. ASSUME NEW kind \in {"target", "sibling"}, FileEvent(kind)
      PROVE  TypeOK'
  BY <1>1 DEF FileEvent
<1>2. CASE AskStop
  BY <1>2 DEF AskStop
<1>3. CASE Tick
  BY <1>3 DEF Tick
<1>4. CASE ReadEvent
  BY <1>4 DEF ReadEvent
<1>5. CASE Trigger
  BY <1>5 DEF Trigger
<1>6. CASE Ack
  BY <1>6 DEF Ack
<1>7. CASE BeginEval
  <2>1. dirty' \in BOOLEAN
    BY <1>7 DEF BeginEval
  <2>2. stop' \in BOOLEAN /\ lost' \in BOOLEAN
    BY <1>7 DEF BeginEval
  <2>3. main' \in MainPcs /\ out' \in {0, 1} /\ evals' \in Nat
    BY <1>7 DEF BeginEval
  <2>4. /\ queue' \in Seq({"target", "sibling"}) /\ deb' \in DebPcs
        /\ timer' \in {NoTimer} \cup 0 .. Interval /\ quiet' \in 0 .. Interval
        /\ events' \in Nat /\ triggers' \in Nat
    BY <1>7 DEF BeginEval
  <2> QED
    BY <2>1, <2>2, <2>3, <2>4
<1>8. CASE EndEval
  BY <1>8 DEF EndEval
<1>9. CASE Quit
  BY <1>9 DEF Quit
<1>10. CASE Expire
  BY <1>10 DEF Expire
<1>11. CASE Fire
  BY <1>11 DEF Fire
<1>12. CASE Return
  BY <1>12 DEF Return
<1>13. CASE Rest
  BY <1>13 DEF Rest, vars
<1>14. CASE UNCHANGED vars
  BY <1>14 DEF vars
<1> QED
  BY <1>1, <1>2, <1>3, <1>4, <1>5, <1>6, <1>7, <1>8, <1>9, <1>10, <1>11, <1>12, <1>13, <1>14 DEF Next, System

\* The type invariant holds in every reachable state.
THEOREM TypeCorrect == Spec => []TypeOK
  BY InitInv, TypeStep, PTL DEF Spec

\* Trigger's two channel operations keep the two goroutines in step.
LEMMA HandshakeStep == TypeOK /\ Handshake /\ [Next]_vars => Handshake'
<1> SUFFICES ASSUME TypeOK, Handshake, [Next]_vars PROVE Handshake'
  OBVIOUS
<1> USE IntervalAssumption DEF TypeOK, Handshake, MainPcs, DebPcs, NoTimer
<1>1. ASSUME NEW kind \in {"target", "sibling"}, FileEvent(kind)
      PROVE  Handshake'
  BY <1>1 DEF FileEvent
<1>2. CASE AskStop
  BY <1>2 DEF AskStop
<1>3. CASE Tick
  BY <1>3 DEF Tick
<1>4. CASE ReadEvent
  BY <1>4 DEF ReadEvent
<1>5. CASE Trigger
  BY <1>5 DEF Trigger
<1>6. CASE Ack
  BY <1>6 DEF Ack
<1>7. CASE BeginEval
  BY <1>7 DEF BeginEval
<1>8. CASE EndEval
  BY <1>8 DEF EndEval
<1>9. CASE Quit
  BY <1>9 DEF Quit
<1>10. CASE Expire
  BY <1>10 DEF Expire
<1>11. CASE Fire
  BY <1>11 DEF Fire
<1>12. CASE Return
  BY <1>12 DEF Return
<1>13. CASE Rest
  BY <1>13 DEF Rest, vars
<1>14. CASE UNCHANGED vars
  BY <1>14 DEF vars
<1> QED
  BY <1>1, <1>2, <1>3, <1>4, <1>5, <1>6, <1>7, <1>8, <1>9, <1>10, <1>11, <1>12, <1>13, <1>14 DEF Next, System

\* An event that is appended to the queue is in it, and so are all others; one
\* that is taken from the front is the only one that leaves.
LEMMA QueueAppend ==
  ASSUME NEW q \in Seq({"target", "sibling"}), NEW k \in {"target", "sibling"}
  PROVE  /\ \E i \in 1 .. Len(Append(q, k)) : Append(q, k)[i] = k
         /\ \A i \in 1 .. Len(q) : i \in 1 .. Len(Append(q, k)) /\ Append(q, k)[i] = q[i]
<1>1. Len(Append(q, k)) = Len(q) + 1 /\ Append(q, k)[Len(q) + 1] = k
  OBVIOUS
<1>2. Len(q) \in Nat
  OBVIOUS
<1>3. Len(q) + 1 \in 1 .. Len(Append(q, k))
  BY <1>1, <1>2
<1>4. \A i \in 1 .. Len(q) : i \in 1 .. Len(Append(q, k)) /\ Append(q, k)[i] = q[i]
  BY <1>1, <1>2
<1> QED
  BY <1>1, <1>3, <1>4

\* Taking another file's event from the queue leaves the target's in it.
LEMMA QueueTail ==
  ASSUME NEW q \in Seq({"target", "sibling"}), q # <<>>, Head(q) # "target",
         \E i \in 1 .. Len(q) : q[i] = "target"
  PROVE  \E i \in 1 .. Len(Tail(q)) : Tail(q)[i] = "target"
<1>1. PICK i \in 1 .. Len(q) : q[i] = "target"
  OBVIOUS
<1>2. i # 1 /\ Len(q) \in Nat
  BY <1>1
<1>3. Len(Tail(q)) = Len(q) - 1 /\ i - 1 \in 1 .. Len(Tail(q))
  BY <1>2
<1>4. Tail(q)[i - 1] = q[i]
  BY <1>2, <1>3
<1> QED
  BY <1>1, <1>3, <1>4

\* No step forgets a change that no evaluation has looked at.
LEMMA NoLostEventStep ==
  TypeOK /\ Handshake /\ NoLostEvent /\ [Next]_vars => NoLostEvent'
<1> SUFFICES ASSUME TypeOK, Handshake, NoLostEvent, [Next]_vars PROVE NoLostEvent'
  OBVIOUS
<1> USE IntervalAssumption DEF TypeOK, Handshake, NoLostEvent, InQueue, MainPcs, DebPcs, NoTimer
<1>1. ASSUME NEW kind \in {"target", "sibling"}, FileEvent(kind)
      PROVE  NoLostEvent'
  <2>1. /\ lost' = (lost \/ (kind = "target" /\ Len(queue) >= QueueSize))
        /\ dirty' = (dirty \/ kind = "target")
        /\ queue' = IF Len(queue) < QueueSize THEN Append(queue, kind) ELSE queue
        /\ UNCHANGED <<main, deb, timer, out>>
    BY <1>1 DEF FileEvent
  <2>2. InQueue("target") => InQueue("target")'
    BY <2>1, QueueAppend
  <2>3. kind = "target" /\ ~lost' => InQueue("target")'
    <3>1. kind = "target" /\ ~lost' => ~(Len(queue) >= QueueSize)
      BY <2>1, Zenon
    <3>2. ~(Len(queue) >= QueueSize) => Len(queue) < QueueSize
      BY QueueAssumption, LenProperties
    <3>3. Len(queue) < QueueSize => queue' = Append(queue, kind)
      BY <2>1
    <3>4. kind = "target" /\ queue' = Append(queue, kind) => InQueue("target")'
      BY QueueAppend
    <3> QED
      BY <3>1, <3>2, <3>3, <3>4
  <2>4. CASE kind = "target"
    BY <2>3, <2>4 DEF NoLostEvent
  <2>5. CASE kind # "target"
    BY <2>1, <2>2, <2>5 DEF NoLostEvent
  <2> QED
    BY <2>4, <2>5
<1>2. CASE AskStop
  BY <1>2 DEF AskStop
<1>3. CASE Tick
  BY <1>3 DEF Tick
<1>4. CASE ReadEvent
  <2>1. /\ main = "select" /\ queue # <<>> /\ queue' = Tail(queue)
        /\ main' = IF Head(queue) = "target" THEN "trigger" ELSE "select"
        /\ UNCHANGED <<deb, timer, out, dirty, lost>>
    BY <1>4 DEF ReadEvent
  <2>2. CASE Head(queue) = "target"
    BY <2>1, <2>2 DEF NoLostEvent
  <2>3. CASE Head(queue) # "target"
    <3>1. InQueue("target") => InQueue("target")'
      BY <2>1, <2>3, QueueTail
    <3> QED
      BY <2>1, <3>1 DEF NoLostEvent
  <2> QED
    BY <2>2, <2>3
<1>5. CASE Trigger
  BY <1>5 DEF Trigger
<1>6. CASE Ack
  BY <1>6 DEF Ack
<1>7. CASE BeginEval
  BY <1>7 DEF BeginEval
<1>8. CASE EndEval
  BY <1>8 DEF EndEval
<1>9. CASE Quit
  BY <1>9 DEF Quit
<1>10. CASE Expire
  BY <1>10 DEF Expire
<1>11. CASE Fire
  BY <1>11 DEF Fire
<1>12. CASE Return
  BY <1>12 DEF Return
<1>13. CASE Rest
  BY <1>13 DEF Rest, vars
<1>14. CASE UNCHANGED vars
  BY <1>14 DEF vars
<1> QED
  BY <1>1, <1>2, <1>3, <1>4, <1>5, <1>6, <1>7, <1>8, <1>9, <1>10, <1>11, <1>12, <1>13, <1>14 DEF Next, System

\* A change of the target whose event was not dropped by the operating system
\* is queued, being handed over, timed or signalled until an evaluation begins.
THEOREM NoEventForgotten == Spec => []NoLostEvent
<1>1. TypeOK /\ Handshake /\ NoLostEvent /\ [Next]_vars => Handshake' /\ NoLostEvent'
  BY HandshakeStep, NoLostEventStep
<1> QED
  BY InitInv, TypeCorrect, <1>1, PTL DEF Spec

\* The triggers pay for the evaluations, those under way included.
LEMMA CountStep == TypeOK /\ Handshake /\ OneEvalPerTrigger /\ [Next]_vars => OneEvalPerTrigger'
<1> SUFFICES ASSUME TypeOK, Handshake, OneEvalPerTrigger, [Next]_vars PROVE OneEvalPerTrigger'
  OBVIOUS
<1> USE IntervalAssumption DEF TypeOK, Handshake, OneEvalPerTrigger, Count, MainPcs, DebPcs, NoTimer
<1>1. ASSUME NEW kind \in {"target", "sibling"}, FileEvent(kind)
      PROVE  OneEvalPerTrigger'
  BY <1>1 DEF FileEvent
<1>2. CASE AskStop
  BY <1>2 DEF AskStop
<1>3. CASE Tick
  BY <1>3 DEF Tick
<1>4. CASE ReadEvent
  BY <1>4 DEF ReadEvent
<1>5. CASE Trigger
  BY <1>5 DEF Trigger
<1>6. CASE Ack
  BY <1>6 DEF Ack
<1>7. CASE BeginEval
  BY <1>7 DEF BeginEval
<1>8. CASE EndEval
  BY <1>8 DEF EndEval
<1>9. CASE Quit
  BY <1>9 DEF Quit
<1>10. CASE Expire
  BY <1>10 DEF Expire
<1>11. CASE Fire
  BY <1>11 DEF Fire
<1>12. CASE Return
  BY <1>12 DEF Return
<1>13. CASE Rest
  BY <1>13 DEF Rest, vars
<1>14. CASE UNCHANGED vars
  BY <1>14 DEF vars
<1> QED
  BY <1>1, <1>2, <1>3, <1>4, <1>5, <1>6, <1>7, <1>8, <1>9, <1>10, <1>11, <1>12, <1>13, <1>14 DEF Next, System

\* However events, expiries and evaluations interleave, there are never more
\* evaluations than triggers.
THEOREM EvaluationsAreTriggered == Spec => []OneEvalPerTrigger
<1>1. TypeOK /\ Handshake /\ OneEvalPerTrigger /\ [Next]_vars
        => Handshake' /\ OneEvalPerTrigger'
  BY HandshakeStep, CountStep
<1> QED
  BY InitInv, TypeCorrect, <1>1, PTL DEF Spec
\* The timer measures the time since the last trigger.
LEMMA TimerStep == TypeOK /\ TimerInv /\ [Next]_vars => TimerInv'
<1> SUFFICES ASSUME TypeOK, TimerInv, [Next]_vars PROVE TimerInv'
  OBVIOUS
<1> USE IntervalAssumption DEF TypeOK, TimerInv, DebPcs, NoTimer
<1>1. ASSUME NEW kind \in {"target", "sibling"}, FileEvent(kind)
      PROVE  TimerInv'
  BY <1>1 DEF FileEvent
<1>2. CASE AskStop
  BY <1>2 DEF AskStop
<1>3. CASE Tick
  BY <1>3 DEF Tick
<1>4. CASE ReadEvent
  BY <1>4 DEF ReadEvent
<1>5. CASE Trigger
  BY <1>5 DEF Trigger
<1>6. CASE Ack
  BY <1>6 DEF Ack
<1>7. CASE BeginEval
  BY <1>7 DEF BeginEval
<1>8. CASE EndEval
  BY <1>8 DEF EndEval
<1>9. CASE Quit
  BY <1>9 DEF Quit
<1>10. CASE Expire
  BY <1>10 DEF Expire
<1>11. CASE Fire
  BY <1>11 DEF Fire
<1>12. CASE Return
  BY <1>12 DEF Return
<1>13. CASE Rest
  BY <1>13 DEF Rest, vars
<1>14. CASE UNCHANGED vars
  BY <1>14 DEF vars
<1> QED
  BY <1>1, <1>2, <1>3, <1>4, <1>5, <1>6, <1>7, <1>8, <1>9, <1>10, <1>11, <1>12, <1>13, <1>14 DEF Next, System

\* Each event that is handed over postpones the signal by a full interval.
THEOREM SignalledWhenQuiet == Spec => []FireWhenQuiet
<1>1. Init => TimerInv
  BY DEF Init, TimerInv
<1>2. TypeOK /\ TimerInv => FireWhenQuiet
  BY IntervalAssumption DEF TypeOK, TimerInv, FireWhenQuiet, NoTimer
<1> QED
  BY TypeCorrect, TimerStep, <1>1, <1>2, PTL DEF Spec
=============================================================================
