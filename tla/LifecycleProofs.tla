--------------------------- MODULE LifecycleProofs ---------------------------
(***************************************************************************)
(* Theorems about module Lifecycle, for every set of clients and every     *)
(* number of commands and faults.                                          *)
(*                                                                         *)
(* The argument for InOrder: as long as no command is begun beside another *)
(* or beside a daemon on its way in or out, and none takes a daemon that   *)
(* lives for none, a watch finds the daemon that is there through the      *)
(* socket, and so starts one only when none is alive; and a stop removes   *)
(* files only when none serves.                                            *)
(*                                                                         *)
(* The argument for Truthful: while a watch waits for the daemon it has    *)
(* started, that one is on its way or serves, unless there was a fault;    *)
(* and only a daemon that is there answers a ping.                         *)
(***************************************************************************)
EXTENDS Lifecycle, TLAPS

CmdRecords ==
  [pc : CmdPcs, num : 0 .. MaxCommands, conn : 0 .. MaxCommands,
   said : {"nothing", "already", "started", "failed", "not running", "stopped", "error"}]

\* What each variable holds; the listener of a daemon that serves is open.
KindInv ==
  /\ sock \in {NoOne} \cup Daemons /\ json \in {NoOne} \cup Daemons
  /\ pc \in [Daemons -> DaemonPcs]
  /\ open \subseteq Daemons /\ (\A d \in open : Alive(d))
  /\ cancel \subseteq asked /\ asked \subseteq Daemons
  /\ \A d \in Daemons : pc[d] = "save" \/ Serving(d) => d \in open
  /\ cmd \in [Clients -> CmdRecords]
  /\ commands \in 0 .. MaxCommands /\ faults \in 0 .. MaxFaults
  /\ disorder \in BOOLEAN

Late == {"serve", "unstate", "unsock", "dead"}
Unspawned == {"wping", "wunstate", "wunsock", "spawn"}

\* A daemon is born once, by the command of its number; it listens, and is told
\* to stop, after that.
BirthInv ==
  /\ \A d \in Daemons : d > commands => pc[d] = "unborn"
  /\ \A d \in open : pc[d] \in {"save"} \cup Late
  /\ \A d \in asked : pc[d] \in {"save"} \cup Late
  /\ \A d \in cancel : pc[d] \in Late
  /\ \A c \in Clients :
       /\ cmd[c].pc \in Unspawned =>
            cmd[c].num \in Daemons /\ cmd[c].num <= commands /\ pc[cmd[c].num] = "unborn"
       /\ At(c, "call") => cmd[c].conn \in asked
  /\ \A c, e \in Clients :
       cmd[c].pc \in Unspawned /\ cmd[e].pc \in Unspawned /\ cmd[c].num = cmd[e].num => c = e

Starting == {"boot", "listen", "save"}
WatchAlone == {"wunstate", "wunsock", "spawn"}
StopPcs == {"load", "cleanup", "dial", "call", "sunstate"}

OneCommand == \A c, e \in Clients : ~At(c, "idle") /\ ~At(e, "idle") => c = e

OneAlive == \A d, e \in Daemons : Alive(d) /\ Alive(e) => d = e

\* The socket is as daemon d needs it.
Found(d) == /\ pc[d] = "listen" => sock = NoOne
            /\ pc[d] = "save" => sock = d
            /\ Serving(d) => sock = d /\ json = d

\* A watch that pings reaches d if it is alive; past the ping none is.  A stop
\* meets no daemon that is starting, and where it removes files none that serves.
Fits(c, d) ==
  /\ At(c, "wping") /\ Alive(d) =>
       pc[d] \notin Starting /\ d \notin asked /\ d \in open /\ sock = d
  /\ cmd[c].pc \in WatchAlone => ~Alive(d)
  /\ cmd[c].pc \in StopPcs => pc[d] \notin Starting
  /\ cmd[c].pc \in {"cleanup", "sunstate"} => ~Serving(d)

SoloInv ==
  /\ OneCommand /\ OneAlive
  /\ \A d \in Daemons : Found(d)
  /\ \A c \in Clients, d \in Daemons : Fits(c, d)

OrderInv == KindInv /\ BirthInv /\ (~disorder => SoloInv)

-----------------------------------------------------------------------------
(* The steps.                                                              *)

\* A step of a daemon, and of a command that has begun.
DaemonStep(d) == DaemonRun(d) \/ SaveStateError(d) \/ Interrupt(d) \/ Crash(d)
CommandStep(c) == CommandRun(c) \/ CommandFault(c)

\* c is at another point, the other commands are where they were.
Moved(c, to) ==
  /\ cmd' \in [Clients -> CmdRecords] /\ cmd'[c].pc = to
  /\ cmd'[c].num = cmd[c].num
  /\ \A e \in Clients \ {c} : cmd'[e] = cmd[e]

\* What a command is told to do it does, and no other.
LEMMA MovedFacts ==
  ASSUME cmd \in [Clients -> CmdRecords], NEW c \in Clients
  PROVE  /\ \A to \in CmdPcs : To(c, to) => Moved(c, to)
         /\ \A said \in {"already", "failed", "not running", "stopped", "error"} :
              Say(c, said) => Moved(c, "idle")
         /\ \A d \in Daemons :
              /\ cmd' = [cmd EXCEPT ![c].pc = "idle", ![c].conn = d, ![c].said = "started"]
                   => Moved(c, "idle")
              /\ cmd' = [cmd EXCEPT ![c].pc = "call", ![c].conn = d] =>
                   Moved(c, "call") /\ cmd'[c].conn = d
<1>0. "idle" \in CmdPcs /\ "call" \in CmdPcs
  BY DEF CmdPcs
<1>1. \A r \in CmdRecords :
        cmd' = [cmd EXCEPT ![c] = r] /\ r.num = cmd[c].num => Moved(c, r.pc) /\ cmd'[c] = r
  BY DEF Moved
<1>2. cmd[c] \in CmdRecords
  OBVIOUS
<1>3. ASSUME NEW to \in CmdPcs, To(c, to)
      PROVE  Moved(c, to)
  <2> DEFINE r == [cmd[c] EXCEPT !.pc = to]
  <2>1. r \in CmdRecords /\ r.pc = to /\ r.num = cmd[c].num
    BY <1>2 DEF CmdRecords
  <2>2. cmd' = [cmd EXCEPT ![c] = r]
    BY <1>3 DEF To
  <2> HIDE DEF r
  <2> QED
    BY <1>1, <2>1, <2>2
<1>4. ASSUME NEW what \in {"already", "failed", "not running", "stopped", "error"}, Say(c, what)
      PROVE  Moved(c, "idle")
  <2> DEFINE r == [cmd[c] EXCEPT !.pc = "idle", !.said = what]
  <2>1. r \in CmdRecords /\ r.pc = "idle" /\ r.num = cmd[c].num
    BY <1>0, <1>2 DEF CmdRecords
  <2>2. cmd' = [cmd EXCEPT ![c] = r]
    BY <1>4 DEF Say
  <2> HIDE DEF r
  <2> QED
    BY <1>1, <2>1, <2>2
<1>5. ASSUME NEW d \in Daemons,
             cmd' = [cmd EXCEPT ![c].pc = "idle", ![c].conn = d, ![c].said = "started"]
      PROVE  Moved(c, "idle")
  <2> DEFINE r == [cmd[c] EXCEPT !.pc = "idle", !.conn = d, !.said = "started"]
  <2>0. d \in 0 .. MaxCommands
    BY BoundAssumption DEF Daemons
  <2>1. r \in CmdRecords /\ r.pc = "idle" /\ r.num = cmd[c].num
    BY <1>0, <1>2, <2>0 DEF CmdRecords
  <2>2. cmd' = [cmd EXCEPT ![c] = r]
    BY <1>5
  <2> HIDE DEF r
  <2> QED
    BY <1>1, <2>1, <2>2
<1>6. ASSUME NEW d \in Daemons, cmd' = [cmd EXCEPT ![c].pc = "call", ![c].conn = d]
      PROVE  Moved(c, "call") /\ cmd'[c].conn = d
  <2> DEFINE r == [cmd[c] EXCEPT !.pc = "call", !.conn = d]
  <2>0. d \in 0 .. MaxCommands
    BY BoundAssumption DEF Daemons
  <2>1. r \in CmdRecords /\ r.pc = "call" /\ r.conn = d /\ r.num = cmd[c].num
    BY <1>0, <1>2, <2>0 DEF CmdRecords
  <2>2. cmd' = [cmd EXCEPT ![c] = r]
    BY <1>6
  <2> HIDE DEF r
  <2> QED
    BY <1>1, <2>1, <2>2
<1> QED
  BY <1>3, <1>4, <1>5, <1>6


-----------------------------------------------------------------------------
(* The invariant holds at first, and each step preserves it.               *)

\* Nothing runs at first.
LEMMA InitOrder == Init => OrderInv
<1> SUFFICES ASSUME Init PROVE OrderInv
  OBVIOUS
<1>1. IdleCmd \in CmdRecords /\ IdleCmd.pc = "idle"
  BY BoundAssumption DEF IdleCmd, CmdRecords, CmdPcs, NoOne
<1>2. \A d \in Daemons : ~Alive(d) /\ ~Serving(d) /\ pc[d] = "unborn"
  BY DEF Init, Alive, Serving
<1>3. pc \in [Daemons -> DaemonPcs] /\ cmd \in [Clients -> CmdRecords]
  BY <1>1 DEF Init, DaemonPcs
<1>4. commands \in 0 .. MaxCommands /\ faults \in 0 .. MaxFaults
  BY BoundAssumption DEF Init
<1>5. KindInv
  BY <1>2, <1>3, <1>4 DEF Init, KindInv
<1>6. SoloInv
  BY <1>1, <1>2 DEF Init, SoloInv, OneCommand, OneAlive, Found, Fits, At, WatchAlone, StopPcs
<1>7. BirthInv
  BY <1>1, <1>2 DEF Init, BirthInv, Unspawned, At
<1> QED
  BY <1>5, <1>6, <1>7 DEF OrderInv

\* A daemon goes on as it may.
LEMMA DaemonKinds ==
  ASSUME KindInv, BirthInv, NEW d \in Daemons, DaemonStep(d)
  PROVE  KindInv'
<1>0. /\ pc \in [Daemons -> DaemonPcs] /\ open \subseteq Daemons
      /\ cancel \subseteq asked /\ asked \subseteq Daemons
      /\ sock \in {NoOne} \cup Daemons /\ json \in {NoOne} \cup Daemons
      /\ \A e \in open : pc[e] \notin {"unborn", "dead"}
      /\ \A e \in Daemons : pc[e] = "save" \/ (pc[e] = "serve" /\ e \notin cancel) => e \in open
      /\ faults \in 0 .. MaxFaults /\ commands \in 0 .. MaxCommands
  BY DEF KindInv, Alive, Serving
<1>1. /\ UNCHANGED <<cmd, commands, asked, disorder>>
      /\ cancel' = cancel \/ (d \in asked /\ cancel' = cancel \cup {d})
  BY DEF DaemonStep, DaemonRun, Boot, Listen, SaveState, SaveStateError, Shutdown, CloseListener, Leave,
         RemoveState, RemoveSocket, Interrupt, Crash
<1>2. faults' \in 0 .. MaxFaults
  BY <1>0, BoundAssumption
  DEF DaemonStep, DaemonRun, Boot, Listen, SaveState, SaveStateError, Shutdown, CloseListener, Leave,
      RemoveState, RemoveSocket, Interrupt, Crash, Fault
<1>3. sock' \in {NoOne} \cup Daemons /\ json' \in {NoOne} \cup Daemons
  BY <1>0
  DEF DaemonStep, DaemonRun, Boot, Listen, SaveState, SaveStateError, Shutdown, CloseListener, Leave,
      RemoveState, RemoveSocket, Interrupt, Crash
<1>4. PICK to \in DaemonPcs : pc' = [pc EXCEPT ![d] = to]
  <2>1. pc' = [pc EXCEPT ![d] = pc[d]] \/ \E to \in DaemonPcs : Goes(d, to)
    BY <1>0
    DEF DaemonStep, DaemonRun, Boot, Listen, SaveState, SaveStateError, Shutdown, CloseListener, Leave,
        RemoveState, RemoveSocket, Interrupt, Crash, DaemonPcs
  <2> QED
    BY <1>0, <2>1 DEF Goes
<1>5. pc' \in [Daemons -> DaemonPcs] /\ \A e \in Daemons \ {d} : pc'[e] = pc[e]
  BY <1>0, <1>4
<1>6. /\ open' \subseteq Daemons
      /\ \A e \in Daemons \ {d} : e \in open' <=> e \in open
      /\ d \in open' => pc'[d] \notin {"unborn", "dead"}
      /\ pc'[d] = "save" \/ (pc'[d] = "serve" /\ d \notin cancel') => d \in open'
  <2> USE <1>0 DEF Goes, Alive
  <2>1. CASE Boot(d)
    BY <2>1 DEF Boot
  <2>2. CASE Listen(d)
    <3>1. /\ pc[d] = "listen" /\ d \notin open
          /\ \/ open' = open \cup {d} /\ pc' = [pc EXCEPT ![d] = "save"]
             \/ open' = open /\ pc' = [pc EXCEPT ![d] = "dead"]
      BY <2>2 DEF Listen, BirthInv, Late
    <3> QED
      BY <3>1
  <2>3. CASE SaveState(d)
    BY <2>3 DEF SaveState
  <2>4. CASE CloseListener(d)
    <3>1. d \in cancel /\ cancel' = cancel /\ pc' = pc /\ open' = open \ {d}
      BY <2>4 DEF CloseListener
    <3>2. pc[d] # "save"
      BY <3>1 DEF BirthInv, Late
    <3> QED
      BY <3>1, <3>2
  <2>5. CASE Leave(d)
    BY <2>5 DEF Leave
  <2>6. CASE RemoveState(d) \/ RemoveSocket(d)
    BY <2>6 DEF RemoveState, RemoveSocket
  <2>7. CASE SaveStateError(d) \/ Interrupt(d) \/ Crash(d)
    BY <2>7 DEF SaveStateError, Interrupt, Crash
  <2>8. CASE Shutdown(d)
    BY <2>8 DEF Shutdown
  <2> QED
    BY <2>1, <2>2, <2>3, <2>4, <2>5, <2>6, <2>7, <2>8 DEF DaemonStep, DaemonRun
<1>7. /\ \A e \in open' : Alive(e)'
      /\ \A e \in Daemons : pc'[e] = "save" \/ Serving(e)' => e \in open'
  BY <1>0, <1>1, <1>5, <1>6 DEF Alive, Serving
<1> QED
  BY <1>0, <1>1, <1>2, <1>3, <1>5, <1>6, <1>7 DEF KindInv

\* A command goes on as it may.
LEMMA CommandKinds ==
  ASSUME KindInv, BirthInv, NEW c \in Clients,
         CommandStep(c) \/ \E first \in {"wping", "load"} : Begin(c, first)
  PROVE  KindInv'
<1>0. /\ cmd \in [Clients -> CmdRecords]
      /\ {"wunstate", "wunsock", "spawn", "wait", "cleanup", "dial", "sunstate"}
           \subseteq CmdPcs
      /\ Reached \subseteq Daemons /\ Answered \subseteq Daemons
  BY DEF KindInv, CmdPcs, Reached, Answered
<1>same. ASSUME NEW to, Moved(c, to), UNCHANGED <<pc, open, cancel, commands>>,
                asked' = asked \/ \E d \in Daemons : asked' = asked \cup {d},
                sock' \in {sock, NoOne}, json' \in {json, NoOne},
                disorder' \in BOOLEAN, faults' \in 0 .. MaxFaults
         PROVE  KindInv'
  BY <1>same DEF KindInv, Alive, Serving, Moved
<1>1. ASSUME NEW first \in {"wping", "load"}, Begin(c, first)
      PROVE  KindInv'
  <2>1. commands' \in 0 .. MaxCommands /\ commands + 1 \in 0 .. MaxCommands
    BY <1>1, BoundAssumption DEF Begin, KindInv
  <2> DEFINE r == [IdleCmd EXCEPT !.pc = first, !.num = commands + 1]
  <2>2. r \in CmdRecords
    <3>1. r \in [pc : {first}, num : {commands + 1}, conn : {0}, said : {"nothing"}]
      BY DEF IdleCmd, NoOne
    <3>2. 0 \in 0 .. MaxCommands
      BY BoundAssumption
    <3> HIDE DEF r
    <3> QED
      BY <2>1, <3>1, <3>2 DEF CmdRecords, CmdPcs
  <2>3. cmd' \in [Clients -> CmdRecords]
    <3>1. cmd' = [cmd EXCEPT ![c] = r]
      BY <1>1 DEF Begin
    <3> HIDE DEF r
    <3> QED
      BY <1>0, <2>2, <3>1
  <2>4. disorder' \in BOOLEAN
    BY <1>1 DEF Begin, KindInv
  <2> QED
    BY <1>1, <2>1, <2>3, <2>4 DEF Begin, KindInv, Alive, Serving
<1>2. CASE WatchPing(c)
  <2>1. Moved(c, "idle") \/ Moved(c, "wunstate")
    BY <1>0, <1>2, MovedFacts DEF WatchPing
  <2> QED
    BY <1>same, <1>2, <2>1 DEF WatchPing, cFrame, KindInv
<1>3. CASE WatchPingLate(c)
  <2>1. Moved(c, "wunstate")
    BY <1>0, <1>3, MovedFacts DEF WatchPingLate
  <2>2. faults' \in 0 .. MaxFaults
    BY <1>3, BoundAssumption DEF WatchPingLate, Fault, KindInv
  <2> QED
    BY <1>same, <1>3, <2>1, <2>2 DEF WatchPingLate
<1>4. CASE WatchRemoveState(c) \/ WatchRemoveSocket(c)
  <2>1. Moved(c, "wunsock") \/ Moved(c, "spawn")
    BY <1>0, <1>4, MovedFacts DEF WatchRemoveState, WatchRemoveSocket
  <2> QED
    BY <1>same, <1>4, <2>1 DEF WatchRemoveState, WatchRemoveSocket, cFrame, KindInv
<1>5. CASE WatchSpawn(c)
  <2>1. Moved(c, "wait")
    BY <1>0, <1>5, MovedFacts DEF WatchSpawn
  <2>2. /\ pc' \in [Daemons -> DaemonPcs]
        /\ \A d \in Daemons : pc'[d] \in {pc[d], "boot"}
        /\ UNCHANGED <<sock, json, open, asked, cancel, commands, faults, disorder>>
    BY <1>5 DEF WatchSpawn, Goes, DaemonPcs, KindInv
  <2> QED
    BY <2>1, <2>2 DEF KindInv, Moved, Alive, Serving
<1>6. CASE WatchStarted(c)
  <2>1. Moved(c, "idle")
    BY <1>0, <1>6, MovedFacts DEF WatchStarted
  <2> QED
    BY <1>same, <1>6, <2>1 DEF WatchStarted, cFrame, KindInv
<1>7. CASE WatchTimeout(c)
  <2>1. Moved(c, "idle")
    BY <1>0, <1>7, MovedFacts DEF WatchTimeout
  <2>2. faults' \in 0 .. MaxFaults
    BY <1>7, BoundAssumption DEF WatchTimeout, Fault, KindInv
  <2> QED
    BY <1>same, <1>7, <2>1, <2>2 DEF WatchTimeout, KindInv
<1>8. CASE StopLoad(c)
  <2>1. Moved(c, "cleanup") \/ Moved(c, "dial")
    BY <1>0, <1>8, MovedFacts DEF StopLoad
  <2> QED
    BY <1>same, <1>8, <2>1 DEF StopLoad, cFrame, KindInv
<1>9. CASE StopCleanup(c) \/ StopRemoveState(c)
  <2>1. Moved(c, "idle") \/ Moved(c, "cleanup")
    BY <1>0, <1>9, MovedFacts DEF StopCleanup, StopRemoveState
  <2> QED
    BY <1>same, <1>9, <2>1 DEF StopCleanup, StopRemoveState, cFrame, KindInv
<1>10. CASE StopDial(c)
  <2>1. Moved(c, "call") \/ Moved(c, "sunstate")
    BY <1>0, <1>10, MovedFacts DEF StopDial
  <2> QED
    BY <1>0, <1>same, <1>10, <2>1 DEF StopDial, KindInv
<1>11. CASE StopLoadError(c) \/ StopDialError(c) \/ StopLate(c)
  <2>1. Moved(c, "cleanup") \/ Moved(c, "sunstate") \/ Moved(c, "idle")
    BY <1>0, <1>11, MovedFacts DEF StopLoadError, StopDialError, StopLate
  <2>2. faults' \in 0 .. MaxFaults
    BY <1>11, BoundAssumption DEF StopLoadError, StopDialError, StopLate, Fault, KindInv
  <2>3. disorder' \in BOOLEAN
    BY <1>11 DEF StopLoadError, StopDialError, StopLate, KindInv
  <2> QED
    BY <1>same, <1>11, <2>1, <2>2, <2>3 DEF StopLoadError, StopDialError, StopLate
<1>12. CASE StopReply(c) \/ StopError(c)
  <2>1. Moved(c, "idle")
    BY <1>0, <1>12, MovedFacts DEF StopReply, StopError
  <2> QED
    BY <1>same, <1>12, <2>1 DEF StopReply, StopError, cFrame, KindInv
<1> QED
  BY <1>1, <1>2, <1>3, <1>4, <1>5, <1>6, <1>7, <1>8, <1>9, <1>10, <1>11, <1>12
     DEF CommandStep, CommandRun, CommandFault

-----------------------------------------------------------------------------
(* Births.                                                                 *)

\* A daemon's step is one of a daemon that was born.
LEMMA DaemonBirths ==
  ASSUME KindInv, BirthInv, NEW d \in Daemons, DaemonStep(d)
  PROVE  BirthInv'
<1>1. /\ UNCHANGED <<cmd, commands, asked>>
      /\ cancel' = cancel \/ Shutdown(d)
  BY DEF DaemonStep, DaemonRun, Boot, Listen, SaveState, SaveStateError, Shutdown, CloseListener, Leave,
         RemoveState, RemoveSocket, Interrupt, Crash
<1>2. pc \in [Daemons -> DaemonPcs] /\ d \in Daemons
  BY DEF KindInv
<1>3. /\ pc[d] # "unborn"
      /\ \A e \in Daemons \ {d} : pc'[e] = pc[e] /\ (e \in open' <=> e \in open)
      /\ pc[d] \in Late => pc'[d] \in Late
      /\ pc[d] = "save" => pc'[d] \in Late
      /\ d \in open' => pc'[d] \in {"save"} \cup Late
      /\ open' \subseteq open \cup {d}
  <2> USE <1>2 DEF Goes, Late
  <2>1. CASE Boot(d)
    BY <2>1 DEF Boot, BirthInv
  <2>2. CASE Listen(d)
    <3>1. pc[d] = "listen" /\ d \notin open
      BY <2>2 DEF Listen, BirthInv
    <3> QED
      BY <2>2, <3>1 DEF Listen
  <2>3. CASE SaveState(d)
    BY <2>3 DEF SaveState
  <2>4. CASE CloseListener(d)
    BY <2>4 DEF CloseListener, Alive, BirthInv
  <2>5. CASE Leave(d)
    BY <2>5 DEF Leave
  <2>6. CASE RemoveState(d) \/ RemoveSocket(d)
    BY <2>6 DEF RemoveState, RemoveSocket
  <2>7. CASE SaveStateError(d) \/ Interrupt(d) \/ Crash(d)
    BY <2>7 DEF SaveStateError, Interrupt, Crash, Alive
  <2>8. CASE Shutdown(d)
    BY <2>8 DEF Shutdown, Alive, BirthInv
  <2> QED
    BY <2>1, <2>2, <2>3, <2>4, <2>5, <2>6, <2>7, <2>8 DEF DaemonStep, DaemonRun
<1>shut. ASSUME Shutdown(d)
         PROVE  cancel' = cancel \cup {d} /\ pc'[d] \in Late
  BY <1>shut DEF Shutdown, BirthInv
<1>4. /\ \A e \in Daemons : e > commands' => pc'[e] = "unborn"
      /\ \A e \in open' : pc'[e] \in {"save"} \cup Late
      /\ \A e \in asked' : pc'[e] \in {"save"} \cup Late
      /\ \A e \in cancel' : pc'[e] \in Late
  BY <1>1, <1>3, <1>shut DEF BirthInv, KindInv
<1>5. ASSUME NEW c \in Clients
      PROVE  /\ cmd'[c].pc \in Unspawned =>
                  /\ cmd'[c].num \in Daemons /\ cmd'[c].num <= commands'
                  /\ pc'[cmd'[c].num] = "unborn"
             /\ At(c, "call")' => cmd'[c].conn \in asked'
  BY <1>1, <1>3 DEF BirthInv, At
<1> QED
  BY <1>1, <1>4, <1>5 DEF BirthInv

\* A command that has begun spawns its daemon once.
LEMMA CommandBirths ==
  ASSUME KindInv, BirthInv, NEW c \in Clients,
         CommandStep(c) \/ \E first \in {"wping", "load"} : Begin(c, first)
  PROVE  BirthInv'
<1>0. /\ cmd \in [Clients -> CmdRecords]
      /\ {"wunstate", "wunsock", "spawn", "wait", "cleanup", "dial", "sunstate"}
           \subseteq CmdPcs
      /\ Reached \subseteq Daemons /\ Answered \subseteq Daemons
  BY DEF KindInv, CmdPcs, Reached, Answered
<1>same. ASSUME NEW to, Moved(c, to), UNCHANGED <<pc, open, cancel, commands>>,
                to \in Unspawned => cmd[c].pc \in Unspawned,
                asked' = asked \/ \E d \in open : asked' = asked \cup {d},
                to = "call" => cmd'[c].conn \in asked'
         PROVE  BirthInv'
  <2>1. ASSUME NEW e \in Clients
        PROVE  /\ cmd'[e].num = cmd[e].num
               /\ cmd'[e].pc \in Unspawned => cmd[e].pc \in Unspawned
               /\ At(e, "call")' => cmd'[e].conn \in asked'
    BY <1>same DEF Moved, At, BirthInv
  <2>2. open \subseteq Daemons
    BY DEF KindInv
  <2> QED
    BY <1>same, <2>1, <2>2 DEF BirthInv
<1> USE DEF Unspawned
<1>1. ASSUME NEW first \in {"wping", "load"}, Begin(c, first)
      PROVE  BirthInv'
  <2>1. /\ commands' = commands + 1 /\ commands \in Nat /\ commands + 1 \in Daemons
        /\ UNCHANGED <<pc, open, asked, cancel>>
    BY <1>1, BoundAssumption DEF Begin, KindInv, Daemons
  <2>2. pc[commands + 1] = "unborn" /\ \A d \in Daemons : d \in Nat
    BY <2>1 DEF BirthInv, Daemons
  <2>3. /\ cmd'[c].pc = first /\ cmd'[c].num = commands + 1
        /\ \A e \in Clients \ {c} : cmd'[e] = cmd[e]
    BY <1>0, <1>1 DEF Begin, IdleCmd
  <2>4. \A e \in Clients : cmd[e].pc \in Unspawned =>
          cmd[e].num \in Nat /\ cmd[e].num # commands + 1 /\ cmd[e].num <= commands + 1
    BY <2>1, <2>2 DEF BirthInv
  <2>5. ASSUME NEW e \in Clients
        PROVE  /\ cmd'[e].pc \in Unspawned =>
                    /\ cmd'[e].num \in Daemons /\ cmd'[e].num <= commands'
                    /\ pc'[cmd'[e].num] = "unborn"
               /\ At(e, "call")' => cmd'[e].conn \in asked'
    <3>1. CASE e = c
      BY <2>1, <2>2, <2>3, <3>1 DEF At
    <3>2. CASE e # c
      BY <2>1, <2>3, <2>4, <3>2 DEF At, BirthInv
    <3> QED
      BY <3>1, <3>2
  <2>6. ASSUME NEW e \in Clients, NEW f \in Clients,
               cmd'[e].pc \in Unspawned, cmd'[f].pc \in Unspawned, cmd'[e].num = cmd'[f].num
        PROVE  e = f
    BY <2>3, <2>4, <2>6 DEF BirthInv
  <2>7. \A d \in Daemons : d > commands' => pc'[d] = "unborn"
    BY <2>1, <2>2 DEF BirthInv
  <2> QED
    BY <2>1, <2>5, <2>6, <2>7 DEF BirthInv
<1>2. CASE WatchPing(c)
  <2>1. At(c, "wping") /\ (Moved(c, "idle") \/ Moved(c, "wunstate"))
    BY <1>0, <1>2, MovedFacts DEF WatchPing
  <2> QED
    BY <1>same, <1>2, <2>1 DEF WatchPing, cFrame, At
<1>3. CASE WatchPingLate(c)
  <2>1. At(c, "wping") /\ Moved(c, "wunstate")
    BY <1>0, <1>3, MovedFacts DEF WatchPingLate
  <2> QED
    BY <1>same, <1>3, <2>1 DEF WatchPingLate, At
<1>4. CASE WatchRemoveState(c) \/ WatchRemoveSocket(c)
  <2>1. cmd[c].pc \in Unspawned /\ (Moved(c, "wunsock") \/ Moved(c, "spawn"))
    BY <1>0, <1>4, MovedFacts DEF WatchRemoveState, WatchRemoveSocket, At
  <2> QED
    BY <1>same, <1>4, <2>1 DEF WatchRemoveState, WatchRemoveSocket, cFrame
<1>5. CASE WatchSpawn(c)
  <2> DEFINE n == cmd[c].num
  <2>1. Moved(c, "wait") /\ cmd[c].pc \in Unspawned
    BY <1>0, <1>5, MovedFacts DEF WatchSpawn, At
  <2>2. /\ n \in Daemons /\ n <= commands /\ pc[n] = "unborn"
        /\ UNCHANGED <<open, asked, cancel, commands>>
        /\ \A d \in Daemons \ {n} : pc'[d] = pc[d]
    BY <1>5, <2>1 DEF WatchSpawn, Goes, BirthInv, KindInv
  <2>3. n \notin open /\ n \notin asked /\ n \notin cancel
    BY <2>2 DEF BirthInv, Late
  <2>4. \A d \in Daemons : d > commands => d # n
    BY <2>2 DEF Daemons, KindInv
  <2>5. ASSUME NEW e \in Clients \ {c}
        PROVE  /\ cmd'[e] = cmd[e]
               /\ cmd[e].pc \in Unspawned => cmd[e].num # n
    BY <2>1, <2>2 DEF Moved, BirthInv, Late
  <2>6. cmd'[c].pc = "wait"
    BY <2>1 DEF Moved
  <2> HIDE DEF n
  <2>7. /\ \A d \in Daemons : d > commands' => pc'[d] = "unborn"
        /\ \A d \in open' : pc'[d] \in {"save"} \cup Late
        /\ \A d \in asked' : pc'[d] \in {"save"} \cup Late
        /\ \A d \in cancel' : pc'[d] \in Late
    BY <2>2, <2>3, <2>4 DEF BirthInv, KindInv
  <2>8. ASSUME NEW e \in Clients
        PROVE  /\ cmd'[e].pc \in Unspawned =>
                    /\ cmd'[e].num \in Daemons /\ cmd'[e].num <= commands'
                    /\ pc'[cmd'[e].num] = "unborn"
               /\ At(e, "call")' => cmd'[e].conn \in asked'
    BY <2>2, <2>5, <2>6 DEF BirthInv, At
  <2>9. ASSUME NEW e \in Clients, NEW f \in Clients,
               cmd'[e].pc \in Unspawned, cmd'[f].pc \in Unspawned, cmd'[e].num = cmd'[f].num
        PROVE  e = f
    BY <2>5, <2>6, <2>9 DEF BirthInv
  <2> QED
    BY <2>7, <2>8, <2>9 DEF BirthInv
<1>6. CASE WatchStarted(c) \/ WatchTimeout(c)
  <2>1. Moved(c, "idle")
    BY <1>0, <1>6, MovedFacts DEF WatchStarted, WatchTimeout
  <2> QED
    BY <1>same, <1>6, <2>1 DEF WatchStarted, WatchTimeout, cFrame
<1>7. CASE StopLoad(c)
  <2>1. Moved(c, "cleanup") \/ Moved(c, "dial")
    BY <1>0, <1>7, MovedFacts DEF StopLoad
  <2> QED
    BY <1>same, <1>7, <2>1 DEF StopLoad, cFrame
<1>8. CASE StopCleanup(c) \/ StopRemoveState(c)
  <2>1. Moved(c, "idle") \/ Moved(c, "cleanup")
    BY <1>0, <1>8, MovedFacts DEF StopCleanup, StopRemoveState
  <2> QED
    BY <1>same, <1>8, <2>1 DEF StopCleanup, StopRemoveState, cFrame
<1>9. CASE StopDial(c)
  <2>1. \/ /\ Moved(c, "call") /\ cmd'[c].conn \in open
           /\ asked' = asked \cup {cmd'[c].conn}
        \/ Moved(c, "sunstate") /\ asked' = asked
    BY <1>0, <1>9, MovedFacts DEF StopDial, Reached
  <2> QED
    BY <1>same, <1>9, <2>1 DEF StopDial
<1>10. CASE StopLoadError(c) \/ StopDialError(c) \/ StopLate(c)
  <2>1. Moved(c, "cleanup") \/ Moved(c, "sunstate") \/ Moved(c, "idle")
    BY <1>0, <1>10, MovedFacts DEF StopLoadError, StopDialError, StopLate
  <2> QED
    BY <1>same, <1>10, <2>1 DEF StopLoadError, StopDialError, StopLate
<1>11. CASE StopReply(c) \/ StopError(c)
  <2>1. Moved(c, "idle")
    BY <1>0, <1>11, MovedFacts DEF StopReply, StopError
  <2> QED
    BY <1>same, <1>11, <2>1 DEF StopReply, StopError, cFrame
<1> QED
  BY <1>1, <1>2, <1>3, <1>4, <1>5, <1>6, <1>7, <1>8, <1>9, <1>10, <1>11
     DEF CommandStep, CommandRun, CommandFault

-----------------------------------------------------------------------------
(* Commands in order.                                                      *)

\* A daemon that starts, serves or ends does so alone, and finds the files as
\* it left them; a watch that pings meanwhile still reaches it.
LEMMA DaemonSolo ==
  ASSUME KindInv, BirthInv, SoloInv, NEW d \in Daemons, DaemonStep(d)
  PROVE  SoloInv'
<1>1. UNCHANGED <<cmd, asked>> /\ cancel \subseteq cancel'
  BY DEF DaemonStep, DaemonRun, Boot, Listen, SaveState, SaveStateError, Shutdown, CloseListener, Leave,
         RemoveState, RemoveSocket, Interrupt, Crash
<1>2. /\ pc \in [Daemons -> DaemonPcs] /\ Found(d)
      /\ d \in open => pc[d] \in {"save"} \cup Late
      /\ d \in cancel => pc[d] \in Late
      /\ cancel \subseteq asked
  BY DEF KindInv, BirthInv, SoloInv
<1>3. Alive(d) /\ \A e \in Daemons \ {d} : pc'[e] = pc[e]
  BY <1>2
  DEF DaemonStep, DaemonRun, Boot, Listen, SaveState, SaveStateError, Shutdown, CloseListener, Leave,
      RemoveState, RemoveSocket, Interrupt, Crash, Alive, Goes
<1>4. \A e \in Daemons \ {d} : pc[e] \in {"unborn", "dead"} /\ pc'[e] = pc[e]
  BY <1>3 DEF SoloInv, OneAlive, Alive
<1>5. OneCommand' /\ OneAlive'
  BY <1>1, <1>4 DEF SoloInv, OneCommand, OneAlive, Alive, At
<1>6. /\ Found(d)'
      /\ pc[d] \notin Starting => pc'[d] \notin Starting
      /\ Serving(d)' => Serving(d) \/ pc[d] \in Starting
      /\ Alive(d)' /\ pc[d] \notin Starting /\ d \notin asked /\ d \in open /\ sock = d =>
           d \in open' /\ sock' = d
  <2> USE <1>1, <1>2 DEF Goes, Found, Serving, Starting, Late, Alive
  <2>1. CASE Boot(d)
    BY <2>1 DEF Boot
  <2>2. CASE Listen(d)
    <3>1. pc[d] = "listen" /\ \/ sock' = d /\ pc' = [pc EXCEPT ![d] = "save"]
                              \/ pc' = [pc EXCEPT ![d] = "dead"]
      BY <2>2 DEF Listen
    <3> QED
      BY <3>1
  <2>3. CASE SaveState(d)
    BY <2>3 DEF SaveState
  <2>4. CASE CloseListener(d)
    BY <2>4 DEF CloseListener
  <2>5. CASE Leave(d)
    BY <2>5 DEF Leave
  <2>6. CASE RemoveState(d)
    BY <2>6 DEF RemoveState
  <2>7. CASE RemoveSocket(d)
    BY <2>7 DEF RemoveSocket
  <2>8. CASE SaveStateError(d)
    BY <2>8 DEF SaveStateError
  <2>9. CASE Interrupt(d)
    BY <2>9 DEF Interrupt
  <2>10. CASE Crash(d)
    BY <2>10 DEF Crash
  <2>11. CASE Shutdown(d)
    BY <2>11 DEF Shutdown
  <2> QED
    BY <2>1, <2>2, <2>3, <2>4, <2>5, <2>6, <2>7, <2>8, <2>9, <2>10, <2>11
       DEF DaemonStep, DaemonRun
<1>7. \A e \in Daemons : Found(e)'
  BY <1>4, <1>6 DEF Found, Serving
<1>8. ASSUME NEW c \in Clients, NEW e \in Daemons
      PROVE  Fits(c, e)'
  <2>1. Fits(c, e) /\ cmd'[c] = cmd[c]
    BY <1>1 DEF SoloInv
  <2>2. CASE e # d
    BY <1>1, <1>4, <2>1, <2>2 DEF Fits, Alive, Serving, At, Starting
  <2>3. CASE e = d
    <3>1. At(c, "wping") =>
            pc[d] \notin Starting /\ d \notin asked /\ d \in open /\ sock = d
      BY <1>3, <2>1, <2>3 DEF Fits
    <3>2. cmd[c].pc \notin WatchAlone
      BY <1>3, <2>1, <2>3 DEF Fits
    <3>3. cmd[c].pc \in StopPcs => pc'[d] \notin Starting
      BY <1>6, <2>1, <2>3 DEF Fits
    <3>4. cmd[c].pc \in {"cleanup", "sunstate"} => ~Serving(d)'
      BY <1>6, <2>1, <2>3 DEF Fits, StopPcs
    <3> QED
      BY <1>1, <1>6, <2>1, <2>3, <3>1, <3>2, <3>3, <3>4 DEF Fits, At
  <2> QED
    BY <2>2, <2>3
<1> QED
  BY <1>5, <1>7, <1>8 DEF SoloInv

\* A command that has begun is the only one, and it fits every daemon as far as
\* it goes.
LEMMA CommandSolo ==
  ASSUME KindInv, BirthInv, SoloInv, NEW c \in Clients, CommandStep(c), ~disorder'
  PROVE  SoloInv'
<1>0. /\ cmd \in [Clients -> CmdRecords]
      /\ {"wunstate", "wunsock", "spawn", "wait", "cleanup", "dial", "sunstate"}
           \subseteq CmdPcs
      /\ Reached \subseteq Daemons /\ Answered \subseteq Daemons
      /\ \A d \in Daemons : Found(d) /\ Fits(c, d)
      /\ \A d \in Daemons : Serving(d) => d \in open /\ d = sock /\ json = d /\ d # NoOne
  BY DEF KindInv, CmdPcs, Reached, Answered, SoloInv, Found, Daemons, NoOne
<1>begun. ~At(c, "idle")
  BY DEF CommandStep, CommandRun, CommandFault, WatchPing, WatchPingLate, WatchRemoveState,
         WatchRemoveSocket, WatchSpawn, WatchStarted, WatchTimeout, StopLoad, StopLoadError,
         StopCleanup, StopDial, StopDialError, StopRemoveState, StopReply, StopLate, StopError, At
<1>only. \A e \in Clients \ {c} : At(e, "idle")
  BY <1>begun DEF SoloInv, OneCommand
<1>one. ASSUME NEW to, Moved(c, to), OneAlive',
               \A d \in Daemons : Found(d)' /\ Fits(c, d)'
        PROVE  SoloInv'
  <2>1. \A e \in Clients \ {c} : At(e, "idle")'
    BY <1>one, <1>only DEF Moved, At
  <2>2. OneCommand'
    BY <2>1 DEF OneCommand
  <2>3. ASSUME NEW e \in Clients \ {c}, NEW d \in Daemons
        PROVE  Fits(e, d)'
    BY <2>1 DEF Fits, At, WatchAlone, StopPcs
  <2> QED
    BY <1>one, <2>2, <2>3 DEF SoloInv
<1>same. ASSUME NEW to, Moved(c, to), UNCHANGED <<pc, open, cancel>>,
                \A d \in Daemons :
                  /\ Alive(d) => sock' = sock \/ (pc[d] \notin {"save"} /\ ~Serving(d))
                  /\ sock' \in {sock, NoOne}
                  /\ json' = json \/ ~Serving(d)
                  /\ to # "wping"
                  /\ to \in WatchAlone => ~Alive(d)
                  /\ to \in StopPcs => cmd[c].pc \in StopPcs
                  /\ to \in {"cleanup", "sunstate"} => ~Serving(d)
         PROVE  SoloInv'
  <2>1. OneAlive'
    BY <1>same DEF SoloInv, OneAlive, Alive
  <2>2. ASSUME NEW d \in Daemons
        PROVE  Found(d)' /\ Fits(c, d)'
    <3>1. Found(d)'
      BY <1>0, <1>same DEF Found, Serving, Alive
    <3>2. Fits(c, d) /\ cmd'[c].pc = to
      BY <1>0, <1>same DEF Moved
    <3>3. Fits(c, d)'
      BY <1>same, <3>2 DEF Fits, At, Alive, Serving
    <3> QED
      BY <3>1, <3>3
  <2> QED
    BY <1>one, <1>same, <2>1, <2>2
<1>2. CASE WatchPing(c)
  <2>1. /\ At(c, "wping") /\ UNCHANGED <<pc, open, cancel, sock, json>>
        /\ Moved(c, "idle") \/ (Reached = {} /\ Moved(c, "wunstate"))
    BY <1>0, <1>2, MovedFacts DEF WatchPing, cFrame
  <2>2. Reached = {} => \A d \in Daemons : ~Alive(d)
    BY <1>0, <2>1 DEF Fits, Reached
  <2> QED
    BY <1>same, <2>1, <2>2 DEF WatchAlone, StopPcs
<1>3. CASE WatchPingLate(c) \/ StopDialError(c)
  BY <1>3 DEF WatchPingLate, StopDialError
<1>4. CASE WatchRemoveState(c) \/ WatchRemoveSocket(c)
  <2>1. /\ cmd[c].pc \in WatchAlone /\ (Moved(c, "wunsock") \/ Moved(c, "spawn"))
        /\ UNCHANGED <<pc, open, cancel>> /\ sock' \in {sock, NoOne}
    BY <1>0, <1>4, MovedFacts DEF WatchRemoveState, WatchRemoveSocket, At, WatchAlone, cFrame
  <2>2. \A d \in Daemons : ~Alive(d) /\ ~Serving(d)
    BY <1>0, <2>1 DEF Fits, Alive, Serving
  <2> QED
    BY <1>same, <2>1, <2>2 DEF WatchAlone, StopPcs
<1>5. CASE WatchSpawn(c)
  <2> DEFINE n == cmd[c].num
  <2>1. Moved(c, "wait") /\ cmd[c].pc \in Unspawned /\ cmd[c].pc \in WatchAlone
    BY <1>0, <1>5, MovedFacts DEF WatchSpawn, At, Unspawned, WatchAlone
  <2>2. /\ n \in Daemons /\ UNCHANGED <<open, cancel, sock, json>>
        /\ pc'[n] = "boot" /\ \A d \in Daemons \ {n} : pc'[d] = pc[d]
    BY <1>5, <2>1 DEF WatchSpawn, Goes, BirthInv, KindInv
  <2>3. \A d \in Daemons : pc[d] \in {"unborn", "dead"}
    BY <1>0, <2>1 DEF Fits, Alive
  <2> HIDE DEF n
  <2>4. OneAlive'
    BY <2>2, <2>3 DEF OneAlive, Alive
  <2>5. ASSUME NEW d \in Daemons
        PROVE  Found(d)' /\ Fits(c, d)'
    <3>1. pc'[d] \in {"unborn", "dead", "boot"} /\ cmd'[c].pc = "wait"
      BY <2>1, <2>2, <2>3 DEF Moved
    <3> QED
      BY <3>1 DEF Found, Fits, Serving, At, WatchAlone, StopPcs
  <2> QED
    BY <1>one, <2>1, <2>4, <2>5
<1>6. CASE WatchStarted(c) \/ WatchTimeout(c)
  <2>1. Moved(c, "idle") /\ UNCHANGED <<pc, open, cancel, sock, json>>
    BY <1>0, <1>6, MovedFacts DEF WatchStarted, WatchTimeout, cFrame
  <2> QED
    BY <1>same, <2>1 DEF WatchAlone, StopPcs
<1>7. CASE StopLoad(c)
  <2>1. /\ At(c, "load") /\ UNCHANGED <<pc, open, cancel, sock, json>>
        /\ (json = NoOne /\ Moved(c, "cleanup")) \/ Moved(c, "dial")
    BY <1>0, <1>7, MovedFacts DEF StopLoad, cFrame
  <2>2. json = NoOne => \A d \in Daemons : ~Serving(d)
    BY <1>0
  <2> QED
    BY <1>same, <2>1, <2>2 DEF WatchAlone, StopPcs, At
<1>8. CASE StopCleanup(c) \/ StopRemoveState(c)
  <2>1. /\ cmd[c].pc \in {"cleanup", "sunstate"} /\ UNCHANGED <<pc, open, cancel>>
        /\ Moved(c, "idle") \/ Moved(c, "cleanup")
        /\ sock' \in {sock, NoOne} /\ json' \in {json, NoOne}
    BY <1>0, <1>8, MovedFacts DEF StopCleanup, StopRemoveState, cFrame, At
  <2>2. \A d \in Daemons : ~Serving(d) /\ pc[d] # "save"
    BY <1>0, <2>1 DEF Fits, StopPcs, Starting
  <2> QED
    BY <1>same, <2>1, <2>2 DEF WatchAlone, StopPcs
<1>9. CASE StopDial(c)
  <2>1. /\ At(c, "dial") /\ UNCHANGED <<pc, open, cancel, sock, json>>
        /\ Moved(c, "call") \/ (Reached = {} /\ Moved(c, "sunstate"))
    BY <1>0, <1>9, MovedFacts DEF StopDial
  <2>2. Reached = {} => \A d \in Daemons : ~Serving(d)
    BY <1>0 DEF Reached
  <2> QED
    BY <1>same, <2>1, <2>2 DEF WatchAlone, StopPcs, At
<1>10. CASE StopLoadError(c)
  <2>1. /\ At(c, "load") /\ UNCHANGED <<pc, open, cancel, sock, json>>
        /\ Moved(c, "cleanup") /\ \A d \in Daemons : ~Alive(d)
    BY <1>0, <1>10, MovedFacts DEF StopLoadError
  <2> QED
    BY <1>same, <2>1 DEF WatchAlone, StopPcs, At, Alive, Serving
<1>11. CASE StopReply(c) \/ StopLate(c) \/ StopError(c)
  <2>1. Moved(c, "idle") /\ UNCHANGED <<pc, open, cancel, sock, json>>
    BY <1>0, <1>11, MovedFacts DEF StopReply, StopLate, StopError, cFrame
  <2> QED
    BY <1>same, <2>1 DEF WatchAlone, StopPcs
<1> QED
  BY <1>2, <1>3, <1>4, <1>5, <1>6, <1>7, <1>8, <1>9, <1>10, <1>11 
     DEF CommandStep, CommandRun, CommandFault

\* A command that begins in order finds every daemon at rest.
LEMMA BeginSolo ==
  ASSUME KindInv, SoloInv, NEW c \in Clients, NEW first \in {"wping", "load"},
         Begin(c, first), ~disorder'
  PROVE  SoloInv'
<1>1. /\ \A d \in Daemons : Settled(d)
      /\ \A e \in Clients \ {c} : At(e, "idle")
      /\ UNCHANGED <<sock, json, pc, open, asked, cancel>>
  BY DEF Begin
<1>2. cmd'[c].pc = first /\ \A e \in Clients \ {c} : cmd'[e].pc = "idle"
  BY <1>1 DEF Begin, KindInv, IdleCmd, At
<1>3. OneCommand' /\ OneAlive' /\ \A d \in Daemons : Found(d)'
  BY <1>1, <1>2 DEF SoloInv, OneCommand, OneAlive, Found, Alive, Serving, At
<1>4. ASSUME NEW e \in Clients, NEW d \in Daemons
      PROVE  Fits(e, d)'
  <2>1. CASE e = c
    <3>1. Alive(d) => Serving(d) /\ d \notin asked /\ d \in open /\ sock = d
      BY <1>1 DEF Settled, KindInv, SoloInv, Found
    <3>2. pc[d] \notin Starting
      BY <1>1 DEF Settled, Alive, Serving, Starting
    <3> QED
      BY <1>1, <1>2, <2>1, <3>1, <3>2 DEF Fits, Alive, Serving, At, WatchAlone, Starting
  <2>2. CASE e # c
    BY <1>2, <2>2 DEF Fits, At, WatchAlone, StopPcs
  <2> QED
    BY <2>1, <2>2
<1> QED
  BY <1>3, <1>4 DEF SoloInv

-----------------------------------------------------------------------------
(* The theorems.                                                           *)

\* Disorder is not forgotten.
LEMMA DisorderStays ==
  ASSUME KindInv, [Next]_vars, disorder
  PROVE  disorder'
<1>1. CASE \E d \in Daemons : DaemonStep(d)
  BY <1>1
  DEF DaemonStep, DaemonRun, Boot, Listen, SaveState, SaveStateError, Shutdown, CloseListener, Leave,
      RemoveState, RemoveSocket, Interrupt, Crash
<1>2. CASE \E c \in Clients : CommandStep(c)
  BY <1>2
  DEF CommandStep, CommandRun, CommandFault, WatchPing, WatchPingLate, WatchRemoveState,
      WatchRemoveSocket, WatchSpawn, WatchStarted, WatchTimeout, StopLoad, StopLoadError,
      StopCleanup, StopDial, StopDialError, StopRemoveState, StopReply, StopLate, StopError,
      cFrame
<1>3. CASE \E c \in Clients, first \in {"wping", "load"} : Begin(c, first)
  BY <1>3 DEF Begin
<1>4. CASE UNCHANGED vars
  BY <1>4 DEF vars
<1> QED
  BY <1>1, <1>2, <1>3, <1>4 DEF Next, Rest, DaemonStep, CommandStep

\* Every step preserves the invariant.
LEMMA OrderStep == OrderInv /\ [Next]_vars => OrderInv'
<1> SUFFICES ASSUME OrderInv, [Next]_vars PROVE OrderInv'
  OBVIOUS
<1>1. KindInv /\ BirthInv /\ (~disorder' => SoloInv)
  BY DisorderStays DEF OrderInv
<1>2. CASE \E d \in Daemons : DaemonStep(d)
  BY <1>1, <1>2, DaemonKinds, DaemonBirths, DaemonSolo DEF OrderInv
<1>3. CASE \E c \in Clients : CommandStep(c)
  BY <1>1, <1>3, CommandKinds, CommandBirths, CommandSolo DEF OrderInv
<1>4. CASE \E c \in Clients, first \in {"wping", "load"} : Begin(c, first)
  BY <1>1, <1>4, CommandKinds, CommandBirths, BeginSolo DEF OrderInv
<1>5. CASE UNCHANGED vars
  <2>1. KindInv' /\ BirthInv'
    BY <1>1, <1>5 DEF vars, KindInv, BirthInv, Alive, Serving, At
  <2>2. SoloInv => SoloInv'
    BY <1>5 DEF vars, SoloInv, OneCommand, OneAlive, Found, Fits, Alive, Serving, At
  <2> QED
    BY <1>1, <2>1, <2>2 DEF OrderInv
<1> QED
  BY <1>2, <1>3, <1>4, <1>5 DEF Next, Rest, DaemonStep, CommandStep

\* The invariant holds in every state.
THEOREM OrderInvariant == Spec => []OrderInv
<1>1. Init => OrderInv
  BY InitOrder
<1>2. OrderInv /\ [Next]_vars => OrderInv'
  BY OrderStep
<1> QED
  BY <1>1, <1>2, PTL DEF Spec

\* Commands given one at a time, each when no daemon is on its way in or out,
\* and none of which takes a daemon that lives for none, never lead to two
\* daemons, and every daemon that serves can be reached through its socket and
\* daemon.json, whatever crashes have left behind
\* (watch.go: the already-running check and the cleaning up; stop.go).
THEOREM OrderedCommandsReach == Spec => []InOrder
<1>1. OrderInv => InOrder
  <2> SUFFICES ASSUME OrderInv, ~disorder PROVE OneDaemon /\ Reachable
    BY DEF InOrder
  <2>1. SoloInv
    BY DEF OrderInv
  <2>2. \A d \in Daemons : Serving(d) => Alive(d)
    BY DEF Serving, Alive
  <2> QED
    BY <2>1, <2>2 DEF SoloInv, OneAlive, Found, OneDaemon, Reachable
<1> QED
  BY <1>1, OrderInvariant, PTL

\* Every variable holds a value of its kind, and the listener of a daemon that
\* serves is open (daemon.go).
THEOREM TypeCorrect == Spec => []TypeOK
<1>1. OrderInv => TypeOK
  <2> SUFFICES ASSUME KindInv PROVE TypeOK
    BY DEF OrderInv
  <2>1. \A c \in Clients : cmd[c] \in CmdRecords
    BY DEF KindInv
  <2>2. \A c \in Clients :
          cmd[c].pc \in CmdPcs /\ {cmd[c].num, cmd[c].conn} \subseteq 0 .. MaxCommands
    BY <2>1 DEF CmdRecords
  <2> QED
    BY <2>2 DEF KindInv, TypeOK
<1> QED
  BY <1>1, OrderInvariant, PTL

-----------------------------------------------------------------------------
(* What commands report.                                                   *)

\* While watch waits, the daemon it has started is on its way or serves, unless
\* there was a fault.
Awaits(c) ==
  At(c, "wait") =>
    /\ cmd[c].num \in Daemons /\ cmd[c].num \notin asked
    /\ pc[cmd[c].num] \in Starting \cup {"serve"} \/ faults > 0

WaitInv == ~disorder => \A c \in Clients : Awaits(c)

\* Without a fault a daemon starts and serves on.
LEMMA DaemonAwaited ==
  ASSUME OrderInv, NEW d \in Daemons, DaemonStep(d), ~disorder', WaitInv
  PROVE  WaitInv'
<1>1. UNCHANGED <<cmd, asked, disorder>>
  BY DEF DaemonStep, DaemonRun, Boot, Listen, SaveState, SaveStateError, Shutdown, CloseListener, Leave,
         RemoveState, RemoveSocket, Interrupt, Crash
<1>2. /\ pc \in [Daemons -> DaemonPcs] /\ faults \in Nat /\ Found(d)
      /\ cancel \subseteq asked
  BY <1>1, BoundAssumption DEF OrderInv, KindInv, SoloInv
<1>3. faults' \in Nat /\ faults <= faults' /\ \A e \in Daemons \ {d} : pc'[e] = pc[e]
  BY <1>2
  DEF DaemonStep, DaemonRun, Boot, Listen, SaveState, SaveStateError, Shutdown, CloseListener, Leave,
      RemoveState, RemoveSocket, Interrupt, Crash, Fault, Goes
<1>4. d \notin asked /\ pc[d] \in Starting \cup {"serve"} =>
        pc'[d] \in Starting \cup {"serve"} \/ faults' > 0
  <2> USE <1>2 DEF Goes, Starting
  <2>1. CASE Boot(d) \/ SaveState(d)
    BY <2>1 DEF Boot, SaveState
  <2>2. CASE Listen(d)
    BY <2>2 DEF Listen, Found
  <2>3. CASE Shutdown(d) \/ CloseListener(d) \/ Leave(d)
    BY <2>3 DEF Shutdown, CloseListener, Leave
  <2>4. CASE RemoveState(d) \/ RemoveSocket(d)
    BY <2>4 DEF RemoveState, RemoveSocket
  <2>5. CASE SaveStateError(d) \/ Interrupt(d) \/ Crash(d)
    BY <2>5 DEF SaveStateError, Interrupt, Crash, Fault
  <2> QED
    BY <2>1, <2>2, <2>3, <2>4, <2>5 DEF DaemonStep, DaemonRun
<1>5. ASSUME NEW c \in Clients
      PROVE  Awaits(c)'
  BY <1>1, <1>2, <1>3, <1>4 DEF WaitInv, Awaits, At
<1> QED
  BY <1>5 DEF WaitInv

\* Only with its daemon does a command come to wait.
LEMMA StepMoves ==
  ASSUME KindInv, NEW c \in Clients, CommandStep(c)
  PROVE  \E to : Moved(c, to) /\ (to = "wait" => WatchSpawn(c))
<1>0. /\ cmd \in [Clients -> CmdRecords]
      /\ {"wunstate", "wunsock", "spawn", "wait", "cleanup", "dial", "sunstate"}
           \subseteq CmdPcs
      /\ Reached \subseteq Daemons /\ Answered \subseteq Daemons
  BY DEF KindInv, CmdPcs, Reached, Answered
<1>1. CASE WatchPing(c) \/ WatchPingLate(c)
  <2>1. Moved(c, "idle") \/ Moved(c, "wunstate")
    BY <1>0, <1>1, MovedFacts DEF WatchPing, WatchPingLate
  <2> QED
    BY <2>1
<1>2. CASE WatchRemoveState(c) \/ WatchRemoveSocket(c)
  <2>1. Moved(c, "wunsock") \/ Moved(c, "spawn")
    BY <1>0, <1>2, MovedFacts DEF WatchRemoveState, WatchRemoveSocket
  <2> QED
    BY <2>1
<1>3. CASE WatchSpawn(c)
  BY <1>0, <1>3, MovedFacts DEF WatchSpawn
<1>4. CASE WatchStarted(c) \/ WatchTimeout(c)
  <2>1. Moved(c, "idle")
    BY <1>0, <1>4, MovedFacts DEF WatchStarted, WatchTimeout
  <2> QED
    BY <2>1
<1>5. CASE StopLoad(c) \/ StopLoadError(c) \/ StopCleanup(c) \/ StopRemoveState(c)
  <2>1. Moved(c, "cleanup") \/ Moved(c, "dial") \/ Moved(c, "idle")
    BY <1>0, <1>5, MovedFacts DEF StopLoad, StopLoadError, StopCleanup, StopRemoveState
  <2> QED
    BY <2>1
<1>6. CASE StopDial(c) \/ StopDialError(c)
  <2>1. Moved(c, "call") \/ Moved(c, "sunstate")
    BY <1>0, <1>6, MovedFacts DEF StopDial, StopDialError
  <2> QED
    BY <2>1
<1>7. CASE StopReply(c) \/ StopLate(c) \/ StopError(c)
  <2>1. Moved(c, "idle")
    BY <1>0, <1>7, MovedFacts DEF StopReply, StopLate, StopError
  <2> QED
    BY <2>1
<1> QED
  BY <1>1, <1>2, <1>3, <1>4, <1>5, <1>6, <1>7
     DEF CommandStep, CommandRun, CommandFault

\* A command that goes on starts to wait with the daemon it has started, and
\* none stops it meanwhile.
LEMMA CommandAwaits ==
  ASSUME OrderInv, NEW c \in Clients, CommandStep(c), ~disorder', WaitInv
  PROVE  WaitInv'
<1>0. /\ KindInv /\ BirthInv /\ SoloInv /\ ~disorder
      /\ cmd \in [Clients -> CmdRecords]
      /\ {"wunstate", "wunsock", "spawn", "wait", "cleanup", "dial", "sunstate"}
           \subseteq CmdPcs
      /\ Reached \subseteq Daemons /\ Answered \subseteq Daemons
  BY DisorderStays DEF OrderInv, KindInv, CmdPcs, Reached, Answered, Next, CommandStep
<1>begun. ~At(c, "idle")
  BY DEF CommandStep, CommandRun, CommandFault, WatchPing, WatchPingLate, WatchRemoveState,
         WatchRemoveSocket, WatchSpawn, WatchStarted, WatchTimeout, StopLoad, StopLoadError,
         StopCleanup, StopDial, StopDialError, StopRemoveState, StopReply, StopLate, StopError, At
<1>only. \A e \in Clients \ {c} : At(e, "idle")
  BY <1>0, <1>begun DEF SoloInv, OneCommand
<1>one. ASSUME NEW to, Moved(c, to), to = "wait" => Awaits(c)'
        PROVE  WaitInv'
  BY <1>only, <1>one DEF WaitInv, Awaits, Moved, At
<1>1. CASE WatchSpawn(c)
  <2>1. Moved(c, "wait") /\ cmd[c].pc \in Unspawned
    BY <1>0, <1>1, MovedFacts DEF WatchSpawn, At, Unspawned
  <2>2. cmd[c].num \in Daemons /\ pc[cmd[c].num] = "unborn" /\ cmd[c].num \notin asked
    BY <1>0, <2>1 DEF BirthInv, Late
  <2>3. asked' = asked /\ pc'[cmd[c].num] = "boot" /\ cmd'[c].num = cmd[c].num
    BY <1>0, <1>1, <2>1, <2>2 DEF WatchSpawn, Goes, KindInv, Moved
  <2> QED
    BY <1>one, <2>1, <2>2, <2>3 DEF Awaits, Starting
<1>2. CASE ~WatchSpawn(c)
  <2>1. PICK to : Moved(c, to) /\ to # "wait"
    BY <1>0, <1>2, StepMoves
  <2> QED
    BY <1>one, <2>1
<1> QED
  BY <1>1, <1>2

\* The invariant holds in every state.
THEOREM WaitInvariant == Spec => [](OrderInv /\ WaitInv)
<1>1. Init => OrderInv /\ WaitInv
  BY InitOrder DEF Init, IdleCmd, WaitInv, Awaits, At
<1>2. OrderInv /\ WaitInv /\ [Next]_vars => (OrderInv /\ WaitInv)'
  <2> SUFFICES ASSUME OrderInv, WaitInv, [Next]_vars, ~disorder' PROVE WaitInv'
    BY OrderStep DEF WaitInv
  <2>1. CASE \E d \in Daemons : DaemonStep(d)
    BY <2>1, DaemonAwaited
  <2>2. CASE \E c \in Clients : CommandStep(c)
    BY <2>2, CommandAwaits
  <2>3. ASSUME NEW c \in Clients, NEW first \in {"wping", "load"}, Begin(c, first)
        PROVE  WaitInv'
    <3>1. /\ ~disorder /\ UNCHANGED <<pc, asked, faults>>
          /\ cmd'[c].pc = first /\ \A e \in Clients \ {c} : cmd'[e] = cmd[e]
      BY <2>3 DEF Begin, IdleCmd, OrderInv, KindInv
    <3> QED
      BY <3>1 DEF WaitInv, Awaits, At
  <2>4. CASE UNCHANGED vars
    BY <2>4 DEF vars, WaitInv, Awaits, At
  <2> QED
    BY <2>1, <2>2, <2>3, <2>4 DEF Next, Rest, DaemonStep, CommandStep
<1> QED
  BY <1>1, <1>2, PTL DEF Spec

\* Commands given in order report what is so, and watch fails only after a
\* fault: no file that a crash has left behind keeps a daemon from starting
\* (watch.go, stop.go).
THEOREM ReportsTruthful == Spec => Truthful
<1>1. OrderInv /\ WaitInv /\ [Next]_vars =>
        [\A c \in Clients :
           ~disorder /\ cmd'[c].said # cmd[c].said =>
             /\ cmd'[c].said = "failed" => faults' > 0
             /\ cmd'[c].said \in {"already", "started"} => \E d \in Daemons : Alive(d)
             /\ cmd'[c].said = "not running" => \A d \in Daemons : ~Serving(d)
             /\ cmd'[c].said = "stopped" => \A d \in Daemons : Serving(d) => d \in asked]_vars
  <2> SUFFICES ASSUME OrderInv, WaitInv, Next, NEW c \in Clients, ~disorder,
                      cmd'[c].said # cmd[c].said
               PROVE  /\ cmd'[c].said = "failed" => faults' > 0
                      /\ cmd'[c].said \in {"already", "started"} => \E d \in Daemons : Alive(d)
                      /\ cmd'[c].said = "not running" => \A d \in Daemons : ~Serving(d)
                      /\ cmd'[c].said = "stopped" =>
                           \A d \in Daemons : Serving(d) => d \in asked
    OBVIOUS
  <2>0. /\ KindInv /\ BirthInv /\ SoloInv /\ Awaits(c) /\ cmd \in [Clients -> CmdRecords]
        /\ faults \in Nat /\ Answered \subseteq open /\ open \subseteq Daemons
        /\ \A d \in open : Alive(d)
    BY BoundAssumption DEF OrderInv, WaitInv, KindInv, Answered, Reached
  <2>1. ASSUME NEW d \in Daemons, DaemonStep(d)
        PROVE  FALSE
    BY <2>1
    DEF DaemonStep, DaemonRun, Boot, Listen, SaveState, SaveStateError, Shutdown, CloseListener, Leave,
        RemoveState, RemoveSocket, Interrupt, Crash
  <2>2. ASSUME NEW e \in Clients, NEW first \in {"wping", "load"}, Begin(e, first)
        PROVE  cmd'[c].said = "nothing"
    BY <2>0, <2>2 DEF Begin, IdleCmd
  <2>3. ASSUME NEW e \in Clients, CommandStep(e)
        PROVE  e = c
    <3>1. PICK to : Moved(e, to)
      BY <2>0, <2>3, StepMoves
    <3> QED
      BY <3>1 DEF Moved
  <2>4. /\ \A to : ~To(c, to)
        /\ \A what : Say(c, what) => cmd'[c].said = what
        /\ \A d \in Daemons : cmd' # [cmd EXCEPT ![c].pc = "call", ![c].conn = d]
    <3>1. cmd[c] \in CmdRecords
      BY <2>0
    <3>2. ASSUME NEW to, To(c, to)
          PROVE  FALSE
      <4>1. cmd'[c] = [cmd[c] EXCEPT !.pc = to]
        BY <2>0, <3>2 DEF To
      <4> QED
        BY <3>1, <4>1 DEF CmdRecords
    <3>3. ASSUME NEW what, Say(c, what)
          PROVE  cmd'[c].said = what
      <4>1. cmd'[c] = [cmd[c] EXCEPT !.pc = "idle", !.said = what]
        BY <2>0, <3>3 DEF Say
      <4> QED
        BY <3>1, <4>1 DEF CmdRecords
    <3>4. ASSUME NEW d \in Daemons, cmd' = [cmd EXCEPT ![c].pc = "call", ![c].conn = d]
          PROVE  FALSE
      <4>1. cmd'[c] = [cmd[c] EXCEPT !.pc = "call", !.conn = d]
        BY <2>0, <3>4
      <4> QED
        BY <3>1, <4>1 DEF CmdRecords
    <3> QED
      BY <3>2, <3>3, <3>4
  <2>5. CASE WatchPing(c)
    BY <2>0, <2>4, <2>5 DEF WatchPing
  <2>6. CASE WatchStarted(c)
    BY <2>0, <2>6, ZenonT(30) DEF WatchStarted, CmdRecords
  <2>7. CASE WatchTimeout(c)
    <3>1. /\ At(c, "wait") /\ Answered = {} /\ cmd'[c].said = "failed"
          /\ pc[cmd[c].num] \in Starting => faults' = faults + 1
          /\ faults' = faults \/ faults' = faults + 1
      BY <2>4, <2>7 DEF WatchTimeout, Fault, Starting
    <3>2. ASSUME pc[cmd[c].num] = "serve"
          PROVE  FALSE
      <4> DEFINE d == cmd[c].num
      <4>1. d \in Daemons /\ Serving(d)
        BY <2>0, <3>1, <3>2 DEF KindInv, Awaits, Starting, Serving
      <4>2. d \in Answered
        BY <2>0, <3>2, <4>1 DEF KindInv, SoloInv, Found, Answered, Reached
      <4> QED
        BY <3>1, <4>2
    <3> QED
      BY <2>0, <3>1, <3>2 DEF Awaits
  <2>8. CASE StopCleanup(c)
    BY <2>0, <2>4, <2>8 DEF StopCleanup, SoloInv, Fits, At
  <2>9. CASE StopReply(c)
    <3>1. /\ cmd'[c].said = "stopped" /\ cmd[c].conn \in asked /\ cmd[c].conn \in Daemons
          /\ pc[cmd[c].conn] \in Late \ {"dead"}
      BY <2>0, <2>4, <2>9 DEF StopReply, BirthInv, KindInv
    <3>2. \A d \in Daemons : Serving(d) => d = cmd[c].conn
      BY <2>0, <3>1 DEF SoloInv, OneAlive, Alive, Serving, Late
    <3> QED
      BY <3>1, <3>2
  <2>10. CASE \/ WatchPingLate(c) \/ WatchRemoveState(c) \/ WatchRemoveSocket(c) \/ WatchSpawn(c)
              \/ StopLoad(c) \/ StopLoadError(c) \/ StopDial(c) \/ StopDialError(c)
              \/ StopRemoveState(c)
    BY <2>0, <2>4, <2>10
    DEF WatchPingLate, WatchRemoveState, WatchRemoveSocket, WatchSpawn, StopLoad, StopLoadError,
        StopDial, StopDialError, StopRemoveState, Reached
  <2>11. CASE StopLate(c) \/ StopError(c)
    BY <2>4, <2>11 DEF StopLate, StopError
  <2> QED
    BY <2>1, <2>2, <2>3, <2>5, <2>6, <2>7, <2>8, <2>9, <2>10, <2>11
    DEF Next, Rest, vars, DaemonStep, CommandStep, CommandRun, CommandFault
<1> QED
  BY <1>1, WaitInvariant, PTL DEF Spec, Truthful
=============================================================================
