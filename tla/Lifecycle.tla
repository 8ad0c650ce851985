------------------------------ MODULE Lifecycle ------------------------------
(***************************************************************************)
(* How daemons come and go: the commands watch and stop (internal/cli) and *)
(* the beginning and the end of the daemon's Run (internal/watcher/        *)
(* daemon.go), which share two files of the namespace: the Unix domain     *)
(* socket (internal/ipc/transport_unix.go) and daemon.json                 *)
(* (internal/state).                                                       *)
(*                                                                         *)
(* A daemon is found through the socket.  Both files are removed by name,  *)
(* whosever they are, by watch, by stop and by a daemon at its beginning   *)
(* and at its end, in steps of their own.                                  *)
(*                                                                         *)
(* Simplifications: a daemon is known by the number of the command that    *)
(* started it; of what daemon.json says only whose it is remains; a reply  *)
(* that is late, a read and a dial that fail are faults, of which there    *)
(* are MaxFaults at most.                                                  *)
(***************************************************************************)
EXTENDS Integers, FiniteSets

CONSTANTS
  Clients,      \* who runs commands
  MaxCommands,  \* bound: commands
  MaxFaults     \* bound: crashes, interrupts, failing calls and late replies

ASSUME BoundAssumption == MaxCommands \in Nat /\ MaxFaults \in Nat

Daemons == 1 .. MaxCommands
NoOne == 0

VARIABLES
  sock,    \* soute.sock: the daemon that bound it
  json,    \* daemon.json: the daemon that wrote it
  pc,      \* where each daemon is
  open,    \* the daemons whose listeners are open
  asked,   \* the daemons that have been sent a request to stop
  cancel,  \* the daemons that have begun to shut down
  cmd,     \* the command of each client
  commands, faults,
  disorder \* history: a command was begun beside another, or while a daemon was
           \* starting or ending, or took a daemon that lives for none

vars == <<sock, json, pc, open, asked, cancel, cmd, commands, faults, disorder>>

DaemonPcs == {"unborn", "boot", "listen", "save", "serve", "unstate", "unsock",
              "dead"}
CmdPcs == {"idle", "wping", "wunstate", "wunsock", "spawn", "wait",
           "load", "cleanup", "dial", "call", "sunstate"}

\* conn is the daemon that answers, said what the last command reported.
IdleCmd == [pc |-> "idle", num |-> NoOne, conn |-> NoOne, said |-> "nothing"]

Alive(d) == pc[d] \notin {"unborn", "dead"}
Serving(d) == pc[d] = "serve" /\ d \notin cancel
Settled(d) == ~Alive(d) \/ (Serving(d) /\ d \notin asked)

\* A connection leads to the daemon that bound the socket, as long as it
\* listens; it is accepted at once and served when Serve runs.
Reached == {d \in open : d = sock}
Answered == {d \in Reached : pc[d] \notin {"listen", "save"}}

Init ==
  /\ sock = NoOne /\ json = NoOne
  /\ pc = [d \in Daemons |-> "unborn"]
  /\ open = {} /\ asked = {} /\ cancel = {}
  /\ cmd = [c \in Clients |-> IdleCmd]
  /\ commands = 0 /\ faults = 0
  /\ disorder = FALSE

Fault == faults < MaxFaults /\ faults' = faults + 1

-----------------------------------------------------------------------------
(* The daemon.                                                             *)

Goes(d, to) == pc' = [pc EXCEPT ![d] = to]

\* Whatever socket there is is removed.
Boot(d) ==
  /\ pc[d] = "boot"
  /\ sock' = NoOne
  /\ Goes(d, "listen")
  /\ UNCHANGED <<json, open, asked, cancel, cmd, commands, faults, disorder>>

\* An address in use ends the daemon.
Listen(d) ==
  /\ pc[d] = "listen"
  /\ IF sock = NoOne
       THEN sock' = d /\ open' = open \cup {d} /\ Goes(d, "save")
       ELSE UNCHANGED <<sock, open>> /\ Goes(d, "dead")
  /\ UNCHANGED <<json, asked, cancel, cmd, commands, faults, disorder>>

SaveState(d) ==
  /\ pc[d] = "save"
  /\ json' = d
  /\ Goes(d, "serve")
  /\ UNCHANGED <<sock, open, asked, cancel, cmd, commands, faults, disorder>>

\* The state cannot be written: the listener is closed, which also removes the
\* socket, and Run returns.
SaveStateError(d) ==
  /\ pc[d] = "save"
  /\ Fault
  /\ sock' = NoOne
  /\ open' = open \ {d}
  /\ Goes(d, "dead")
  /\ UNCHANGED <<json, asked, cancel, cmd, commands, disorder>>

\* The handler of a request to stop starts shutdown on a goroutine of its own,
\* also for a sender that waits no longer; this is where that goroutine begins.
Shutdown(d) ==
  /\ d \in asked \ cancel
  /\ Alive(d) /\ pc[d] # "save"
  /\ cancel' = cancel \cup {d}
  /\ UNCHANGED <<sock, json, pc, open, asked, cmd, commands, faults, disorder>>

\* After it has cancelled the context shutdown closes the listener, which
\* removes the socket by name.
CloseListener(d) ==
  /\ d \in cancel \cap open
  /\ Alive(d)
  /\ sock' = NoOne
  /\ open' = open \ {d}
  /\ UNCHANGED <<json, pc, asked, cancel, cmd, commands, faults, disorder>>

\* Variant: the main loop does not end when the context is cancelled.
Leave_Deaf(d) == pc[d] = "serve" /\ d \in cancel /\ UNCHANGED vars

\* The main loop ends, whether shutdown is done or not.
Leave(d) ==
  /\ pc[d] = "serve"
  /\ d \in cancel
  /\ Goes(d, "unstate")
  /\ UNCHANGED <<sock, json, open, asked, cancel, cmd, commands, faults, disorder>>

\* The deferred calls.
RemoveState(d) ==
  /\ pc[d] = "unstate"
  /\ json' = NoOne
  /\ Goes(d, "unsock")
  /\ UNCHANGED <<sock, open, asked, cancel, cmd, commands, faults, disorder>>

RemoveSocket(d) ==
  /\ pc[d] = "unsock"
  /\ sock' = NoOne
  /\ open' = open \ {d}
  /\ Goes(d, "dead")
  /\ UNCHANGED <<json, asked, cancel, cmd, commands, faults, disorder>>

\* An interrupt ends the main loop without shutdown.
Interrupt(d) ==
  /\ pc[d] = "serve"
  /\ Fault
  /\ Goes(d, "unstate")
  /\ UNCHANGED <<sock, json, open, asked, cancel, cmd, commands, disorder>>

Crash(d) ==
  /\ Alive(d)
  /\ Fault
  /\ open' = open \ {d}
  /\ Goes(d, "dead")
  /\ UNCHANGED <<sock, json, asked, cancel, cmd, commands, disorder>>

-----------------------------------------------------------------------------
(* The commands.                                                           *)

cFrame == <<pc, open, asked, cancel, commands, faults, disorder>>

At(c, at) == cmd[c].pc = at
To(c, at) == cmd' = [cmd EXCEPT ![c].pc = at]
Say(c, what) == cmd' = [cmd EXCEPT ![c].pc = "idle", ![c].said = what]

Begin(c, first) ==
  /\ At(c, "idle")
  /\ commands < MaxCommands
  /\ commands' = commands + 1
  /\ cmd' = [cmd EXCEPT ![c] = [IdleCmd EXCEPT !.pc = first, !.num = commands + 1]]
  /\ disorder' = \/ disorder
                 \/ \E d \in Daemons : ~Settled(d)
                 \/ \E e \in Clients \ {c} : ~At(e, "idle")
  /\ UNCHANGED <<sock, json, pc, open, asked, cancel, faults>>

\* Variant: watch believes daemon.json.
WatchPing_State(c) ==
  /\ At(c, "wping")
  /\ IF json # NoOne THEN Say(c, "already") ELSE To(c, "wunstate")
  /\ UNCHANGED <<cFrame, sock, json>>

\* Variant: watch does not ask.
WatchPing_Not(c) ==
  /\ At(c, "wping")
  /\ To(c, "wunstate")
  /\ UNCHANGED <<cFrame, sock, json>>

\* watch asks whether a daemon answers.  It is not asked while its answer is
\* still to come; a late answer counts as none.
WatchPing(c) ==
  /\ At(c, "wping")
  /\ \/ Answered # {} /\ Say(c, "already")
     \/ Reached = {} /\ To(c, "wunstate")
  /\ UNCHANGED <<cFrame, sock, json>>

WatchPingLate(c) ==
  /\ At(c, "wping")
  /\ Reached # {}
  /\ Fault
  /\ To(c, "wunstate")
  /\ disorder' = TRUE
  /\ UNCHANGED <<sock, json, pc, open, asked, cancel, commands>>

WatchRemoveState(c) ==
  /\ At(c, "wunstate")
  /\ json' = NoOne
  /\ To(c, "wunsock")
  /\ UNCHANGED <<cFrame, sock>>

WatchRemoveSocket(c) ==
  /\ At(c, "wunsock")
  /\ sock' = NoOne
  /\ To(c, "spawn")
  /\ UNCHANGED <<cFrame, json>>

WatchSpawn(c) ==
  /\ At(c, "spawn")
  /\ Goes(cmd[c].num, "boot")
  /\ To(c, "wait")
  /\ UNCHANGED <<sock, json, open, asked, cancel, commands, faults, disorder>>

\* watch pings until some daemon answers.
WatchStarted(c) ==
  /\ At(c, "wait")
  /\ \E d \in Answered :
       cmd' = [cmd EXCEPT ![c].pc = "idle", ![c].conn = d, ![c].said = "started"]
  /\ UNCHANGED <<cFrame, sock, json>>

\* It gives up after a while, on a daemon that will not answer, or that is late.
WatchTimeout(c) ==
  /\ At(c, "wait")
  /\ Answered = {}
  /\ IF pc[cmd[c].num] \in {"boot", "listen", "save"} THEN Fault ELSE UNCHANGED faults
  /\ Say(c, "failed")
  /\ UNCHANGED <<sock, json, pc, open, asked, cancel, commands, disorder>>

\* stop: without daemon.json there is no daemon.
StopLoad(c) ==
  /\ At(c, "load")
  /\ To(c, IF json = NoOne THEN "cleanup" ELSE "dial")
  /\ UNCHANGED <<cFrame, sock, json>>

\* Any error of the read counts as its absence, whether a daemon lives or not.
StopLoadError(c) ==
  /\ At(c, "load")
  /\ json # NoOne
  /\ Fault
  /\ To(c, "cleanup")
  /\ disorder' = (disorder \/ \E d \in Daemons : Alive(d))
  /\ UNCHANGED <<sock, json, pc, open, asked, cancel, commands>>

StopCleanup(c) ==
  /\ At(c, "cleanup")
  /\ sock' = NoOne
  /\ Say(c, "not running")
  /\ UNCHANGED <<cFrame, json>>

\* The connection is made and the request sent.
StopDial(c) ==
  /\ At(c, "dial")
  /\ \/ \E d \in Reached :
          /\ cmd' = [cmd EXCEPT ![c].pc = "call", ![c].conn = d]
          /\ asked' = asked \cup {d}
     \/ Reached = {} /\ To(c, "sunstate") /\ UNCHANGED asked
  /\ UNCHANGED <<sock, json, pc, open, cancel, commands, faults, disorder>>

\* Any error counts as a daemon that is down, also beside one that listens.
StopDialError(c) ==
  /\ At(c, "dial")
  /\ Reached # {}
  /\ Fault
  /\ To(c, "sunstate")
  /\ disorder' = TRUE
  /\ UNCHANGED <<sock, json, pc, open, asked, cancel, commands>>

StopRemoveState(c) ==
  /\ At(c, "sunstate")
  /\ json' = NoOne
  /\ To(c, "cleanup")
  /\ UNCHANGED <<cFrame, sock>>

\* The handler does not wait for shutdown: the reply comes while the daemon
\* shuts down, or before it has begun to.
StopReply(c) ==
  /\ At(c, "call")
  /\ pc[cmd[c].conn] \notin {"save", "dead"}
  /\ Say(c, "stopped")
  /\ UNCHANGED <<cFrame, sock, json>>

\* The reply is late: stop gives up on a request that is still served.
StopLate(c) ==
  /\ At(c, "call")
  /\ Alive(cmd[c].conn)
  /\ Fault
  /\ Say(c, "error")
  /\ UNCHANGED <<sock, json, pc, open, asked, cancel, commands, disorder>>

\* Variant: stop waits on a connection that is gone.
StopError_Wait(c) ==
  At(c, "call") /\ pc[cmd[c].conn] = "dead" /\ UNCHANGED vars

\* The daemon is gone before it has replied.
StopError(c) ==
  /\ At(c, "call")
  /\ pc[cmd[c].conn] = "dead"
  /\ Say(c, "error")
  /\ UNCHANGED <<cFrame, sock, json>>

-----------------------------------------------------------------------------
DaemonRun(d) ==
  \/ Boot(d) \/ Listen(d) \/ SaveState(d)
  \/ Shutdown(d) \/ CloseListener(d) \/ Leave(d) \/ RemoveState(d) \/ RemoveSocket(d)

CommandRun(c) ==
  \/ WatchPing(c) \/ WatchRemoveState(c) \/ WatchRemoveSocket(c) \/ WatchSpawn(c)
  \/ WatchStarted(c) \/ WatchTimeout(c)
  \/ StopLoad(c) \/ StopCleanup(c) \/ StopDial(c) \/ StopRemoveState(c)
  \/ StopReply(c) \/ StopError(c)

\* A call of a command fails or is late.
CommandFault(c) ==
  WatchPingLate(c) \/ StopLoadError(c) \/ StopDialError(c) \/ StopLate(c)

\* Nothing is left to do.
Rest ==
  /\ \A d \in Daemons : Settled(d)
  /\ \A c \in Clients : At(c, "idle")
  /\ UNCHANGED vars

Next ==
  \/ \E d \in Daemons :
       DaemonRun(d) \/ SaveStateError(d) \/ Interrupt(d) \/ Crash(d)
  \/ \E c \in Clients :
       CommandRun(c) \/ CommandFault(c) \/ \E first \in {"wping", "load"} : Begin(c, first)
  \/ Rest

Spec == Init /\ [][Next]_vars

\* Every process runs.
LiveSpec ==
  /\ Spec
  /\ \A d \in Daemons : WF_vars(DaemonRun(d))
  /\ \A c \in Clients : WF_vars(CommandRun(c))

-----------------------------------------------------------------------------
(* Properties.                                                             *)

\* Every variable holds a value of its kind; a listener is open in a process
\* that is alive, and in each one that writes or has written daemon.json and
\* has not begun to shut down.
TypeOK ==
  /\ {sock, json} \subseteq {NoOne} \cup Daemons
  /\ pc \in [Daemons -> DaemonPcs]
  /\ open \subseteq {d \in Daemons : Alive(d)}
  /\ cancel \subseteq asked /\ asked \subseteq Daemons
  /\ \A d \in Daemons : pc[d] = "save" \/ Serving(d) => d \in open
  /\ \A c \in Clients : cmd[c].pc \in CmdPcs /\ {cmd[c].num, cmd[c].conn} \subseteq 0 .. MaxCommands
  /\ commands \in 0 .. MaxCommands /\ faults \in 0 .. MaxFaults
  /\ disorder \in BOOLEAN

\* Two daemons never watch the same target (watch.go: "Already-running check").
OneDaemon == \A d, e \in Daemons : Serving(d) /\ Serving(e) => d = e

\* A daemon that serves can be called by every later command: the socket and
\* daemon.json are its own.
Reachable == \A d \in Daemons : Serving(d) => sock = d /\ json = d

\* Both hold if commands are given one at a time, when no daemon is on its way
\* in or out, and no call fails beside a daemon that lives, whatever a crash has
\* left behind.
InOrder == ~disorder => OneDaemon /\ Reachable

\* What a command reports is so when it does.  "stopped" is said of a daemon
\* that may still evaluate and is still to end: it says that each daemon there
\* is has been told to, and StoppedEnds that it does.  And watch does not fail
\* without a fault: no file that a crash left behind keeps a daemon from
\* starting.
Truthful ==
  [][\A c \in Clients :
       ~disorder /\ cmd'[c].said # cmd[c].said =>
         /\ cmd'[c].said = "failed" => faults' > 0
         /\ cmd'[c].said \in {"already", "started"} => \E d \in Daemons : Alive(d)
         /\ cmd'[c].said = "not running" => \A d \in Daemons : ~Serving(d)
         /\ cmd'[c].said = "stopped" => \A d \in Daemons : Serving(d) => d \in asked]_vars

\* A daemon that was told to stop ends, whether or not the one that told it still
\* waits (handler.go, daemon.go: shutdown).
StoppedEnds == \A d \in Daemons : d \in asked ~> pc[d] = "dead"

\* Every command ends: none waits for a daemon that is gone or never comes.
CommandEnds == \A c \in Clients : ~At(c, "idle") ~> At(c, "idle")
=============================================================================
