-------------------------------- MODULE Calls --------------------------------
(***************************************************************************)
(* A call from end to end: a command resolves its target, dials the socket *)
(* in the target's namespace and calls (internal/ipc/client.go); a         *)
(* goroutine of the daemon that listens there serves the connection        *)
(* (server.go), one request after the other, and each ends in a reply, a   *)
(* timeout or a broken connection.                                         *)
(*                                                                         *)
(* The commands make one call on a connection; the client and the server   *)
(* are written for several, one at a time, and so is the model.            *)
(*                                                                         *)
(* Simplifications: a daemon that starts or stops does so in one step      *)
(* (module Lifecycle has them all); what a handler does is left to the     *)
(* other modules, that it may report an error is not.                      *)
(***************************************************************************)
EXTENDS Namespace, Sequences

CONSTANTS
  Clients,   \* commands that run at once
  MaxCalls   \* bound: calls on a connection

ASSUME CallBound == MaxCalls \in Nat

VARIABLES
  daemon,  \* the daemon of each namespace, in a set
  client,  \* each command
  conn     \* its connection

cvars == <<nvars, daemon, client, conn>>

Cmds == {"status", "resume", "stop"}
Versions == {1, 2}
ProtocolVersion == 1

\* target is what the command works on, dir where it looked for it if it was
\* not told; stuck is an error that the decoder has kept; got is the payload of
\* the last call, if it succeeded.
Gone == [pc |-> "idle", target |-> None, dir |-> None, id |-> 0, stuck |-> FALSE,
         got |-> {}]

\* by is the daemon; served the ids and commands that its handler was given.
Closed == [by |-> {}, reqs |-> <<>>, resps |-> <<>>, open |-> FALSE, served |-> <<>>]

CallsInit ==
  /\ NamespaceInit
  /\ daemon = [s \in Spaces |-> {}]
  /\ client = [c \in Clients |-> Gone]
  /\ conn = [c \in Clients |-> Closed]

Client(c, r) == client' = [client EXCEPT ![c] = r]
Conn(c, r) == conn' = [conn EXCEPT ![c] = r]

-----------------------------------------------------------------------------
(* The commands.                                                           *)

\* The target of a command with a path, or of one without, run in dir.
Arguments ==
  {[target |-> t, dir |-> None] : t \in Targets}
    \cup UNION {{[target |-> t, dir |-> d] : t \in Detected(d)} : d \in Dirs}

\* The namespace of t was made for another target.
Foreign(t) == config[Space(t)] # t

\* watch, when nobody answers: the daemon watches the file it is told, and
\* takes its settings from the namespace of that file.
Watch ==
  \E a \in Arguments :
    LET s == Space(a.target)
    IN /\ Change
       /\ daemon[s] = {} /\ config[s] # None
       /\ daemon' = [daemon EXCEPT ![s] = {[watches |-> a.target, says |-> config[s]]}]
       /\ clash' = (clash \/ Foreign(a.target))
       /\ UNCHANGED <<spaces, config, client, conn>>

\* Any other command, or watch when somebody answers.
Dial(c) ==
  /\ client[c].pc = "idle"
  /\ \E a \in Arguments :
       /\ daemon[Space(a.target)] # {}
       /\ Client(c, [Gone EXCEPT !.pc = "ready", !.target = a.target, !.dir = a.dir])
       /\ Conn(c, [Closed EXCEPT !.by = daemon[Space(a.target)], !.open = TRUE])
       /\ clash' = (clash \/ Foreign(a.target))
  /\ UNCHANGED <<spaces, config, changes, daemon>>

\* The request of a call; a command of another version of soute sends another
\* version.
Call(c, cmd, v) ==
  LET id == client[c].id + 1
  IN /\ client[c].pc = "ready" /\ client[c].id < MaxCalls
     /\ Client(c, [client[c] EXCEPT !.pc = "sent", !.id = id, !.got = {}])
     /\ Conn(c, [conn[c] EXCEPT !.reqs =
                   IF conn[c].open THEN Append(@, [id |-> id, cmd |-> cmd, version |-> v])
                                   ELSE @])
     /\ UNCHANGED <<nvars, daemon>>

\* Variant: each call has a decoder of its own, and no id is compared.
Receive_Any(c) ==
  /\ client[c].pc = "sent" /\ conn[c].resps # <<>>
  /\ LET r == Head(conn[c].resps)
     IN Client(c, [client[c] EXCEPT !.pc = "ready", !.got = IF r.ok THEN {r} ELSE {}])
  /\ Conn(c, [conn[c] EXCEPT !.resps = Tail(@)])
  /\ UNCHANGED <<nvars, daemon>>

\* A reply with another id, or with an error, is an error of the call.
Receive(c) ==
  /\ client[c].pc = "sent" /\ ~client[c].stuck /\ conn[c].resps # <<>>
  /\ LET r == Head(conn[c].resps)
     IN Client(c, [client[c] EXCEPT !.pc = "ready",
                     !.got = IF r.ok /\ r.id = client[c].id THEN {r} ELSE {}])
  /\ Conn(c, [conn[c] EXCEPT !.resps = Tail(@)])
  /\ UNCHANGED <<nvars, daemon>>

\* The deadline of the reply passes, or the connection is broken, or was found
\* so before.
CallError(c) ==
  /\ client[c].pc = "sent"
  /\ Client(c, [client[c] EXCEPT !.pc = "ready", !.stuck = TRUE])
  /\ UNCHANGED <<nvars, daemon, conn>>

\* Close; what was sent may still be served.
Hangup(c) ==
  /\ client[c].pc = "ready"
  /\ Client(c, [Gone EXCEPT !.pc = "over"])
  /\ UNCHANGED <<nvars, daemon, conn>>

Forget(c) ==
  /\ client[c].pc = "over" /\ (conn[c].reqs = <<>> \/ ~conn[c].open)
  /\ Client(c, Gone)
  /\ Conn(c, Closed)
  /\ UNCHANGED <<nvars, daemon>>

-----------------------------------------------------------------------------
(* The daemon.                                                             *)

Reply(c, ok) == [id |-> Head(conn[c].reqs).id, ok |-> ok, to |-> Head(conn[c].reqs)]

\* The handler is called and its result sent.  Only resume reports errors.
\* stop closes the listener, and the connection when it is answered.
Serve(c) ==
  /\ conn[c].open /\ conn[c].reqs # <<>>
  /\ LET r == Head(conn[c].reqs)
     IN /\ r.version = ProtocolVersion
        /\ \E ok \in {r.cmd # "resume", TRUE} :
             Conn(c, [conn[c] EXCEPT !.reqs = Tail(@), !.served = Append(@, r),
                                     !.resps = Append(@, Reply(c, ok)),
                                     !.open = r.cmd # "stop"])
        /\ daemon' = IF r.cmd = "stop" THEN [s \in Spaces |-> daemon[s] \ conn[c].by]
                                       ELSE daemon
  /\ UNCHANGED <<nvars, client>>

\* Another version is refused, and the connection served on.
Refuse(c) ==
  /\ conn[c].open /\ conn[c].reqs # <<>>
  /\ Head(conn[c].reqs).version # ProtocolVersion
  /\ Conn(c, [conn[c] EXCEPT !.reqs = Tail(@), !.resps = Append(@, Reply(c, FALSE))])
  /\ UNCHANGED <<nvars, daemon, client>>

\* The daemon's process is over.
Break(c) ==
  /\ conn[c].open
  /\ daemon' = [s \in Spaces |-> daemon[s] \ conn[c].by]
  /\ Conn(c, [conn[c] EXCEPT !.open = FALSE])
  /\ UNCHANGED <<nvars, client>>

CallsNext ==
  \/ NamespaceNext /\ UNCHANGED <<daemon, client, conn>>
  \/ Watch
  \/ \E c \in Clients :
       \/ Dial(c) \/ Receive(c) \/ CallError(c) \/ Hangup(c) \/ Forget(c)
       \/ \E cmd \in Cmds, v \in Versions : Call(c, cmd, v)
       \/ Serve(c) \/ Refuse(c) \/ Break(c)

CallsSpec == CallsInit /\ [][CallsNext]_cvars

-----------------------------------------------------------------------------
(* Properties.                                                             *)

\* A call that succeeds returns the reply to its own request, which the
\* handler was given once: also when an earlier call on the connection had
\* timed out and its reply comes late.
OwnReply ==
  \A c \in Clients : \A r \in client[c].got :
    /\ r.to.id = client[c].id
    /\ r.to.version = ProtocolVersion
    /\ Cardinality({i \in DOMAIN conn[c].served : conn[c].served[i] = r.to}) = 1

\* Unless two targets have shared a namespace, or a namespace was copied, a
\* command is answered by a daemon that watches the target of the command, and
\* status names it; a command that was given no path works on a target of the
\* directory it is run in.
ServesTarget ==
  ~clash => \A c \in Clients :
    /\ \A r \in client[c].got, d \in conn[c].by :
         d.watches = client[c].target /\ d.says = client[c].target
    /\ client[c].dir # None => client[c].target[1] = client[c].dir
=============================================================================
