----------------------------- MODULE CallsProofs -----------------------------
(***************************************************************************)
(* Theorems about modules Calls and Namespace, for every set of            *)
(* directories, names and commands, whatever names are sanitized to.       *)
(*                                                                         *)
(* The argument for OwnReply: the ids on a connection grow from request to *)
(* request, and a reply bears the id of the request it answers, so one of  *)
(* an earlier call has a smaller id than the call that is waiting.         *)
(*                                                                         *)
(* The argument for ServesTarget: as long as no two targets have met in a  *)
(* namespace and none was copied, each namespace was made for the one      *)
(* target whose it is, and so was the daemon in it.                        *)
(***************************************************************************)
EXTENDS Calls, FiniteSetTheorems, TLAPS

Watchers == [watches : Targets, says : Targets]
Requests == [id : Nat, cmd : Cmds, version : Versions]
Replies == [id : Nat, ok : BOOLEAN, to : Requests]

ClientRecords ==
  [pc : {"idle", "ready", "sent", "over"}, target : Targets \cup {None},
   dir : Dirs \cup {None}, id : Nat, stuck : BOOLEAN, got : SUBSET Replies]

ConnRecords ==
  [by : SUBSET Watchers, reqs : Seq(Requests), resps : Seq(Replies), open : BOOLEAN,
   served : Seq(Requests)]

-----------------------------------------------------------------------------
(* The invariant.                                                          *)

NamespaceKinds ==
  /\ spaces \subseteq Spaces
  /\ config \in [Spaces -> Targets \cup {None}]
  /\ clash \in BOOLEAN
  /\ daemon \in [Spaces -> SUBSET Watchers]

\* The namespace of each target was made for it, and so was its daemon.
Owned ==
  \A s \in Spaces :
    /\ config[s] # None => Space(config[s]) = s
    /\ \A d \in daemon[s] : config[s] # None /\ d.watches = config[s] /\ d.says = config[s]

\* Client record p and its connection k: a command that is connected is
\* connected to a daemon of its target.
Connected(p, k) ==
  p.pc \in {"ready", "sent"} =>
    /\ \A d \in k.by : d.watches = p.target /\ d.says = p.target
    /\ p.dir # None => p.target[1] = p.dir

\* The ids grow on a connection.
Ascending(k) ==
  /\ \A i, j \in DOMAIN k.served : i < j => k.served[i].id < k.served[j].id
  /\ \A i, j \in DOMAIN k.reqs : i < j => k.reqs[i].id < k.reqs[j].id
  /\ \A i \in DOMAIN k.served, j \in DOMAIN k.reqs : k.served[i].id < k.reqs[j].id

\* r answers a request that was served.
Answers(k, r) ==
  r.ok => /\ r.to.id = r.id /\ r.to.version = ProtocolVersion
          /\ \E i \in DOMAIN k.served : k.served[i] = r.to

\* The last id is the client's.
Upto(p, k) ==
  p.pc \in {"ready", "sent"} =>
    /\ \A i \in DOMAIN k.served : k.served[i].id <= p.id
    /\ \A i \in DOMAIN k.reqs : k.reqs[i].id <= p.id

Numbered(p, k) ==
  /\ Ascending(k) /\ Upto(p, k)
  /\ \A i \in DOMAIN k.resps : Answers(k, k.resps[i])
  /\ \A r \in p.got : r.ok /\ r.id = p.id /\ Answers(k, r)

\* A command that is not connected has nothing to show.
Bare(p) == p.pc \in {"idle", "over"} => p.got = {} /\ p.dir = None

CallsInv ==
  /\ NamespaceKinds
  /\ ~clash => Owned
  /\ client \in [Clients -> ClientRecords] /\ conn \in [Clients -> ConnRecords]
  /\ \A c \in Clients : /\ Numbered(client[c], conn[c]) /\ Bare(client[c])
                        /\ ~clash => Connected(client[c], conn[c])

-----------------------------------------------------------------------------
(* Records.                                                                *)

\* The records of a command and a connection that are not there.
LEMMA NothingYet ==
  /\ Gone \in ClientRecords /\ Closed \in ConnRecords
  /\ Numbered(Gone, Closed) /\ Bare(Gone) /\ Connected(Gone, Closed)
<1>1. Gone \in ClientRecords
  BY DEF Gone, ClientRecords
<1>2. Closed \in ConnRecords
  BY DEF Closed, ConnRecords
<1>3. DOMAIN Closed.served = {} /\ DOMAIN Closed.reqs = {} /\ DOMAIN Closed.resps = {}
  BY DEF Closed
<1>4. Numbered(Gone, Closed) /\ Bare(Gone) /\ Connected(Gone, Closed)
  BY <1>3 DEF Numbered, Ascending, Upto, Bare, Connected, Gone
<1> QED
  BY <1>1, <1>2, <1>4

\* What Append adds is the last element, and the others stay.
LEMMA AppendFacts ==
  ASSUME NEW S, NEW s \in Seq(S), NEW e \in S
  PROVE  /\ Append(s, e) \in Seq(S)
         /\ DOMAIN Append(s, e) = DOMAIN s \cup {Len(s) + 1}
         /\ Append(s, e)[Len(s) + 1] = e
         /\ \A i \in DOMAIN s : Append(s, e)[i] = s[i] /\ i < Len(s) + 1 /\ i \in Nat
  OBVIOUS

\* Tail drops the first element.
LEMMA TailFacts ==
  ASSUME NEW S, NEW s \in Seq(S), s # <<>>
  PROVE  /\ Tail(s) \in Seq(S) /\ Head(s) \in S /\ Head(s) = s[1] /\ 1 \in DOMAIN s
         /\ \A i \in DOMAIN Tail(s) :
              i + 1 \in DOMAIN s /\ Tail(s)[i] = s[i + 1] /\ i \in Nat /\ 1 < i + 1
  OBVIOUS

\* A request with the next id.
LEMMA AskedNext ==
  ASSUME NEW p \in ClientRecords, NEW k \in ConnRecords, Numbered(p, k),
         p.pc = "ready",
         NEW q \in ClientRecords, q.id = p.id + 1, q.got = {},
         NEW r \in Requests, r.id = p.id + 1,
         NEW l \in ConnRecords, l.served = k.served, l.resps = k.resps,
         l.reqs \in {k.reqs, Append(k.reqs, r)}
  PROVE  Numbered(q, l)
<1>1. /\ k.reqs \in Seq(Requests) /\ k.served \in Seq(Requests) /\ p.id \in Nat
      /\ \A i \in DOMAIN k.served : k.served[i].id \in Nat /\ k.served[i].id <= p.id
      /\ \A i \in DOMAIN k.reqs : k.reqs[i].id \in Nat /\ k.reqs[i].id <= p.id
  <2>1. k.reqs \in Seq(Requests) /\ k.served \in Seq(Requests) /\ p.id \in Nat
    BY DEF ConnRecords, ClientRecords
  <2>2. /\ \A i \in DOMAIN k.served : k.served[i] \in Requests
        /\ \A i \in DOMAIN k.reqs : k.reqs[i] \in Requests
    BY <2>1
  <2> QED
    BY <2>1, <2>2 DEF Numbered, Upto, Requests
<1>2. Ascending(l) /\ Upto(q, l)
  <2>1. CASE l.reqs = k.reqs
    BY <1>1, <2>1 DEF Numbered, Ascending, Upto
  <2>2. CASE l.reqs = Append(k.reqs, r)
    <3>1. /\ DOMAIN l.reqs = DOMAIN k.reqs \cup {Len(k.reqs) + 1}
          /\ l.reqs[Len(k.reqs) + 1] = r
          /\ \A i \in DOMAIN k.reqs :
               l.reqs[i] = k.reqs[i] /\ i < Len(k.reqs) + 1 /\ i \in Nat
      BY <1>1, <2>2, AppendFacts
    <3>2. Len(k.reqs) \in Nat
      BY <1>1
    <3>3. Ascending(k)
      BY DEF Numbered
    <3>4. \A i, j \in DOMAIN l.reqs : i < j => l.reqs[i].id < l.reqs[j].id
      <4> SUFFICES ASSUME NEW i \in DOMAIN l.reqs, NEW j \in DOMAIN l.reqs, i < j
                   PROVE  l.reqs[i].id < l.reqs[j].id
        OBVIOUS
      <4>1. i \in DOMAIN k.reqs
        BY <3>1, <3>2
      <4>2. CASE j \in DOMAIN k.reqs
        BY <3>1, <3>3, <4>1, <4>2 DEF Ascending
      <4>3. CASE j = Len(k.reqs) + 1
        BY <1>1, <3>1, <4>1, <4>3, SMTT(30)
      <4> QED
        BY <3>1, <4>2, <4>3
    <3>5. \A i \in DOMAIN l.served, j \in DOMAIN l.reqs : l.served[i].id < l.reqs[j].id
      BY <1>1, <3>1, <3>3, SMTT(30) DEF Ascending
    <3>6. Ascending(l)
      BY <3>3, <3>4, <3>5 DEF Ascending
    <3>7. Upto(q, l)
      BY <1>1, <3>1 DEF Upto
    <3> QED
      BY <3>6, <3>7
  <2> QED
    BY <2>1, <2>2
<1> QED
  BY <1>2 DEF Numbered, Answers

\* The first request is served, and a reply to it sent.
LEMMA ServedNext ==
  ASSUME NEW p \in ClientRecords, NEW k \in ConnRecords, Numbered(p, k), k.reqs # <<>>,
         Head(k.reqs).version = ProtocolVersion,
         NEW ok \in BOOLEAN,
         NEW l \in ConnRecords, l.reqs = Tail(k.reqs), l.served = Append(k.served, Head(k.reqs)),
         l.resps = Append(k.resps, [id |-> Head(k.reqs).id, ok |-> ok, to |-> Head(k.reqs)])
  PROVE  Numbered(p, l)
<1> DEFINE r == Head(k.reqs)
           a == [id |-> r.id, ok |-> ok, to |-> r]
<1>1. k.reqs \in Seq(Requests) /\ k.served \in Seq(Requests) /\ k.resps \in Seq(Replies)
  BY DEF ConnRecords
<1>2. /\ r \in Requests /\ r = k.reqs[1] /\ 1 \in DOMAIN k.reqs
      /\ \A i \in DOMAIN l.reqs :
           i + 1 \in DOMAIN k.reqs /\ l.reqs[i] = k.reqs[i + 1] /\ i \in Nat /\ 1 < i + 1
  BY <1>1, TailFacts
<1>3. a \in Replies /\ r.id \in Nat
  BY <1>2 DEF Replies, Requests
<1> HIDE DEF r, a
<1>4. /\ DOMAIN l.served = DOMAIN k.served \cup {Len(k.served) + 1}
      /\ l.served[Len(k.served) + 1] = r
      /\ \A i \in DOMAIN k.served : l.served[i] = k.served[i] /\ i < Len(k.served) + 1 /\ i \in Nat
  BY <1>1, <1>2, AppendFacts DEF r
<1>5. /\ DOMAIN l.resps = DOMAIN k.resps \cup {Len(k.resps) + 1}
      /\ l.resps[Len(k.resps) + 1] = a
      /\ \A i \in DOMAIN k.resps : l.resps[i] = k.resps[i]
  BY <1>1, <1>3, AppendFacts DEF r, a
<1>6. Len(k.served) \in Nat
  BY <1>1
<1>7. Ascending(l)
  BY <1>2, <1>4, <1>6 DEF Numbered, Ascending
<1>8. Upto(p, l)
  BY <1>2, <1>4 DEF Numbered, Upto
<1>9. \A b : Answers(k, b) => Answers(l, b)
  BY <1>4 DEF Answers
<1>10. Answers(l, a)
  BY <1>4 DEF Answers, a, r
<1> QED
  BY <1>5, <1>7, <1>8, <1>9, <1>10 DEF Numbered

\* The first request is refused.
LEMMA RefusedNext ==
  ASSUME NEW p \in ClientRecords, NEW k \in ConnRecords, Numbered(p, k), k.reqs # <<>>,
         NEW l \in ConnRecords, l.reqs = Tail(k.reqs), l.served = k.served,
         l.resps = Append(k.resps, [id |-> Head(k.reqs).id, ok |-> FALSE, to |-> Head(k.reqs)])
  PROVE  Numbered(p, l)
<1> DEFINE r == Head(k.reqs)
           a == [id |-> r.id, ok |-> FALSE, to |-> r]
<1>1. k.reqs \in Seq(Requests) /\ k.resps \in Seq(Replies)
  BY DEF ConnRecords
<1>2. /\ r \in Requests
      /\ \A i \in DOMAIN l.reqs :
           i + 1 \in DOMAIN k.reqs /\ l.reqs[i] = k.reqs[i + 1] /\ i \in Nat
  BY <1>1, TailFacts
<1>3. a \in Replies /\ ~a.ok
  BY <1>2 DEF Replies, Requests
<1> HIDE DEF r, a
<1>4. /\ DOMAIN l.resps = DOMAIN k.resps \cup {Len(k.resps) + 1}
      /\ l.resps[Len(k.resps) + 1] = a
      /\ \A i \in DOMAIN k.resps : l.resps[i] = k.resps[i]
  BY <1>1, <1>3, AppendFacts DEF r, a
<1>5. \A i, j \in DOMAIN l.reqs : i < j => i + 1 < j + 1
  BY <1>2
<1>6. Ascending(l) /\ Upto(p, l)
  BY <1>2, <1>5 DEF Numbered, Ascending, Upto
<1> QED
  BY <1>3, <1>4, <1>6 DEF Numbered, Answers

\* The first reply is taken, if it has the id of the call.
LEMMA ReceivedNext ==
  ASSUME NEW p \in ClientRecords, NEW k \in ConnRecords, Numbered(p, k), k.resps # <<>>,
         p.pc = "sent",
         NEW q \in ClientRecords, q.id = p.id,
         q.got = IF Head(k.resps).ok /\ Head(k.resps).id = p.id THEN {Head(k.resps)} ELSE {},
         NEW l \in ConnRecords, l.reqs = k.reqs, l.served = k.served, l.resps = Tail(k.resps)
  PROVE  Numbered(q, l)
<1>1. /\ Head(k.resps) = k.resps[1] /\ 1 \in DOMAIN k.resps
      /\ \A i \in DOMAIN l.resps : i + 1 \in DOMAIN k.resps /\ l.resps[i] = k.resps[i + 1]
  <2>1. k.resps \in Seq(Replies)
    BY DEF ConnRecords
  <2> QED
    BY <2>1, TailFacts
<1>2. \A b : Answers(k, b) <=> Answers(l, b)
  BY DEF Answers
<1>3. Ascending(l) /\ Upto(q, l)
  BY DEF Numbered, Ascending, Upto
<1>4. \A r \in q.got : r = k.resps[1] /\ r.ok /\ r.id = q.id
  BY <1>1
<1> QED
  BY <1>1, <1>2, <1>3, <1>4 DEF Numbered

-----------------------------------------------------------------------------
(* Each step preserves the invariant.                                      *)

\* One command and its connection change, the rest of the commands does not.
LEMMA OneMoves ==
  ASSUME CallsInv, NEW c \in Clients, NEW p \in ClientRecords, NEW k \in ConnRecords,
         client' = [client EXCEPT ![c] = p], conn' = [conn EXCEPT ![c] = k],
         Numbered(p, k), Bare(p), ~clash' => Connected(p, k),
         NamespaceKinds', ~clash' => Owned', clash => clash'
  PROVE  CallsInv'
<1>1. client' \in [Clients -> ClientRecords] /\ conn' \in [Clients -> ConnRecords]
  BY DEF CallsInv
<1>2. ASSUME NEW e \in Clients
      PROVE  \/ client'[e] = p /\ conn'[e] = k
             \/ client'[e] = client[e] /\ conn'[e] = conn[e]
  BY DEF CallsInv
<1>3. ASSUME NEW e \in Clients
      PROVE  /\ Numbered(client'[e], conn'[e]) /\ Bare(client'[e])
             /\ ~clash' => Connected(client'[e], conn'[e])
  BY <1>2 DEF CallsInv
<1> QED
  BY <1>1, <1>3 DEF CallsInv

\* A step of a command that is connected, at the namespaces as they are.
LEMMA OneSteps ==
  ASSUME CallsInv, NEW c \in Clients, NEW p \in ClientRecords, NEW k \in ConnRecords,
         client' = [client EXCEPT ![c] = p], conn' = [conn EXCEPT ![c] = k],
         Numbered(p, k), Bare(p), ~clash => Connected(p, k), UNCHANGED nvars,
         \A s \in Spaces : daemon'[s] \subseteq daemon[s],
         daemon' = [s \in Spaces |-> daemon'[s]]
  PROVE  CallsInv'
<1>1. NamespaceKinds'
  BY DEF CallsInv, NamespaceKinds, nvars
<1>2. ~clash' => Owned'
  BY DEF CallsInv, Owned, nvars
<1>3. clash' = clash
  BY DEF nvars
<1> QED
  BY <1>1, <1>2, <1>3, OneMoves

\* A namespace is where it is made.
LEMMA SpaceFacts ==
  /\ \A t \in Targets : Space(t) \in Spaces /\ Space(t)[1] = t[1] /\ t[1] \in Dirs
  /\ \A s \in Spaces, d \in Dirs : <<d, s[2]>> \in Spaces
<1>1. \A t \in Targets : Space(t) \in Spaces /\ Space(t)[1] = t[1] /\ t[1] \in Dirs
  BY DEF Targets, Spaces, Space
<1>2. ASSUME NEW s \in Spaces, NEW d \in Dirs
      PROVE  <<d, s[2]>> \in Spaces
  <2>1. PICK t \in Targets : s = <<t[1], Sanitize[t[2]]>>
    BY DEF Spaces, Space
  <2>2. <<d, t[2]>> \in Targets /\ Space(<<d, t[2]>>) = <<d, s[2]>>
    BY <2>1 DEF Targets, Space
  <2> QED
    BY <2>2 DEF Spaces
<1> QED
  BY <1>1, <1>2

\* init, and a copy of a directory.
LEMMA NamespaceSteps ==
  ASSUME CallsInv, NamespaceNext, UNCHANGED <<daemon, client, conn>>
  PROVE  CallsInv'
<1>1. /\ spaces \subseteq Spaces /\ config \in [Spaces -> Targets \cup {None}] /\ clash \in BOOLEAN
  BY DEF CallsInv, NamespaceKinds
<1> DEFINE Kept ==
             /\ spaces' \subseteq Spaces /\ config' \in [Spaces -> Targets \cup {None}]
             /\ clash' \in BOOLEAN /\ (clash => clash') /\ (~clash' /\ Owned => Owned')
<1>2. Kept
  <2>1. ASSUME NEW t \in Targets, InitTarget(t)
        PROVE  Kept
    <3>1. /\ config' = [config EXCEPT ![Space(t)] = t] /\ Space(t) \in Spaces
          /\ ~clash' => config[Space(t)] = None \/ config[Space(t)] = t
      BY <2>1, SpaceFacts DEF InitTarget
    <3>2. ~clash' /\ Owned => Owned'
      BY <1>1, <3>1 DEF Owned
    <3> QED
      BY <1>1, <2>1, <3>1, <3>2 DEF InitTarget
  <2>2. ASSUME NEW t \in Targets, InitUnsaved(t)
        PROVE  Kept
    BY <1>1, <2>2, SpaceFacts DEF InitUnsaved, Owned
  <2>3. ASSUME NEW d \in Dirs, NEW e \in Dirs, CopyDir(d, e)
        PROVE  Kept
    BY <1>1, <2>3, SpaceFacts DEF CopyDir
  <2> QED
    BY <2>1, <2>2, <2>3 DEF NamespaceNext
<1> QED
  BY <1>2 DEF CallsInv, NamespaceKinds

\* What a command is told, or finds in its directory, is a target, and one of
\* the directory as long as every namespace is where it was made.
LEMMA ArgumentFacts ==
  ASSUME NamespaceKinds, NEW a \in Arguments
  PROVE  /\ a.target \in Targets /\ a.dir \in Dirs \cup {None}
         /\ Owned /\ a.dir # None => a.target[1] = a.dir
<1>1. CASE a \in {[target |-> t, dir |-> None] : t \in Targets}
  BY <1>1
<1>2. ASSUME NEW d \in Dirs, NEW t \in Detected(d), a = [target |-> t, dir |-> d]
      PROVE  /\ a.target \in Targets /\ a.dir \in Dirs \cup {None}
             /\ Owned /\ a.dir # None => a.target[1] = a.dir
  <2>1. PICK s \in spaces : s[1] = d /\ config[s] = t /\ t # None
    BY DEF Detected
  <2>2. s \in Spaces /\ t \in Targets
    BY <2>1 DEF NamespaceKinds
  <2>3. Owned => t[1] = d
    BY <2>1, <2>2, SpaceFacts DEF Owned
  <2> QED
    BY <1>2, <2>2, <2>3
<1> QED
  BY <1>1, <1>2 DEF Arguments

\* watch takes its settings from the namespace of the target.
LEMMA WatchSteps ==
  ASSUME CallsInv, Watch
  PROVE  CallsInv'
<1>0. NamespaceKinds
  BY DEF CallsInv
<1>1. PICK a \in Arguments :
        /\ config[Space(a.target)] # None
        /\ daemon' = [daemon EXCEPT ![Space(a.target)] =
                        {[watches |-> a.target, says |-> config[Space(a.target)]]}]
        /\ clash' = (clash \/ config[Space(a.target)] # a.target)
        /\ UNCHANGED <<spaces, config, client, conn>>
  BY DEF Watch, Foreign
<1>2. a.target \in Targets /\ Space(a.target) \in Spaces
  BY <1>0, ArgumentFacts, SpaceFacts
<1>3. config[Space(a.target)] \in Targets
  BY <1>0, <1>1, <1>2 DEF NamespaceKinds
<1>4. NamespaceKinds'
  BY <1>0, <1>1, <1>2, <1>3 DEF NamespaceKinds, Watchers
<1>5. ~clash' => Owned'
  <2> SUFFICES ASSUME ~clash' PROVE Owned'
    OBVIOUS
  <2>1. Owned /\ config[Space(a.target)] = a.target
    BY <1>1 DEF CallsInv
  <2> QED
    BY <1>0, <1>1, <1>2, <2>1 DEF Owned, NamespaceKinds
<1> QED
  BY <1>1, <1>4, <1>5 DEF CallsInv

\* A command connects to the daemon in its target's namespace.
LEMMA DialSteps ==
  ASSUME CallsInv, NEW c \in Clients, Dial(c)
  PROVE  CallsInv'
<1>0. NamespaceKinds
  BY DEF CallsInv
<1>1. PICK a \in Arguments :
        /\ Client(c, [Gone EXCEPT !.pc = "ready", !.target = a.target, !.dir = a.dir])
        /\ Conn(c, [Closed EXCEPT !.by = daemon[Space(a.target)], !.open = TRUE])
        /\ clash' = (clash \/ config[Space(a.target)] # a.target)
        /\ UNCHANGED <<spaces, config, changes, daemon>>
  BY DEF Dial, Foreign
<1>2. /\ a.target \in Targets /\ Space(a.target) \in Spaces /\ a.dir \in Dirs \cup {None}
      /\ Owned /\ a.dir # None => a.target[1] = a.dir
  BY <1>0, ArgumentFacts, SpaceFacts
<1> DEFINE p == [Gone EXCEPT !.pc = "ready", !.target = a.target, !.dir = a.dir]
           k == [Closed EXCEPT !.by = daemon[Space(a.target)], !.open = TRUE]
<1>3. /\ p \in ClientRecords /\ p.got = {} /\ p.pc = "ready" /\ p.target = a.target
      /\ p.dir = a.dir
  BY <1>2 DEF Gone, ClientRecords
<1>4. /\ k \in ConnRecords /\ k.served = <<>> /\ k.reqs = <<>> /\ k.resps = <<>>
      /\ k.by = daemon[Space(a.target)]
  <2>1. daemon[Space(a.target)] \in SUBSET Watchers
    BY <1>0, <1>2 DEF NamespaceKinds
  <2>2. ASSUME NEW r \in ConnRecords, NEW by \in SUBSET Watchers
        PROVE  LET l == [r EXCEPT !.by = by, !.open = TRUE]
               IN /\ l \in ConnRecords /\ l.by = by
                  /\ l.served = r.served /\ l.reqs = r.reqs /\ l.resps = r.resps
    BY DEF ConnRecords
  <2>3. Closed.served = <<>> /\ Closed.reqs = <<>> /\ Closed.resps = <<>>
    BY DEF Closed
  <2> QED
    BY <2>1, <2>2, <2>3, NothingYet
<1>5. client' = [client EXCEPT ![c] = p] /\ conn' = [conn EXCEPT ![c] = k]
  BY <1>1 DEF Client, Conn
<1> HIDE DEF p, k
<1>6. Numbered(p, k) /\ Bare(p)
  <2>1. DOMAIN k.served = {} /\ DOMAIN k.reqs = {} /\ DOMAIN k.resps = {}
    BY <1>4
  <2> QED
    BY <1>3, <2>1 DEF Numbered, Ascending, Upto, Bare
<1>7. ~clash' => Connected(p, k) /\ Owned
  <2> SUFFICES ASSUME ~clash' PROVE Connected(p, k) /\ Owned
    OBVIOUS
  <2>1. Owned /\ config[Space(a.target)] = a.target
    BY <1>1 DEF CallsInv
  <2> QED
    BY <1>2, <1>3, <1>4, <2>1 DEF Owned, Connected
<1>8. NamespaceKinds' /\ (~clash' => Owned') /\ (clash => clash')
  BY <1>0, <1>1, <1>7 DEF NamespaceKinds, Owned
<1> QED
  BY <1>3, <1>4, <1>5, <1>6, <1>7, <1>8, OneMoves

\* A request.
LEMMA CallSteps ==
  ASSUME CallsInv, NEW c \in Clients, NEW cmd \in Cmds, NEW v \in Versions, Call(c, cmd, v)
  PROVE  CallsInv'
<1> DEFINE p == client[c]
           k == conn[c]
           id == p.id + 1
           r == [id |-> id, cmd |-> cmd, version |-> v]
           none == {}
           q == [p EXCEPT !.pc = "sent", !.id = id, !.got = none]
           l == [k EXCEPT !.reqs = IF k.open THEN Append(k.reqs, r) ELSE k.reqs]
<1>1. /\ p \in ClientRecords /\ k \in ConnRecords /\ p.pc = "ready" /\ p.id \in Nat
      /\ k.reqs \in Seq(Requests)
  BY DEF CallsInv, Call, ClientRecords, ConnRecords
<1>2. r \in Requests /\ r.id = p.id + 1
  BY <1>1 DEF Requests
<1>3. /\ client' = [client EXCEPT ![c] = q] /\ conn' = [conn EXCEPT ![c] = l]
      /\ UNCHANGED nvars /\ daemon' = daemon
  BY DEF Call, Client, Conn
<1>4. Numbered(p, k) /\ (~clash => Connected(p, k))
  BY DEF CallsInv
<1> HIDE DEF p, k, r
<1>5. /\ q \in ClientRecords /\ q.id = p.id + 1 /\ q.got = {} /\ q.pc = "sent"
      /\ q.target = p.target /\ q.dir = p.dir
  <2>1. id \in Nat /\ none \in SUBSET Replies /\ id = p.id + 1 /\ none = {}
    BY <1>1
  <2> HIDE DEF id, none
  <2> QED
    BY <1>1, <2>1 DEF ClientRecords
<1>6. Append(k.reqs, r) \in Seq(Requests)
  BY <1>1, <1>2
<1>7. /\ l \in ConnRecords /\ l.by = k.by /\ l.served = k.served /\ l.resps = k.resps
      /\ l.reqs \in {k.reqs, Append(k.reqs, r)}
  BY <1>1, <1>6 DEF ConnRecords
<1> HIDE DEF q, l
<1>8. Numbered(q, l)
  BY <1>1, <1>2, <1>4, <1>5, <1>7, AskedNext
<1>9. Bare(q) /\ (~clash => Connected(q, l))
  BY <1>1, <1>4, <1>5, <1>7 DEF Bare, Connected
<1>10. daemon' = [s \in Spaces |-> daemon'[s]]
  BY <1>3 DEF CallsInv, NamespaceKinds
<1> QED
  BY <1>3, <1>5, <1>7, <1>8, <1>9, <1>10, OneSteps

\* A reply.
LEMMA ReceiveSteps ==
  ASSUME CallsInv, NEW c \in Clients, Receive(c)
  PROVE  CallsInv'
<1> DEFINE p == client[c]
           k == conn[c]
           r == Head(k.resps)
           got == IF r.ok /\ r.id = p.id THEN {r} ELSE {}
           q == [p EXCEPT !.pc = "ready", !.got = got]
           l == [k EXCEPT !.resps = Tail(k.resps)]
<1>1. /\ p \in ClientRecords /\ k \in ConnRecords /\ p.pc = "sent"
      /\ k.resps \in Seq(Replies) /\ k.resps # <<>>
  BY DEF CallsInv, Receive, ConnRecords
<1>2. Tail(k.resps) \in Seq(Replies) /\ r \in Replies
  BY <1>1, TailFacts
<1>3. /\ client' = [client EXCEPT ![c] = q] /\ conn' = [conn EXCEPT ![c] = l]
      /\ UNCHANGED nvars /\ daemon' = daemon
  BY DEF Receive, Client, Conn
<1>4. Numbered(p, k) /\ (~clash => Connected(p, k))
  BY DEF CallsInv
<1>5. got \in SUBSET Replies
  BY <1>2
<1> HIDE DEF p, k, r, got
<1>6. /\ q \in ClientRecords /\ q.id = p.id /\ q.got = got /\ q.pc = "ready"
      /\ q.target = p.target /\ q.dir = p.dir
  BY <1>1, <1>5 DEF ClientRecords
<1>7. /\ l \in ConnRecords /\ l.by = k.by /\ l.served = k.served /\ l.reqs = k.reqs
      /\ l.resps = Tail(k.resps)
  BY <1>1, <1>2 DEF ConnRecords
<1> HIDE DEF q, l
<1>8. Numbered(q, l)
  BY <1>1, <1>4, <1>6, <1>7, ReceivedNext DEF got, r
<1>9. Bare(q) /\ (~clash => Connected(q, l))
  BY <1>1, <1>4, <1>6, <1>7 DEF Bare, Connected
<1>10. daemon' = [s \in Spaces |-> daemon'[s]]
  BY <1>3 DEF CallsInv, NamespaceKinds
<1> QED
  BY <1>3, <1>6, <1>7, <1>8, <1>9, <1>10, OneSteps

\* A call that fails, and the end of a command.
LEMMA EndSteps ==
  ASSUME CallsInv, NEW c \in Clients, CallError(c) \/ Hangup(c) \/ Forget(c)
  PROVE  CallsInv'
<1> DEFINE p == client[c]
           k == conn[c]
<1>1. /\ p \in ClientRecords /\ k \in ConnRecords /\ Numbered(p, k)
      /\ (~clash => Connected(p, k))
  BY DEF CallsInv
<1>2. UNCHANGED nvars /\ daemon' = daemon /\ daemon' = [s \in Spaces |-> daemon'[s]]
  BY DEF CallError, Hangup, Forget, CallsInv, NamespaceKinds
<1>3. CASE CallError(c)
  <2> DEFINE q == [p EXCEPT !.pc = "ready", !.stuck = TRUE]
  <2>1. p.pc = "sent" /\ client' = [client EXCEPT ![c] = q] /\ conn' = [conn EXCEPT ![c] = k]
    BY <1>3 DEF CallError, Client, CallsInv
  <2> HIDE DEF p, k
  <2>2. /\ q \in ClientRecords /\ q.pc = "ready" /\ q.id = p.id /\ q.got = p.got
        /\ q.target = p.target /\ q.dir = p.dir
    BY <1>1 DEF ClientRecords
  <2> HIDE DEF q
  <2>3. Numbered(q, k) /\ Bare(q) /\ (~clash => Connected(q, k))
    BY <1>1, <2>1, <2>2 DEF Numbered, Upto, Bare, Connected
  <2> QED
    BY <1>1, <1>2, <2>1, <2>2, <2>3, OneSteps
<1>4. CASE Hangup(c)
  <2> DEFINE q == [Gone EXCEPT !.pc = "over"]
  <2>1. client' = [client EXCEPT ![c] = q] /\ conn' = [conn EXCEPT ![c] = k]
    BY <1>4 DEF Hangup, Client, CallsInv
  <2> HIDE DEF p, k
  <2>2. q \in ClientRecords /\ q.pc = "over" /\ q.got = {} /\ q.dir = None
    BY DEF Gone, ClientRecords
  <2> HIDE DEF q
  <2>3. Numbered(q, k) /\ Bare(q) /\ Connected(q, k)
    BY <1>1, <2>2 DEF Numbered, Upto, Bare, Connected
  <2> QED
    BY <1>1, <1>2, <2>1, <2>2, <2>3, OneSteps
<1>5. CASE Forget(c)
  <2>1. client' = [client EXCEPT ![c] = Gone] /\ conn' = [conn EXCEPT ![c] = Closed]
    BY <1>5 DEF Forget, Client, Conn
  <2> QED
    BY <1>2, <2>1, NothingYet, OneSteps
<1> QED
  BY <1>3, <1>4, <1>5

\* The daemon's side of the connection.
LEMMA DaemonSteps ==
  ASSUME CallsInv, NEW c \in Clients, Serve(c) \/ Refuse(c) \/ Break(c)
  PROVE  CallsInv'
<1> DEFINE p == client[c]
           k == conn[c]
           r == Head(k.reqs)
<1>1. /\ p \in ClientRecords /\ k \in ConnRecords /\ Numbered(p, k) /\ Bare(p)
      /\ (~clash => Connected(p, k))
      /\ k.reqs \in Seq(Requests) /\ k.resps \in Seq(Replies) /\ k.served \in Seq(Requests)
  BY DEF CallsInv, ConnRecords
<1>2. /\ UNCHANGED nvars /\ client' = [client EXCEPT ![c] = p]
      /\ \A s \in Spaces : daemon'[s] \subseteq daemon[s]
      /\ daemon' = [s \in Spaces |-> daemon'[s]]
  <2>1. client' = client
    BY DEF Serve, Refuse, Break
  <2>2. daemon = [s \in Spaces |-> daemon[s]] /\ client = [client EXCEPT ![c] = p]
    BY DEF CallsInv, NamespaceKinds
  <2>3. daemon' \in {daemon, [s \in Spaces |-> daemon[s] \ conn[c].by]}
    BY DEF Serve, Refuse, Break
  <2> QED
    BY <2>1, <2>2, <2>3 DEF Serve, Refuse, Break
<1>one. ASSUME NEW l \in ConnRecords, conn' = [conn EXCEPT ![c] = l], l.by = k.by,
               Numbered(p, l)
        PROVE  CallsInv'
  <2>1. ~clash => Connected(p, l)
    BY <1>1, <1>one DEF Connected
  <2> QED
    BY <1>1, <1>2, <1>one, <2>1, OneSteps
<1>next. ASSUME k.reqs # <<>>, NEW ok \in BOOLEAN
         PROVE  LET a == [id |-> r.id, ok |-> ok, to |-> r]
                IN /\ Tail(k.reqs) \in Seq(Requests) /\ Append(k.resps, a) \in Seq(Replies)
                   /\ Append(k.served, r) \in Seq(Requests)
  <2>1. Tail(k.reqs) \in Seq(Requests) /\ r \in Requests
    BY <1>1, <1>next, TailFacts
  <2>2. [id |-> r.id, ok |-> ok, to |-> r] \in Replies
    BY <2>1 DEF Replies, Requests
  <2> HIDE DEF p, k, r
  <2> QED
    BY <1>1, <2>1, <2>2
<1>3. CASE Serve(c)
  <2>1. PICK ok \in BOOLEAN :
          LET a == [id |-> r.id, ok |-> ok, to |-> r]
          IN Conn(c, [conn[c] EXCEPT !.reqs = Tail(@), !.served = Append(@, r),
                                     !.resps = Append(@, a), !.open = r.cmd # "stop"])
    BY <1>3 DEF Serve, Reply
  <2> DEFINE a == [id |-> r.id, ok |-> ok, to |-> r]
             l == [k EXCEPT !.reqs = Tail(k.reqs), !.served = Append(k.served, r),
                            !.resps = Append(k.resps, a), !.open = r.cmd # "stop"]
  <2>2. /\ k.reqs # <<>> /\ r.version = ProtocolVersion
        /\ conn' = [conn EXCEPT ![c] = l]
    BY <1>3, <2>1 DEF Serve, Conn
  <2>3. /\ Tail(k.reqs) \in Seq(Requests) /\ Append(k.resps, a) \in Seq(Replies)
        /\ Append(k.served, r) \in Seq(Requests)
    BY <1>next, <2>2
  <2> HIDE DEF k, p, r, a
  <2>4. /\ l \in ConnRecords /\ l.by = k.by /\ l.reqs = Tail(k.reqs)
        /\ l.served = Append(k.served, r) /\ l.resps = Append(k.resps, a)
    BY <1>1, <2>3 DEF ConnRecords
  <2> HIDE DEF l
  <2>5. Numbered(p, l)
    BY <1>1, <2>2, <2>4, ServedNext DEF r, a
  <2> QED
    BY <1>one, <2>2, <2>4, <2>5
<1>4. CASE Refuse(c)
  <2> DEFINE a == [id |-> r.id, ok |-> FALSE, to |-> r]
             l == [k EXCEPT !.reqs = Tail(k.reqs), !.resps = Append(k.resps, a)]
  <2>1. k.reqs # <<>> /\ conn' = [conn EXCEPT ![c] = l]
    BY <1>4 DEF Refuse, Reply, Conn
  <2>2. Tail(k.reqs) \in Seq(Requests) /\ Append(k.resps, a) \in Seq(Replies)
    BY <1>next, <2>1
  <2> HIDE DEF k, p, r, a
  <2>3. /\ l \in ConnRecords /\ l.by = k.by /\ l.reqs = Tail(k.reqs)
        /\ l.served = k.served /\ l.resps = Append(k.resps, a)
    BY <1>1, <2>2 DEF ConnRecords
  <2> HIDE DEF l
  <2>4. Numbered(p, l)
    BY <1>1, <2>1, <2>3, RefusedNext DEF r, a
  <2> QED
    BY <1>one, <2>1, <2>3, <2>4
<1>5. CASE Break(c)
  <2> DEFINE l == [k EXCEPT !.open = FALSE]
  <2>1. conn' = [conn EXCEPT ![c] = l]
    BY <1>5 DEF Break, Conn
  <2> HIDE DEF p, k
  <2>2. /\ l \in ConnRecords /\ l.by = k.by /\ l.reqs = k.reqs /\ l.served = k.served
        /\ l.resps = k.resps
    BY <1>1 DEF ConnRecords
  <2> HIDE DEF l
  <2>3. Numbered(p, l)
    BY <1>1, <2>2 DEF Numbered, Ascending, Upto, Answers
  <2> QED
    BY <1>one, <2>1, <2>2, <2>3
<1> QED
  BY <1>3, <1>4, <1>5

-----------------------------------------------------------------------------
(* The theorems.                                                           *)

\* The invariant holds in every state.
THEOREM CallsInvariant == CallsSpec => []CallsInv
<1>1. CallsInit => CallsInv
  <2> SUFFICES ASSUME CallsInit PROVE CallsInv
    OBVIOUS
  <2>1. NamespaceKinds /\ Owned
    BY DEF CallsInit, NamespaceInit, NamespaceKinds, Owned
  <2> QED
    BY <2>1, NothingYet DEF CallsInit, CallsInv
<1>2. CallsInv /\ [CallsNext]_cvars => CallsInv'
  <2> SUFFICES ASSUME CallsInv, [CallsNext]_cvars PROVE CallsInv'
    OBVIOUS
  <2>1. CASE UNCHANGED cvars
    BY <2>1 DEF cvars, nvars, CallsInv, NamespaceKinds, Owned
  <2>2. CASE NamespaceNext /\ UNCHANGED <<daemon, client, conn>>
    BY <2>2, NamespaceSteps
  <2>3. CASE Watch
    BY <2>3, WatchSteps
  <2>4. ASSUME NEW c \in Clients,
               \/ Dial(c) \/ Receive(c) \/ CallError(c) \/ Hangup(c) \/ Forget(c)
               \/ \E cmd \in Cmds, v \in Versions : Call(c, cmd, v)
               \/ Serve(c) \/ Refuse(c) \/ Break(c)
        PROVE  CallsInv'
    BY <2>4, DialSteps, ReceiveSteps, EndSteps, CallSteps, DaemonSteps
  <2> QED
    BY <2>1, <2>2, <2>3, <2>4 DEF CallsNext
<1> QED
  BY <1>1, <1>2, PTL DEF CallsSpec

\* A call that succeeds returns the reply to its own request, which the
\* handler was given once, however late the replies to earlier calls come
\* (client.go: the comparison of ids).
THEOREM RepliesAreOwn == CallsSpec => []OwnReply
<1>1. CallsInv => OwnReply
  <2> SUFFICES ASSUME CallsInv, NEW c \in Clients, NEW r \in client[c].got
               PROVE  /\ r.to.id = client[c].id /\ r.to.version = ProtocolVersion
                      /\ Cardinality({i \in DOMAIN conn[c].served : conn[c].served[i] = r.to}) = 1
    BY DEF OwnReply
  <2> DEFINE q == conn[c].served
  <2>1. r.ok /\ r.id = client[c].id /\ Answers(conn[c], r)
    BY DEF CallsInv, Numbered
  <2>2. PICK i \in DOMAIN q : q[i] = r.to
    BY <2>1 DEF Answers
  <2>3. q \in Seq(Requests)
    BY DEF CallsInv, ConnRecords
  <2>4. \A j, k \in DOMAIN q : j < k => q[j].id < q[k].id
    BY DEF CallsInv, Numbered, Ascending
  <2> HIDE DEF q
  <2>5. \A j \in DOMAIN q : q[j].id \in Nat /\ j \in Nat
    <3>1. \A j \in DOMAIN q : q[j] \in Requests /\ j \in Nat
      BY <2>3
    <3> QED
      BY <3>1 DEF Requests
  <2>6. \A j \in DOMAIN q : q[j] = r.to => j = i
    BY <2>2, <2>4, <2>5
  <2>7. {j \in DOMAIN q : q[j] = r.to} = {i}
    BY <2>2, <2>6
  <2>8. Cardinality({j \in DOMAIN q : q[j] = r.to}) = 1
    BY <2>7, FS_Singleton
  <2> QED
    BY <2>1, <2>8 DEF Answers, q
<1> QED
  BY <1>1, CallsInvariant, PTL

\* Unless two targets have met in a namespace, or one was copied, a command is
\* answered by a daemon that watches its target, and works on a target of its
\* directory if it was given none (config.go, resolve.go).
THEOREM RightTargetServed == CallsSpec => []ServesTarget
<1>1. CallsInv => ServesTarget
  <2> SUFFICES ASSUME CallsInv, ~clash, NEW c \in Clients
               PROVE  /\ \A r \in client[c].got, d \in conn[c].by :
                           d.watches = client[c].target /\ d.says = client[c].target
                      /\ client[c].dir # None => client[c].target[1] = client[c].dir
    BY DEF ServesTarget
  <2>1. client[c].pc \in {"idle", "ready", "sent", "over"}
    BY DEF CallsInv, ClientRecords
  <2> QED
    BY <2>1 DEF CallsInv, Bare, Connected
<1> QED
  BY <1>1, CallsInvariant, PTL
=============================================================================
