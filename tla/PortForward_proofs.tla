------------------------- MODULE PortForward_proofs -------------------------
(***************************************************************************)
(* Proofs about PortForward, for every set of tunnels, connections and     *)
(* ports.                                                                  *)
(***************************************************************************)
EXTENDS PortForward, SequenceTheorems, TLAPS

Pcs == {"unused", "greeting", "request", "opening", "accepting",
        "refusing", "dialling", "copying", "closed"}
Channels == {"none", "open", "ended"}
Conn == [tunnel : Tunnels \cup {None}, pc : Pcs, sent : Seq(Replies), channel : Channels]

\* What the start calls and the tasks change; a step of a connection does not.
tunnelVars == <<kind, call, task, aborted, ssh, bound, ACTIVE, lock>>

\* Releasing a tunnel's ports takes nothing from another.
LEMMA ReleaseOnly ==
    ASSUME TypeOK, NEW t \in Tunnels, bound' = Release(t), kind' = kind
    PROVE  /\ bound' \in [{"local", "server"} -> [Ports -> Tunnels \cup {None}]]
           /\ \A u \in Tunnels, p \in Ports : Listens(u, p)' => Listens(u, p) /\ u # t
  BY PortForwardAssumption DEF TypeOK, Release, Listens, Side, Kinds

\* Binding a port makes no other tunnel listen.
LEMMA BindOnly ==
    ASSUME TypeOK, NEW t \in Tunnels, NEW p \in Ports, bound' = Bind(t, p), kind' = kind
    PROVE  /\ bound' \in [{"local", "server"} -> [Ports -> Tunnels \cup {None}]]
           /\ \A u \in Tunnels, q \in Ports : Listens(u, q)' => Listens(u, q) \/ u = t
  BY PortForwardAssumption DEF TypeOK, Bind, Listens, Side, Kinds

\* The ways a connection moves on: with a reply to its client, with what
\* becomes of its channel, and with neither.
LEMMA SendTyped ==
    ASSUME conn \in [Connections -> Conn], NEW c \in Connections,
           NEW r \in Replies, NEW pc \in Pcs, Send(c, r, pc)
    PROVE  conn' \in [Connections -> Conn]
  <1>1. conn' = [conn EXCEPT ![c] = [conn[c] EXCEPT !.pc = pc, !.sent = Append(@, r)]]
    BY DEF Send
  <1>2. conn[c].sent \in Seq(Replies)
    BY DEF Conn
  <1>3. Append(conn[c].sent, r) \in Seq(Replies)
    BY <1>2
  <1>4. [conn[c] EXCEPT !.pc = pc, !.sent = Append(@, r)] \in Conn
    BY <1>3 DEF Conn
  <1> QED
    BY <1>1, <1>4

LEMMA MoveTyped ==
    ASSUME conn \in [Connections -> Conn], NEW c \in Connections, NEW pc \in Pcs,
           Become(c, pc) \/ Open(c, pc) \/ Close(c)
    PROVE  conn' \in [Connections -> Conn]
  <1>1. PICK q \in Pcs, ch \in Channels :
               conn' = [conn EXCEPT ![c] = [conn[c] EXCEPT !.pc = q, !.channel = ch]]
    <2>1. CASE Become(c, pc)
      <3>1. conn[c] \in Conn
        OBVIOUS
      <3>2. [conn[c] EXCEPT !.pc = pc] = [conn[c] EXCEPT !.pc = pc, !.channel = conn[c].channel]
        BY <3>1 DEF Conn
      <3>3. conn[c].channel \in Channels
        BY <3>1 DEF Conn
      <3>4. conn' = [conn EXCEPT ![c] = [conn[c] EXCEPT !.pc = pc, !.channel = conn[c].channel]]
        BY <2>1, <3>2 DEF Become
      <3> QED
        BY <3>3, <3>4
    <2>2. CASE Open(c, pc)
      BY <2>2 DEF Open, Channels
    <2>3. CASE Close(c)
      BY <2>3 DEF Close, Ended, Channels, Pcs
    <2> QED
      BY <2>1, <2>2, <2>3
  <1>2. [conn[c] EXCEPT !.pc = q, !.channel = ch] \in Conn
    BY DEF Conn
  <1> QED
    BY <1>1, <1>2

\* Every step leaves connections connections.
LEMMA ConnStep ==
    ASSUME TypeOK, Next
    PROVE  conn' \in [Connections -> Conn]
  <1>0. conn \in [Connections -> Conn]
    BY DEF TypeOK, Conn, Channels, Pcs
  <1>1. ASSUME NEW t \in Tunnels, NEW c \in Connections, Accept(t, c)
        PROVE  conn' \in [Connections -> Conn]
    <2>1. PICK pc \in Pcs : conn' = [conn EXCEPT ![c] = [conn[c] EXCEPT !.tunnel = t, !.pc = pc]]
      BY <1>1 DEF Accept, Pcs
    <2>2. [conn[c] EXCEPT !.tunnel = t, !.pc = pc] \in Conn
      BY <1>0 DEF Conn
    <2> QED
      BY <1>0, <2>1, <2>2
  <1>2. ASSUME NEW t \in Tunnels, NEW c \in Connections, Forwarded(t, c)
        PROVE  conn' \in [Connections -> Conn]
    <2>1. conn' = [conn EXCEPT ![c] = [conn[c] EXCEPT !.tunnel = t, !.pc = "dialling",
                                                      !.channel = "open"]]
      BY <1>2 DEF Forwarded
    <2>2. [conn[c] EXCEPT !.tunnel = t, !.pc = "dialling", !.channel = "open"] \in Conn
      BY <1>0 DEF Conn, Channels, Pcs
    <2> QED
      BY <1>0, <2>1, <2>2
  <1>3. ASSUME NEW c \in Connections,
               Dialled(c) \/ Opened(c) \/ Refused(c) \/ HangUp(c) \/ Reap(c)
        PROVE  conn' \in [Connections -> Conn]
    BY <1>0, <1>3, MoveTyped DEF Dialled, Opened, Refused, HangUp, Reap, Pcs
  <1>4. ASSUME NEW c \in Connections, Reply(c)
        PROVE  conn' \in [Connections -> Conn]
    BY <1>0, <1>4, SendTyped DEF Reply, Pcs, Replies
  <1>5. ASSUME NEW c \in Connections, NEW noAuth \in BOOLEAN, Greeting(c, noAuth)
        PROVE  conn' \in [Connections -> Conn]
    BY <1>0, <1>5, SendTyped DEF Greeting, Pcs, Replies
  <1>6. ASSUME NEW c \in Connections, NEW supported \in BOOLEAN, Request(c, supported)
        PROVE  conn' \in [Connections -> Conn]
    BY <1>0, <1>6, MoveTyped, SendTyped DEF Request, Pcs, Replies
  <1>7. ASSUME NEW t \in Tunnels, conn' = EndChannels(t)
        PROVE  conn' \in [Connections -> Conn]
    <2>1. ASSUME NEW c \in Connections PROVE [conn[c] EXCEPT !.channel = Ended(@)] \in Conn
      <3>1. Ended(conn[c].channel) \in Channels
        BY DEF Ended, Channels
      <3> QED
        BY <1>0, <3>1 DEF Conn
    <2> QED
      BY <1>0, <1>7, <2>1 DEF EndChannels
  <1>8. ASSUME NEW t \in Tunnels,
               \/ StartCall(t) \/ Task(t) \/ StartReverse(t) \/ Rejected(t) \/ Stop(t) \/ SshCloses(t)
               \/ \E p \in Ports : StartLocal(t, p) \/ StartBusy(t, p)
        PROVE  conn' = conn \/ conn' = EndChannels(t)
    BY <1>8 DEF StartCall, Task, Connected, StartFails, Register, Insert, ServerListens,
                LivenessTick, Unlist, AbortTakes, HandleDropped, StartReverse, Rejected,
                Stop, SshCloses, StartLocal, StartBusy
  <1> QED
    BY <1>0, <1>1, <1>2, <1>3, <1>4, <1>5, <1>6, <1>7, <1>8 DEF Next, Handshake

-----------------------------------------------------------------------------
(* The invariant.                                                           *)

\* Where the call and the task of a tunnel are, and whether it is listed: the
\* call that inserts it holds the lock, so that the task cannot have unlisted
\* it before; afterwards it is listed until it is stopped or over.
Phases ==
    \A t \in Tunnels :
        /\ call[t] \in {"idle", "connecting", "asking", "ready", "failed"} =>
             task[t] = "none" /\ t \notin ACTIVE /\ t \notin aborted
        /\ call[t] = "inserting" =>
             task[t] \in {"serving", "ending"} /\ t \notin ACTIVE /\ t \notin aborted
        /\ call[t] = "returned" =>
             /\ task[t] # "none"
             /\ IF t \in ACTIVE THEN task[t] # "done" /\ t \notin aborted
                                ELSE task[t] = "done" \/ t \in aborted
        /\ call[t] = "asking" => kind[t] = "reverse"
        /\ call[t] \in {"idle", "connecting"} => ssh[t] = "none"

\* Who listens: a local tunnel from the start of its call, a remote one only
\* as long as its SSH connection is up, and neither once serve has returned.
Listeners ==
    \A t \in Tunnels, p \in Ports :
        Listens(t, p) =>
            /\ call[t] \in {"connecting", "ready", "inserting", "returned"}
            /\ kind[t] = "reverse" => ssh[t] = "up"
            /\ task[t] # "ending"
            /\ task[t] = "done" => kind[t] = "reverse" /\ t \in aborted

TunnelInv == TypeOK /\ Phases /\ Listeners

TunnelStep(t) ==
    \/ StartCall(t) \/ Task(t) \/ StartReverse(t) \/ Rejected(t) \/ Stop(t) \/ SshCloses(t)
    \/ \E p \in Ports : StartLocal(t, p) \/ StartBusy(t, p)

\* A step is a tunnel's, or a connection's that leaves every tunnel alone.
LEMMA StepKinds ==
    ASSUME Next
    PROVE  (\E t \in Tunnels : TunnelStep(t)) \/ UNCHANGED tunnelVars
  BY DEF Next, TunnelStep, Handshake, Accept, Forwarded, Dialled, Greeting, Opened,
         Refused, Reply, Request, HangUp, Reap, Only, tunnelVars

\* What a tunnel's step may do to the listeners: none, release its own, or
\* bind a free port for itself.
LEMMA BoundStep ==
    ASSUME NEW t \in Tunnels, TunnelStep(t)
    PROVE  /\ kind' = kind
           /\ bound' = bound \/ bound' = Release(t) \/ \E p \in Ports : bound' = Bind(t, p)
  BY DEF TunnelStep, StartCall, Task, Connected, StartFails, Register, Insert, ServerListens,
         LivenessTick, Unlist, AbortTakes, HandleDropped, StartReverse, Rejected,
         Stop, SshCloses, StartLocal, StartBusy

\* The types are inductive, the lock with the call that holds it.
LEMMA TypeStep ==
    ASSUME TypeOK, [Next]_vars
    PROVE  TypeOK'
  <1>1. CASE UNCHANGED vars
    BY <1>1 DEF vars, TypeOK
  <1>2. CASE Next
    <2>1. conn' \in [Connections -> Conn]
      BY <1>2, ConnStep
    <2>2. CASE UNCHANGED tunnelVars
      BY <2>1, <2>2 DEF tunnelVars, TypeOK, Conn, Channels, Pcs
    <2>3. ASSUME NEW t \in Tunnels, TunnelStep(t) PROVE TypeOK'
      <3>1. bound' \in [{"local", "server"} -> [Ports -> Tunnels \cup {None}]] /\ kind' = kind
        BY <2>3, BoundStep, ReleaseOnly, BindOnly DEF TypeOK
      <3>2. /\ call' \in [Tunnels -> {"idle", "connecting", "asking", "ready", "inserting",
                                      "returned", "failed"}]
            /\ task' \in [Tunnels -> {"none", "serving", "ending", "done"}]
            /\ aborted' \subseteq Tunnels /\ ACTIVE' \subseteq Tunnels
            /\ lock' \in Tunnels \cup {None}
            /\ ssh' \in [Tunnels -> {"none", "up", "closed"}]
        BY <2>3 DEF TypeOK, TunnelStep, StartCall, Task, Connected, StartFails, Register, Insert,
                    ServerListens, LivenessTick, Unlist, AbortTakes, HandleDropped, StartReverse,
                    Rejected, Stop, SshCloses, StartLocal, StartBusy
      <3>3. \A u \in Tunnels : lock' = u <=> call'[u] = "inserting"
        BY <2>3, PortForwardAssumption
           DEF TypeOK, TunnelStep, StartCall, Task, Connected, StartFails, Register, Insert,
               ServerListens, LivenessTick, Unlist, AbortTakes, HandleDropped, StartReverse,
               Rejected, Stop, SshCloses, StartLocal, StartBusy
      <3> QED
        BY <2>1, <3>1, <3>2, <3>3 DEF TypeOK, Conn, Channels, Pcs
    <2> QED
      BY <1>2, <2>2, <2>3, StepKinds
  <1> QED
    BY <1>1, <1>2

\* Calls, tasks and the list move together.
LEMMA PhasesStep ==
    ASSUME TunnelInv, [Next]_vars
    PROVE  Phases'
  <1>1. CASE UNCHANGED tunnelVars
    BY <1>1 DEF tunnelVars, TunnelInv, Phases
  <1>2. ASSUME NEW t \in Tunnels, StartCall(t) \/ StartReverse(t) \/ Rejected(t)
                                  \/ \E p \in Ports : StartLocal(t, p) \/ StartBusy(t, p)
        PROVE  Phases'
    BY <1>2 DEF TunnelInv, TypeOK, Phases, StartCall, Connected, StartFails, Register, Insert,
                ServerListens, StartReverse, Rejected, StartLocal, StartBusy
  <1>3. ASSUME NEW t \in Tunnels, Task(t)
        PROVE  Phases'
    BY <1>3, PortForwardAssumption DEF TunnelInv, TypeOK, Phases, Task, LivenessTick, Unlist,
                AbortTakes, HandleDropped
  <1>4. ASSUME NEW t \in Tunnels, Stop(t) \/ SshCloses(t)
        PROVE  Phases'
    BY <1>4, PortForwardAssumption DEF TunnelInv, TypeOK, Phases, Stop, SshCloses
  <1> QED
    BY <1>1, <1>2, <1>3, <1>4, StepKinds DEF TunnelStep, tunnelVars, vars

\* Nobody starts to listen but for a call, and who stops serving stops
\* listening; a remote listener goes with its SSH connection.
LEMMA ListenersStep ==
    ASSUME TunnelInv, [Next]_vars
    PROVE  Listeners'
  <1>1. CASE UNCHANGED tunnelVars
    BY <1>1 DEF tunnelVars, TunnelInv, Listeners, Listens, Side
  <1>2. ASSUME NEW t \in Tunnels, TunnelStep(t), bound' = bound
        PROVE  Listeners'
    <2>1. \A u \in Tunnels, p \in Ports : Listens(u, p)' <=> Listens(u, p)
      BY <1>2, BoundStep DEF Listens, Side
    <2>2. ASSUME NEW u \in Tunnels, NEW p \in Ports, Listens(u, p)
          PROVE  /\ call'[u] \in {"connecting", "ready", "inserting", "returned"}
                 /\ kind'[u] = "reverse" => ssh'[u] = "up"
                 /\ task'[u] # "ending"
                 /\ task'[u] = "done" => kind'[u] = "reverse" /\ u \in aborted'
      <3>1. CASE StartCall(t) \/ StartReverse(t) \/ Rejected(t)
                 \/ \E q \in Ports : StartLocal(t, q) \/ StartBusy(t, q)
        BY <1>2, <2>1, <2>2, <3>1, ReleaseOnly
           DEF TunnelInv, TypeOK, Phases, Listeners, StartCall, Connected,
               StartFails, Register, Insert, ServerListens, StartReverse, Rejected, StartLocal,
               StartBusy
      <3>2. CASE Task(t) \/ Stop(t) \/ SshCloses(t)
        BY <1>2, <2>1, <2>2, <3>2, ReleaseOnly
           DEF TunnelInv, TypeOK, Phases, Listeners, Task, LivenessTick,
               Unlist, AbortTakes, HandleDropped, Stop, SshCloses
      <3> QED
        BY <1>2, <3>1, <3>2 DEF TunnelStep
    <2> QED
      BY <2>1, <2>2 DEF Listeners
  <1>3. ASSUME NEW t \in Tunnels, TunnelStep(t), bound' = Release(t)
        PROVE  Listeners'
    <2>1. \A u \in Tunnels, p \in Ports : Listens(u, p)' => Listens(u, p) /\ u # t
      BY <1>3, BoundStep, ReleaseOnly DEF TunnelInv
    <2>2. ASSUME NEW u \in Tunnels, u # t
          PROVE  /\ call'[u] = call[u] /\ kind'[u] = kind[u] /\ ssh'[u] = ssh[u]
                 /\ task'[u] = task[u] /\ (u \in aborted => u \in aborted')
      BY <1>3, <2>2 DEF TunnelInv, TypeOK, TunnelStep, StartCall, Task, Connected, StartFails,
             Register, Insert, ServerListens, LivenessTick, Unlist, AbortTakes, HandleDropped,
             StartReverse, Rejected, Stop, SshCloses, StartLocal, StartBusy
    <2> QED
      BY <2>1, <2>2 DEF Listeners, TunnelInv
  <1>4. ASSUME NEW t \in Tunnels, NEW p \in Ports, StartLocal(t, p) \/ ServerListens(t, p)
        PROVE  Listeners'
    <2>1. \A u \in Tunnels, q \in Ports : Listens(u, q)' => Listens(u, q) \/ u = t
      BY <1>4, BindOnly DEF TunnelInv, StartLocal, ServerListens
    <2>2. /\ call'[t] \in {"connecting", "ready"} /\ task'[t] = "none"
          /\ kind'[t] = "reverse" => ssh'[t] = "up"
      BY <1>4 DEF TunnelInv, TypeOK, Phases, StartLocal, ServerListens
    <2>3. ASSUME NEW u \in Tunnels, u # t
          PROVE  /\ call'[u] = call[u] /\ kind'[u] = kind[u] /\ ssh'[u] = ssh[u]
                 /\ task'[u] = task[u] /\ aborted' = aborted
      BY <1>4, <2>3 DEF TunnelInv, TypeOK, StartLocal, ServerListens
    <2> QED
      BY <2>1, <2>2, <2>3 DEF Listeners, TunnelInv
  <1>5. ASSUME NEW t \in Tunnels, TunnelStep(t)
        PROVE  \/ bound' = bound \/ bound' = Release(t)
               \/ \E p \in Ports : StartLocal(t, p) \/ ServerListens(t, p)
    BY <1>5 DEF TunnelStep, StartCall, Task, Connected, StartFails, Register, Insert,
                LivenessTick, Unlist, AbortTakes, HandleDropped, StartReverse, Rejected,
                Stop, SshCloses, StartBusy
  <1> QED
    BY <1>1, <1>2, <1>3, <1>4, <1>5, StepKinds DEF tunnelVars, vars

\* TunnelInv is inductive.
LEMMA TunnelInvariant == Spec => []TunnelInv
  <1>1. Init => TunnelInv
    BY PortForwardAssumption DEF Init, TunnelInv, TypeOK, Phases, Listeners, Listens, Side, Kinds,
        Unused, Replies
  <1>2. TunnelInv /\ [Next]_vars => TunnelInv'
    BY TypeStep, PhasesStep, ListenersStep DEF TunnelInv
  <1> QED
    BY <1>1, <1>2, PTL DEF Spec

\* Every reachable state has its type, and ACTIVE's lock is held exactly by the
\* call of register that is inserting its tunnel.
THEOREM TypeCorrect == Spec => []TypeOK
  <1>1. TunnelInv => TypeOK
    BY DEF TunnelInv
  <1> QED
    BY <1>1, TunnelInvariant, PTL

\* Whoever listens can be stopped or is about to stop, for any number of
\* tunnels, however starts, stops and lost SSH connections interleave.
THEOREM NoTunnelHidden == Spec => []NoHiddenTunnel
  <1>1. TunnelInv => NoHiddenTunnel
    BY DEF TunnelInv, TypeOK, Phases, Listeners, NoHiddenTunnel, ActiveLocalForwards
  <1> QED
    BY <1>1, TunnelInvariant, PTL

\* A tunnel in ACTIVE has a task that is not over: since register inserts under
\* the lock it took before the spawn, a task that ends at once cannot unlist
\* itself too early.
THEOREM ListedTunnelsRun == Spec => []ListedRuns
  <1>1. TunnelInv => ListedRuns
    BY DEF TunnelInv, TypeOK, Phases, ListedRuns, ActiveLocalForwards
  <1> QED
    BY <1>1, TunnelInvariant, PTL

-----------------------------------------------------------------------------
(* What SOCKS clients are told.                                             *)

\* What a connection r was sent and what became of its channel, by where it
\* is, and whose it is.
Conversation(r) ==
    /\ r.pc # "unused" => /\ r.tunnel \in Tunnels
                          /\ call[r.tunnel] \in {"ready", "inserting", "returned"}
    /\ r.pc \in {"unused", "greeting", "dialling"} => r.sent = <<>>
    /\ r.pc \in {"greeting", "request", "accepting", "refusing"} => kind[r.tunnel] = "socks"
    /\ r.pc = "dialling" => kind[r.tunnel] = "reverse"
    /\ r.pc \in {"request", "accepting", "refusing"} => r.sent = <<"method">>
    /\ r.pc = "opening" => r.sent = IF kind[r.tunnel] = "socks" THEN <<"method">> ELSE <<>>
    /\ r.pc \in {"unused", "greeting", "request", "opening", "refusing"} => r.channel = "none"
    /\ r.pc = "accepting" => r.channel # "none"
    /\ r.sent \in {<<>>, <<"no method">>, <<"method">>} \cup {<<"method", o>> : o \in Outcomes}
    /\ r.sent = <<"method", "succeeded">> => r.channel # "none" /\ r.pc \in {"copying", "closed"}
    /\ r.sent = <<"method", "refused">> => r.channel = "none" /\ r.pc = "closed"
    /\ r.pc = "copying" /\ kind[r.tunnel] = "socks" => r.sent = <<"method", "succeeded">>
    /\ r.channel = "open" => ssh[r.tunnel] = "up"

ForwardInv == TunnelInv /\ \A c \in Connections : Conversation(conn[c])

\* What appending to a sequence of one element gives.
LEMMA AppendSecond ==
    ASSUME NEW S, NEW m \in S, NEW r \in S
    PROVE  Append(<<m>>, r) = <<m, r>>
  <1>0. <<m>> \in Seq(S)
    OBVIOUS
  <1>1. Append(<<m>>, r) \in Seq(S) /\ Len(Append(<<m>>, r)) = 2
    BY <1>0, AppendProperties
  <1>2. Append(<<m>>, r)[1] = m /\ Append(<<m>>, r)[2] = r
    BY <1>0, AppendProperties
  <1>3. <<m, r>> \in Seq(S) /\ Len(<<m, r>>) = 2 /\ <<m, r>>[1] = m /\ <<m, r>>[2] = r
    OBVIOUS
  <1>4. \A i \in 1 .. 2 : Append(<<m>>, r)[i] = <<m, r>>[i]
    BY <1>2, <1>3
  <1> QED
    BY <1>1, <1>3, <1>4, SeqEqual

\* A reply is added to nothing, or to the chosen method.
LEMMA Replying ==
    /\ \A r \in Replies : Append(<<>>, r) = <<r>> /\ Append(<<"method">>, r) = <<"method", r>>
    /\ \A r : <<"method", r>> \notin {<<>>, <<"method">>, <<"no method">>}
    /\ \A q, r : q # r => <<"method", q>> # <<"method", r>>
  <1>0. "method" \in Replies
    BY DEF Replies
  <1>1. \A r \in Replies : Append(<<"method">>, r) = <<"method", r>>
    BY <1>0, AppendSecond
  <1>2. \A r \in Replies : Append(<<>>, r) = <<r>>
    OBVIOUS
  <1>3. /\ \A r : Len(<<"method", r>>) = 2
        /\ Len(<<>>) = 0 /\ Len(<<"method">>) = 1 /\ Len(<<"no method">>) = 1
    OBVIOUS
  <1>4. \A r : <<"method", r>>[2] = r
    OBVIOUS
  <1> QED
    BY <1>1, <1>2, <1>3, <1>4

\* A tunnel's step changes of a connection at most its channel, which is
\* closed with the SSH connection.
LEMMA TunnelKeeps ==
    ASSUME ForwardInv, NEW t \in Tunnels, TunnelStep(t), NEW c \in Connections
    PROVE  Conversation(conn[c])'
  <1> DEFINE r == conn[c]
             s == conn'[c]
  <1>0. kind' = kind /\ r \in Conn /\ Conversation(r)
    BY BoundStep DEF ForwardInv, TunnelInv, TypeOK, Conn, Channels, Pcs
  <1>1. conn' = conn \/ conn' = EndChannels(t)
    BY DEF TunnelStep, StartCall, Task, Connected, StartFails, Register, Insert, ServerListens,
           LivenessTick, Unlist, AbortTakes, HandleDropped, StartReverse, Rejected,
           Stop, SshCloses, StartLocal, StartBusy
  <1>2. /\ s.pc = r.pc /\ s.sent = r.sent /\ s.tunnel = r.tunnel
        /\ s.channel = r.channel \/ s.channel = Ended(r.channel)
    BY <1>0, <1>1 DEF EndChannels, Conn
  <1>5. /\ s.channel = "none" <=> r.channel = "none"
        /\ s.channel = "open" => r.channel = "open"
    BY <1>2 DEF Ended
  <1>3. \A u \in Tunnels : call[u] \in {"ready", "inserting", "returned"} =>
                             call'[u] \in {"ready", "inserting", "returned"}
    BY DEF ForwardInv, TunnelInv, TypeOK, TunnelStep, StartCall, Task, Connected, StartFails,
           Register, Insert, ServerListens, LivenessTick, Unlist, AbortTakes, HandleDropped,
           StartReverse, Rejected, Stop, SshCloses, StartLocal, StartBusy
  <1>4. ASSUME s.channel = "open" PROVE ssh'[s.tunnel] = "up"
    <2>1. r.channel = "open" /\ ssh[r.tunnel] = "up" /\ r.tunnel \in Tunnels
          /\ call[r.tunnel] \in {"ready", "inserting", "returned"}
      BY <1>0, <1>4, <1>5 DEF Conversation
    <2>2. CASE HandleDropped(t) \/ SshCloses(t)
      <3>1. conn' = EndChannels(t) /\ ssh' = [ssh EXCEPT ![t] = "closed"]
        BY <2>2 DEF HandleDropped, SshCloses
      <3>2. r.tunnel # t
        BY <1>0, <1>4, <3>1 DEF EndChannels, Ended, Conn
      <3> QED
        BY <1>2, <2>1, <3>1, <3>2 DEF ForwardInv, TunnelInv, TypeOK
    <2>3. CASE ~(HandleDropped(t) \/ SshCloses(t))
      BY <1>2, <2>1, <2>3 DEF ForwardInv, TunnelInv, TypeOK, TunnelStep, StartCall, Task,
         Connected, StartFails, Register, Insert, ServerListens, LivenessTick, Unlist,
         AbortTakes, StartReverse, Rejected, Stop, StartLocal, StartBusy
    <2> QED
      BY <2>2, <2>3
  <1> QED
    BY <1>0, <1>2, <1>3, <1>4, <1>5 DEF Conversation

\* A connection that starts belongs to a tunnel that serves, or whose server
\* listens.
LEMMA StartsSound ==
    ASSUME ForwardInv, NEW t \in Tunnels, NEW c \in Connections,
           Accept(t, c) \/ Forwarded(t, c)
    PROVE  Conversation(conn[c])'
  <1> DEFINE r == conn[c]
             s == conn'[c]
  <1>0. r \in Conn /\ Conversation(r) /\ r.pc = "unused" /\ c \in DOMAIN conn
    BY DEF ForwardInv, TunnelInv, TypeOK, Conn, Channels, Pcs, Accept, Forwarded
  <1>1. kind' = kind /\ call' = call /\ ssh' = ssh
    BY DEF Accept, Forwarded, Only
  <1>2. CASE Accept(t, c)
    <2>1. s = [r EXCEPT !.tunnel = t, !.pc = IF kind[t] = "socks" THEN "greeting" ELSE "opening"]
      BY <1>0, <1>2 DEF Accept
    <2>2. /\ s.tunnel = t /\ s.sent = <<>> /\ s.channel = "none"
          /\ s.pc = IF kind[t] = "socks" THEN "greeting" ELSE "opening"
      BY <1>0, <2>1 DEF Conn, Conversation
    <2>3. call[t] \in {"inserting", "returned"}
      BY <1>2 DEF Accept, ForwardInv, TunnelInv, TypeOK, Phases
    <2> QED
      BY <1>1, <2>2, <2>3, Replying DEF Conversation
  <1>3. CASE Forwarded(t, c)
    <2>1. s = [r EXCEPT !.tunnel = t, !.pc = "dialling", !.channel = "open"]
      BY <1>0, <1>3 DEF Forwarded
    <2>2. s.tunnel = t /\ s.sent = <<>> /\ s.channel = "open" /\ s.pc = "dialling"
      BY <1>0, <2>1 DEF Conn, Conversation
    <2>3. kind[t] = "reverse" /\ ssh[t] = "up" /\ call[t] \in {"ready", "inserting", "returned"}
      BY <1>3 DEF Forwarded, ForwardInv, TunnelInv, TypeOK, Phases, Listeners
    <2> QED
      BY <1>1, <2>2, <2>3, Replying DEF Conversation
  <1> QED
    BY <1>2, <1>3

\* A connection's own step keeps its conversation.
LEMMA TalkSound ==
    ASSUME ForwardInv, NEW c \in Connections, Handshake(c) \/ HangUp(c) \/ Reap(c)
    PROVE  Conversation(conn[c])'
  <1> DEFINE r == conn[c]
             s == conn'[c]
  <1>0. r \in Conn /\ Conversation(r) /\ c \in DOMAIN conn
    BY DEF ForwardInv, TunnelInv, TypeOK, Conn, Channels, Pcs
  <1>1. kind' = kind /\ call' = call /\ ssh' = ssh
    BY DEF Handshake, HangUp, Reap, Dialled, Greeting, Opened, Refused, Reply, Request, Only
  <1>2. ASSUME NEW pc \in Pcs, Become(c, pc)
        PROVE  s.pc = pc /\ s.sent = r.sent /\ s.tunnel = r.tunnel /\ s.channel = r.channel
    <2>1. s = [r EXCEPT !.pc = pc]
      BY <1>0, <1>2 DEF Become
    <2> QED
      BY <1>0, <2>1 DEF Conn
  <1>3. ASSUME NEW pc \in Pcs, NEW o \in Replies, Send(c, o, pc)
        PROVE  /\ s.pc = pc /\ s.sent = Append(r.sent, o) /\ s.tunnel = r.tunnel
               /\ s.channel = r.channel
    <2>1. s = [r EXCEPT !.pc = pc, !.sent = Append(@, o)]
      BY <1>0, <1>3 DEF Send
    <2> QED
      BY <1>0, <2>1 DEF Conn
  <1>4. CASE HangUp(c) \/ Reap(c)
    <2>1. s = [r EXCEPT !.pc = "closed", !.channel = Ended(@)]
      BY <1>0, <1>4 DEF HangUp, Reap, Close
    <2>2. /\ s.pc = "closed" /\ s.sent = r.sent /\ s.tunnel = r.tunnel
          /\ s.channel = "none" <=> r.channel = "none"
          /\ s.channel # "open"
      BY <1>0, <2>1 DEF Conn, Ended
    <2>3. r.pc \notin {"unused", "closed"}
      BY <1>4 DEF HangUp, Reap, Alive
    <2> QED
      BY <1>0, <1>1, <2>2, <2>3 DEF Conversation
  <1>5. CASE Dialled(c)
    BY <1>0, <1>1, <1>2, <1>5, Replying DEF Dialled, Pcs, Conversation
  <1>6. CASE Opened(c)
    <2>1. s = [r EXCEPT !.pc = IF Socks(c) THEN "accepting" ELSE "copying", !.channel = "open"]
      BY <1>0, <1>6 DEF Opened, Open
    <2>2. /\ s.pc = IF Socks(c) THEN "accepting" ELSE "copying"
          /\ s.sent = r.sent /\ s.tunnel = r.tunnel /\ s.channel = "open"
      BY <1>0, <2>1 DEF Conn
    <2>3. r.pc = "opening" /\ ssh[r.tunnel] = "up"
      BY <1>6 DEF Opened
    <2> QED
      BY <1>0, <1>1, <2>2, <2>3, Replying DEF Socks, Conversation
  <1>7. CASE Refused(c)
    BY <1>0, <1>1, <1>2, <1>7, Replying DEF Refused, Socks, Pcs, Conversation
  <1>8. CASE Reply(c)
    <2>1. CASE r.pc = "accepting" /\ Send(c, "succeeded", "copying")
      <3>1. "succeeded" \in Replies /\ "succeeded" \in Outcomes /\ "copying" \in Pcs
        BY DEF Replies, Outcomes, Pcs
      <3>2. /\ s.pc = "copying" /\ s.sent = <<"method", "succeeded">> /\ s.tunnel = r.tunnel
            /\ s.channel = r.channel /\ r.channel # "none"
        BY <1>0, <1>3, <2>1, <3>1, Replying DEF Conversation
      <3>3. s.sent # <<"method", "refused">>
        BY <3>2, Replying
      <3> QED
        BY <1>0, <1>1, <2>1, <3>1, <3>2, <3>3 DEF Conversation
    <2>2. CASE r.pc = "refusing" /\ Send(c, "refused", "closed")
      <3>1. "refused" \in Replies /\ "refused" \in Outcomes /\ "closed" \in Pcs
        BY DEF Replies, Outcomes, Pcs
      <3>2. /\ s.pc = "closed" /\ s.sent = <<"method", "refused">> /\ s.tunnel = r.tunnel
            /\ s.channel = r.channel /\ r.channel = "none"
        BY <1>0, <1>3, <2>2, <3>1, Replying DEF Conversation
      <3>3. s.sent # <<"method", "succeeded">>
        BY <3>2, Replying
      <3> QED
        BY <1>0, <1>1, <2>2, <3>1, <3>2, <3>3 DEF Conversation
    <2> QED
      BY <1>8, <2>1, <2>2 DEF Reply
  <1>9. ASSUME NEW noAuth \in BOOLEAN, Greeting(c, noAuth)
        PROVE  Conversation(conn[c])'
    BY <1>0, <1>1, <1>3, <1>9, Replying DEF Greeting, Pcs, Replies, Conversation
  <1>10. ASSUME NEW supported \in BOOLEAN, Request(c, supported)
         PROVE  Conversation(conn[c])'
    <2>1. CASE Become(c, "opening")
      BY <1>0, <1>1, <1>2, <1>10, <2>1 DEF Request, Pcs, Conversation
    <2>2. CASE Send(c, "unsupported", "closed")
      <3>1. r.pc = "request" /\ r.sent = <<"method">> /\ r.channel = "none"
        BY <1>0, <1>10 DEF Request, Conversation
      <3>2. "unsupported" \in Replies /\ "unsupported" \in Outcomes /\ "closed" \in Pcs
        BY DEF Replies, Outcomes, Pcs
      <3>3. /\ s.pc = "closed" /\ s.sent = <<"method", "unsupported">> /\ s.tunnel = r.tunnel
            /\ s.channel = "none"
        BY <1>3, <2>2, <3>1, <3>2, Replying
      <3>4. s.sent # <<"method", "succeeded">> /\ s.sent # <<"method", "refused">>
        BY <3>3, Replying
      <3> QED
        BY <1>0, <1>1, <3>1, <3>2, <3>3, <3>4 DEF Conversation
    <2> QED
      BY <1>10, <2>1, <2>2 DEF Request
  <1> QED
    BY <1>4, <1>5, <1>6, <1>7, <1>8, <1>9, <1>10 DEF Handshake

\* A step of one connection leaves the others where they are.
LEMMA OtherConnections ==
    ASSUME TypeOK, NEW c \in Connections,
           \/ \E t \in Tunnels : Accept(t, c) \/ Forwarded(t, c)
           \/ Handshake(c) \/ HangUp(c) \/ Reap(c)
    PROVE  UNCHANGED tunnelVars /\ \A d \in Connections \ {c} : conn'[d] = conn[d]
  BY DEF TypeOK, Handshake, Accept, Forwarded, Dialled, Greeting, Opened, Refused, Reply,
         Request, HangUp, Reap, Become, Send, Open, Close, Only, tunnelVars

\* What a SOCKS client hears is sound, for any number of clients and tunnels,
\* and whatever ends between the opening of its channel and the reply: one
\* method, at most one outcome, and that of its channel.
THEOREM SocksRepliesSound == Spec => []SocksSound
  <1>1. Init /\ TunnelInv => ForwardInv
    <2>1. Conversation(Unused)
      <3> DEFINE r == Unused
      <3>1. r.pc = "unused" /\ r.sent = <<>> /\ r.channel = "none"
        BY DEF Unused
      <3> HIDE DEF r
      <3>2. Conversation(r)
        BY <3>1, Replying DEF Conversation
      <3> QED
        BY <3>2 DEF r
    <2> QED
      BY <2>1 DEF Init, ForwardInv
  <1>2. ASSUME ForwardInv, [Next]_vars, TunnelInv'
        PROVE  ForwardInv'
    <2>1. CASE UNCHANGED vars
      BY <1>2, <2>1 DEF vars, ForwardInv, Conversation
    <2>2. ASSUME NEW t \in Tunnels, TunnelStep(t) PROVE ForwardInv'
      BY <1>2, <2>2, TunnelKeeps DEF ForwardInv
    <2>3. ASSUME NEW c \in Connections,
                 \/ \E t \in Tunnels : Accept(t, c) \/ Forwarded(t, c)
                 \/ Handshake(c) \/ HangUp(c) \/ Reap(c)
          PROVE  ForwardInv'
      <3>1. Conversation(conn[c])'
        BY <1>2, <2>3, StartsSound, TalkSound
      <3>2. ASSUME NEW d \in Connections \ {c} PROVE Conversation(conn[d])'
        <4>1. kind' = kind /\ call' = call /\ ssh' = ssh /\ conn'[d] = conn[d]
          BY <1>2, <2>3, OtherConnections DEF ForwardInv, TunnelInv, tunnelVars
        <4>2. Conversation(conn[d])
          BY <1>2 DEF ForwardInv
        <4> QED
          BY <4>1, <4>2 DEF Conversation
      <3> QED
        BY <1>2, <3>1, <3>2 DEF ForwardInv
    <2> QED
      BY <1>2, <2>1, <2>2, <2>3 DEF Next, TunnelStep
  <1>3. ForwardInv => SocksSound
    BY DEF ForwardInv, Conversation, SocksSound, Socks
  <1> QED
    BY <1>1, <1>2, <1>3, TunnelInvariant, PTL DEF Spec
=============================================================================
