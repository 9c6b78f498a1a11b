---------------------------- MODULE PortForward ----------------------------
(* Port forwarding of portix_serv (infrastructure/port_forward.rs, with the  *)
(* bridge functions of api/ssh.rs): local forwards, SOCKS5 proxies and       *)
(* remote forwards, each on an SSH connection of its own.                    *)
(*                                                                           *)
(* A tunnel is one call of a start function, followed by the task that       *)
(* register spawns; the two, the callers of stop, and the connections        *)
(* through the tunnel are concurrent.  ACTIVE's lock is a variable because   *)
(* register holds it while the task it spawned already runs.  The peer, the  *)
(* SSH server and the two users of a connection are external.                *)
EXTENDS Integers, Sequences, FiniteSets

CONSTANTS Tunnels,      \* calls of a start function
          Connections,  \* connections made through the tunnels
          Ports,        \* listening ports, of this machine and of the server
          None

ASSUME PortForwardAssumption == None \notin Tunnels

VARIABLES kind,    \* "fixed", "socks" or "reverse"
          call,    \* where the start call is
          task,    \* where the tunnel's task is
          aborted, \* tunnels whose task was told to abort
          ssh,     \* the tunnel's SSH connection
          bound,   \* who listens on each port, per side
          ACTIVE, lock,
          conn     \* the connections: whose, where, and the replies sent

vars == <<kind, call, task, aborted, ssh, bound, ACTIVE, lock, conn>>

Kinds == {"fixed", "socks", "reverse"}
Side(t) == IF kind[t] = "reverse" THEN "server" ELSE "local"
Listens(t, p) == bound[Side(t)][p] = t

Unused == [tunnel |-> None, pc |-> "unused", sent |-> <<>>, channel |-> "none"]

Init ==
    /\ kind \in [Tunnels -> Kinds]
    /\ call = [t \in Tunnels |-> "idle"]
    /\ task = [t \in Tunnels |-> "none"]
    /\ aborted = {}
    /\ ssh = [t \in Tunnels |-> "none"]
    /\ bound = [side \in {"local", "server"} |-> [p \in Ports |-> None]]
    /\ ACTIVE = {} /\ lock = None
    /\ conn = [c \in Connections |-> Unused]

-----------------------------------------------------------------------------
(* Ports and connections that go with something else.                        *)

\* t no longer listens.
Release(t) == [bound EXCEPT ![Side(t)] = [p \in Ports |-> IF @[p] = t THEN None ELSE @[p]]]

Bind(t, p) == [bound EXCEPT ![Side(t)][p] = t]

\* A connection through t: its task has not ended.
Alive(c) == conn[c].pc \notin {"unused", "closed"}
Through(t) == {c \in Connections : conn[c].tunnel = t /\ Alive(c)}

\* The channels of an SSH connection end with it; what goes on with them, a
\* reply or a copy, goes on until it has nothing more to say.
Ended(channel) == IF channel = "none" THEN "none" ELSE "ended"
EndChannels(t) == [c \in Connections |-> IF conn[c].tunnel = t
                                         THEN [conn[c] EXCEPT !.channel = Ended(@)]
                                         ELSE conn[c]]

-----------------------------------------------------------------------------
(* Starting a tunnel.                                                        *)

\* start_local_forward, start_socks_proxy and start_remote_forward of the
\* bridge: a profile that validate refuses goes no further.
Rejected(t) ==
    /\ call[t] = "idle"
    /\ call' = [call EXCEPT ![t] = "failed"]
    /\ UNCHANGED <<kind, task, aborted, ssh, bound, ACTIVE, lock, conn>>

\* start: the port is bound before the SSH handshake; 0 asks for any that is
\* free, which the choice of p stands for.
StartLocal(t, p) ==
    /\ call[t] = "idle" /\ kind[t] # "reverse"
    /\ bound["local"][p] = None
    /\ call' = [call EXCEPT ![t] = "connecting"]
    /\ bound' = Bind(t, p)
    /\ UNCHANGED <<kind, task, aborted, ssh, ACTIVE, lock, conn>>

StartBusy(t, p) ==
    /\ call[t] = "idle" /\ kind[t] # "reverse"
    /\ bound["local"][p] # None
    /\ call' = [call EXCEPT ![t] = "failed"]
    /\ UNCHANGED <<kind, task, aborted, ssh, bound, ACTIVE, lock, conn>>

\* start_remote_forward connects first.
StartReverse(t) ==
    /\ call[t] = "idle" /\ kind[t] = "reverse"
    /\ call' = [call EXCEPT ![t] = "connecting"]
    /\ UNCHANGED <<kind, task, aborted, ssh, bound, ACTIVE, lock, conn>>

\* Connected and authenticated; a reverse tunnel then asks for its port.
Connected(t) ==
    /\ call[t] = "connecting"
    /\ call' = [call EXCEPT ![t] = IF kind[t] = "reverse" THEN "asking" ELSE "ready"]
    /\ ssh' = [ssh EXCEPT ![t] = "up"]
    /\ UNCHANGED <<kind, task, aborted, bound, ACTIVE, lock, conn>>

\* tcpip_forward: the server listens, on the port asked for or one it picks.
ServerListens(t, p) ==
    /\ call[t] = "asking" /\ ssh[t] = "up"
    /\ bound["server"][p] = None
    /\ call' = [call EXCEPT ![t] = "ready"]
    /\ bound' = Bind(t, p)
    /\ UNCHANGED <<kind, task, aborted, ssh, ACTIVE, lock, conn>>

\* No connection, or the server refuses to listen: the listener and the
\* handle are dropped with the call.
StartFails(t) ==
    /\ call[t] \in {"connecting", "asking"}
    /\ call' = [call EXCEPT ![t] = "failed"]
    /\ ssh' = [ssh EXCEPT ![t] = "closed"]
    /\ bound' = Release(t)
    /\ UNCHANGED <<kind, task, aborted, ACTIVE, lock, conn>>

\* Mutant: the lock is taken after the spawn.
Register_LateLock(t) ==
    /\ call[t] = "ready"
    /\ task' = [task EXCEPT ![t] = "serving"]
    /\ call' = [call EXCEPT ![t] = "inserting"]
    /\ UNCHANGED <<kind, aborted, ssh, bound, ACTIVE, lock, conn>>

\* register: the lock is held across the spawn.
Register(t) ==
    /\ call[t] = "ready"
    /\ lock = None
    /\ lock' = t
    /\ task' = [task EXCEPT ![t] = "serving"]
    /\ call' = [call EXCEPT ![t] = "inserting"]
    /\ UNCHANGED <<kind, aborted, ssh, bound, ACTIVE, conn>>

Insert(t) ==
    /\ call[t] = "inserting"
    /\ ACTIVE' = ACTIVE \cup {t}
    /\ lock' = None
    /\ call' = [call EXCEPT ![t] = "returned"]
    /\ UNCHANGED <<kind, task, aborted, ssh, bound, conn>>

-----------------------------------------------------------------------------
(* The task, and stop_local_forward.                                         *)

\* The tick finds the connection closed and serve returns: its listener is
\* dropped, and its JoinSet, which tells the connections to abort.
LivenessTick(t) ==
    /\ task[t] = "serving" /\ ssh[t] = "closed"
    /\ task' = [task EXCEPT ![t] = "ending"]
    /\ bound' = Release(t)
    /\ UNCHANGED <<kind, call, aborted, ssh, ACTIVE, lock, conn>>

Unlist(t) ==
    /\ task[t] = "ending" /\ lock = None
    /\ ACTIVE' = ACTIVE \ {t}
    /\ task' = [task EXCEPT ![t] = "done"]
    /\ UNCHANGED <<kind, call, aborted, ssh, bound, lock, conn>>

\* Mutant: the tunnel is unlisted and its task runs on.
Stop_NoAbort(t) ==
    /\ lock = None /\ t \in ACTIVE
    /\ ACTIVE' = ACTIVE \ {t}
    /\ UNCHANGED <<kind, call, task, aborted, ssh, bound, lock, conn>>

\* stop_local_forward; an id that is not listed is ignored.
Stop(t) ==
    /\ lock = None /\ t \in ACTIVE
    /\ ACTIVE' = ACTIVE \ {t}
    /\ aborted' = aborted \cup {t}
    /\ UNCHANGED <<kind, call, task, ssh, bound, lock, conn>>

\* list_local_forwards: the tunnels the app shows, each with a stop button.
ActiveLocalForwards == ACTIVE

\* The abort takes effect where the task awaits, which it does only while it
\* serves: listener, JoinSet and handle are dropped.
AbortTakes(t) ==
    /\ t \in aborted /\ task[t] = "serving"
    /\ task' = [task EXCEPT ![t] = "done"]
    /\ bound' = IF kind[t] = "reverse" THEN bound ELSE Release(t)
    /\ UNCHANGED <<kind, call, aborted, ssh, ACTIVE, lock, conn>>

\* The SSH connection closes when its last handle is dropped; a connection
\* through a local tunnel holds one.  The server stops listening.
HandleDropped(t) ==
    /\ ssh[t] = "up" /\ task[t] = "done"
    /\ kind[t] = "reverse" \/ Through(t) = {}
    /\ ssh' = [ssh EXCEPT ![t] = "closed"]
    /\ bound' = Release(t)
    /\ conn' = EndChannels(t)
    /\ UNCHANGED <<kind, call, task, aborted, ACTIVE, lock>>

\* The network or the server ends the SSH connection; the server stops
\* listening for it and its channels end.
SshCloses(t) ==
    /\ ssh[t] = "up" /\ call[t] # "asking"
    /\ ssh' = [ssh EXCEPT ![t] = "closed"]
    /\ bound' = IF kind[t] = "reverse" THEN Release(t) ELSE bound
    /\ conn' = EndChannels(t)
    /\ UNCHANGED <<kind, call, task, aborted, ACTIVE, lock>>

-----------------------------------------------------------------------------
(* Connections.                                                              *)

Become(c, pc) == conn' = [conn EXCEPT ![c].pc = pc]
Send(c, reply, pc) == conn' = [conn EXCEPT ![c].pc = pc, ![c].sent = Append(@, reply)]
Open(c, pc) == conn' = [conn EXCEPT ![c].pc = pc, ![c].channel = "open"]
Close(c) == conn' = [conn EXCEPT ![c].pc = "closed", ![c].channel = Ended(@)]
Only == UNCHANGED <<kind, call, task, aborted, ssh, bound, ACTIVE, lock>>

\* serve takes a connection, also while an abort is on its way.
Accept(t, c) ==
    /\ task[t] = "serving" /\ kind[t] # "reverse"
    /\ conn[c].pc = "unused"
    /\ conn' = [conn EXCEPT ![c].tunnel = t,
                            ![c].pc = IF kind[t] = "socks" THEN "greeting" ELSE "opening"]
    /\ Only

\* A forwarded connection comes from the server as an open channel, which
\* the client handler accepts (server_channel_open_forwarded_tcpip) whether
\* or not the start call has returned.
Forwarded(t, c) ==
    /\ ssh[t] = "up" /\ \E p \in Ports : kind[t] = "reverse" /\ Listens(t, p)
    /\ conn[c].pc = "unused"
    /\ conn' = [conn EXCEPT ![c].tunnel = t, ![c].pc = "dialling", ![c].channel = "open"]
    /\ Only

\* Its other end is dialled from this machine.
Dialled(c) == conn[c].pc = "dialling" /\ Become(c, "copying") /\ Only

\* socks5_request: the greeting is answered with a method, and the request
\* read to its end or refused for its command or address type.
Greeting(c, noAuth) ==
    /\ conn[c].pc = "greeting"
    /\ IF noAuth THEN Send(c, "method", "request") ELSE Send(c, "no method", "closed")
    /\ Only
Request(c, supported) ==
    /\ conn[c].pc = "request"
    /\ IF supported THEN Become(c, "opening") ELSE Send(c, "unsupported", "closed")
    /\ Only

Socks(c) == kind[conn[c].tunnel] = "socks"

\* channel_open_direct_tcpip succeeds; a SOCKS client is still to be told.
Opened(c) ==
    /\ conn[c].pc = "opening"
    /\ ssh[conn[c].tunnel] = "up"
    /\ Open(c, IF Socks(c) THEN "accepting" ELSE "copying")
    /\ Only

\* Mutant: how the channel was opened is looked at only after the reply.
Refused_Unchecked(c) ==
    /\ conn[c].pc = "opening"
    /\ Become(c, IF Socks(c) THEN "accepting" ELSE "closed")
    /\ Only

\* It fails, on a closed connection at once.
Refused(c) ==
    /\ conn[c].pc = "opening"
    /\ Become(c, IF Socks(c) THEN "refusing" ELSE "closed")
    /\ Only

\* socks5_reply: the client takes the outcome.  Its channel is only looked
\* at by the copy that follows, and may have ended in the meantime.
Reply(c) ==
    /\ \/ conn[c].pc = "accepting" /\ Send(c, "succeeded", "copying")
       \/ conn[c].pc = "refusing" /\ Send(c, "refused", "closed")
    /\ Only

\* Either end hangs up: while the request is read or a reply written, or in
\* the middle of the copy.  Another version than 5, a domain name that is not
\* UTF-8 and a target that cannot be dialled end it too, without a reply.
HangUp(c) == Alive(c) /\ Close(c) /\ Only

\* Mutant: connections are spawned on their own, and end with their channel.
Reap_Detached(c) == Alive(c) /\ ssh[conn[c].tunnel] = "closed" /\ Close(c) /\ Only

\* The abort of a connection whose tunnel's JoinSet is gone takes effect.
\* Forwarded connections are in no JoinSet.
Reap(c) ==
    /\ Alive(c) /\ kind[conn[c].tunnel] # "reverse"
    /\ task[conn[c].tunnel] \in {"ending", "done"}
    /\ Close(c)
    /\ Only

Handshake(c) ==
    \/ Dialled(c) \/ Opened(c) \/ Refused(c) \/ Reply(c)
    \/ \E asked \in BOOLEAN : Greeting(c, asked) \/ Request(c, asked)

Task(t) == LivenessTick(t) \/ Unlist(t) \/ AbortTakes(t) \/ HandleDropped(t)
StartCall(t) == \/ Connected(t) \/ StartFails(t) \/ Register(t) \/ Insert(t)
                \/ \E p \in Ports : ServerListens(t, p)

Next ==
    \/ \E t \in Tunnels :
          \/ StartCall(t) \/ Task(t) \/ StartReverse(t) \/ Rejected(t) \/ Stop(t) \/ SshCloses(t)
          \/ \E p \in Ports : StartLocal(t, p) \/ StartBusy(t, p)
          \/ \E c \in Connections : Accept(t, c) \/ Forwarded(t, c)
    \/ \E c \in Connections : Handshake(c) \/ HangUp(c) \/ Reap(c)

Spec == Init /\ [][Next]_vars

\* Connecting has timeouts; a spawned task is run, and its interval ticks.
\* Nothing is assumed of users, of the server or of a client's handshake.
Fairness == /\ \A t \in Tunnels : WF_vars(StartCall(t)) /\ WF_vars(Task(t))
            /\ \A c \in Connections : WF_vars(Reap(c))
FairSpec == Spec /\ Fairness

-----------------------------------------------------------------------------
(* Properties.                                                               *)

Replies == {"method", "no method", "unsupported", "succeeded", "refused"}

\* Every variable has its type, and ACTIVE's lock is held by the call that is
\* inserting and by no other.
TypeOK ==
    /\ kind \in [Tunnels -> Kinds]
    /\ call \in [Tunnels -> {"idle", "connecting", "asking", "ready", "inserting",
                             "returned", "failed"}]
    /\ task \in [Tunnels -> {"none", "serving", "ending", "done"}]
    /\ aborted \subseteq Tunnels /\ ACTIVE \subseteq Tunnels /\ lock \in Tunnels \cup {None}
    /\ \A t \in Tunnels : lock = t <=> call[t] = "inserting"
    /\ ssh \in [Tunnels -> {"none", "up", "closed"}]
    /\ bound \in [{"local", "server"} -> [Ports -> Tunnels \cup {None}]]
    /\ conn \in [Connections -> [tunnel : Tunnels \cup {None},
                                 pc : {"unused", "greeting", "request", "opening", "accepting",
                                       "refusing", "dialling", "copying", "closed"},
                                 sent : Seq(Replies), channel : {"none", "open", "ended"}]]

\* No hidden tunnel: whoever listens is a call that has not returned, a
\* tunnel the app can list and stop, or one that was stopped or whose SSH
\* connection closed and whose task is about to find out.
NoHiddenTunnel ==
    \A t \in Tunnels, p \in Ports :
        Listens(t, p) => \/ call[t] \in {"connecting", "ready", "inserting"}
                         \/ t \in ActiveLocalForwards
                         \/ t \in aborted /\ (task[t] = "serving" \/ ssh[t] = "up")

\* A tunnel whose task is over is not listed, even if it ended while
\* register was still inserting it.
ListedRuns == \A t \in ActiveLocalForwards : task[t] # "done"

\* What a SOCKS client hears is one method and then at most one outcome, the
\* one its channel had: success only if the server opened it, refusal only if
\* it did not, and no byte is copied before success is told.  The channel may
\* be gone when the client hears of it; an open one has its SSH connection.
\* (A client of another version hears nothing, though the comment of
\* socks5_request promises SOCKS4 clients a protocol error reply.)
Outcomes == {"unsupported", "succeeded", "refused"}
SocksSound ==
    \A c \in Connections :
        LET r == conn[c] IN
        /\ r.sent \in {<<>>, <<"no method">>, <<"method">>} \cup {<<"method", o>> : o \in Outcomes}
        /\ r.sent = <<"method", "succeeded">> => r.channel # "none" /\ r.pc \in {"copying", "closed"}
        /\ r.sent = <<"method", "refused">> => r.channel = "none"
        /\ r.pc = "copying" /\ Socks(c) => r.sent = <<"method", "succeeded">>
        /\ r.channel = "open" => ssh[r.tunnel] = "up"

\* Whatever its clients do, a tunnel that was stopped, or whose SSH connection
\* closed, leaves the list and gives back its port; a local tunnel and a SOCKS
\* proxy also end every connection made through them.
Quiet(t) == \A p \in Ports : ~Listens(t, p)
TunnelsEnd ==
    \A t \in Tunnels :
        t \in aborted \/ ssh[t] = "closed" ~>
            /\ t \notin ActiveLocalForwards /\ Quiet(t)
            /\ kind[t] # "reverse" => Through(t) = {}

\* What stop_local_forward says of itself, for a tunnel of any kind: it "stops
\* a tunnel and closes its listener and connections".  The connections of a
\* remote forward are in no JoinSet: they outlive it.
StopClosesConnections ==
    \A t \in Tunnels : t \in aborted ~> Quiet(t) /\ Through(t) = {}

=============================================================================
