------------------------------ MODULE SshSession ------------------------------
(***************************************************************************)
(* The SSH session manager of portix_serv and the runtime task it spawns   *)
(* for every terminal session.                                             *)
(*                                                                         *)
(* SessionManager.connect registers a session, announces it and spawns a   *)
(* task that runs SshRuntime::run.  Every other API call looks the session *)
(* up, clones the sender of its bounded command channel and sends one      *)
(* command; the runtime takes the commands one by one.  Exec commands go   *)
(* on, through a second bounded channel, to the session's exec worker,     *)
(* which answers the caller directly.  When the run ends, the task reports *)
(* an error if there was one, removes the session from the map and only    *)
(* then announces the final status.                                        *)
(*                                                                         *)
(* A caller is one API call in flight: the bridge runs each in a task of   *)
(* its own, so calls interleave with each other and with the runtimes at   *)
(* every await.  Keepalives change no state and are left out; so are       *)
(* calls that return before touching any state (an invalid profile, empty  *)
(* terminal input).                                                        *)
(***************************************************************************)
EXTENDS Naturals, Sequences, FiniteSets, Functions

CONSTANTS
    Sessions,      \* ids connect may hand out (fresh uuids)
    Callers,       \* API calls, each made once
    CommandCap,    \* capacity of a session's command channel (512)
    ExecCap,       \* capacity of its exec channel (64)
    MaxOutput      \* bound: output chunks the server sends per session

ASSUME ConstantsAssumption ==
    /\ CommandCap \in Nat \ {0}
    /\ ExecCap \in Nat \ {0}
    /\ MaxOutput \in Nat

VARIABLES
    sessions,   \* keys of the manager's session map
    task,       \* where each session's spawned task is
    commands,   \* command channel of each session: the callers' commands
    held,       \* the exec request a runtime is waiting to forward, or {}
    execs,      \* exec channel of each session
    worker,     \* state of each session's exec worker
    serving,    \* the request the worker is running, or {}
    platform,   \* remote_platform cache of each session
    events,     \* everything sent on the status, output and error streams
    accepted,   \* history: commands that entered the command channel
    handled,    \* history: commands the runtime took out of it
    op,         \* what each caller is asking for
    sid,        \* the session it asks
    pc,         \* how far its call is
    answer      \* the result it got

managerVars == <<sessions, platform>>
runtimeVars == <<task, commands, held, execs, worker, serving>>
historyVars == <<events, accepted, handled>>
callerVars  == <<op, sid, pc, answer>>
vars == <<managerVars, runtimeVars, historyVars, callerVars>>

\* "detect" and "query" are the two exec rounds of remote_system_snapshot.
Ops == {"input", "resize", "disconnect", "detect", "query"}
ExecOps == {"detect", "query"}
Platforms == {"unknown", "detected"}
FinalEvents == {"disconnected", "error"}
Events == {"connecting", "connected", "output", "error_event"} \cup FinalEvents

\* The task's program points.  The command receiver lives inside run(), so it
\* exists exactly while the task is Receiving.
TaskStates == {"none", "connecting", "running", "forwarding",
               "ended", "failed", "reported", "closing", "failing", "done"}
Receiving(s) == task[s] \in {"connecting", "running", "forwarding"}

\* A session buffers no more than its channels hold, whatever its callers send
\* and however long the server keeps the worker busy.
ChannelsBounded ==
    \A s \in Sessions : Len(commands[s]) <= CommandCap /\ Len(execs[s]) <= ExecCap

\* Every variable has its type, within the capacity of the channels.
TypeOK ==
    /\ sessions \in SUBSET Sessions
    /\ task \in [Sessions -> TaskStates]
    /\ commands \in [Sessions -> Seq(Callers)]
    /\ held \in [Sessions -> SUBSET Callers]
    /\ execs \in [Sessions -> Seq(Callers)]
    /\ worker \in [Sessions -> {"none", "idle", "busy", "exited"}]
    /\ serving \in [Sessions -> SUBSET Callers]
    /\ platform \in [Sessions -> Platforms]
    /\ events \in [Sessions -> Seq(Events)]
    /\ accepted \in [Sessions -> Seq(Callers)]
    /\ handled \in [Sessions -> Seq(Callers)]
    /\ op \in [Callers -> Ops]
    /\ sid \in [Callers -> Sessions]
    /\ pc \in [Callers -> {"idle", "lookup", "sending", "waiting", "answered"}]
    /\ answer \in [Callers -> {"none", "ok", "err"}]
    /\ ChannelsBounded

\* What a caller asks for and of which session is fixed when the call is made;
\* choosing it in the initial state leaves nothing out.  remote_system_snapshot
\* starts as "detect".
Init ==
    /\ sessions = {}
    /\ task = [s \in Sessions |-> "none"]
    /\ commands = [s \in Sessions |-> <<>>]
    /\ held = [s \in Sessions |-> {}]
    /\ execs = [s \in Sessions |-> <<>>]
    /\ worker = [s \in Sessions |-> "none"]
    /\ serving = [s \in Sessions |-> {}]
    /\ platform = [s \in Sessions |-> "unknown"]
    /\ events = [s \in Sessions |-> <<>>]
    /\ accepted = [s \in Sessions |-> <<>>]
    /\ handled = [s \in Sessions |-> <<>>]
    /\ op \in [Callers -> Ops \ {"query"}]
    /\ sid \in [Callers -> Sessions]
    /\ pc = [c \in Callers |-> "idle"]
    /\ answer = [c \in Callers |-> "none"]

-----------------------------------------------------------------------------
(* The session task: connect, and what the task it spawns does.             *)

Emit(s, e) == events' = [events EXCEPT ![s] = Append(@, e)]

\* connect: insert, announce, spawn.  The id is not known to anyone before the
\* announcement, so the three are one step.
Connect(s) ==
    /\ task[s] = "none"
    /\ sessions' = sessions \cup {s}
    /\ Emit(s, "connecting")
    /\ task' = [task EXCEPT ![s] = "connecting"]
    /\ UNCHANGED <<platform, commands, held, execs, worker, serving,
                   accepted, handled, callerVars>>

\* Mutant: the answers of the dropped Exec commands are leaked.
DropReceiver_Leak(s, remaining) ==
    /\ commands' = [commands EXCEPT ![s] = <<>>]
    /\ UNCHANGED <<op, sid, pc, answer>>

\* run() returns: the command receiver is dropped with whatever is still in
\* the channel, and with each dropped Exec its answer sender, which the caller
\* sees as SessionNotFound.
DropReceiver(s, remaining) ==
    /\ commands' = [commands EXCEPT ![s] = <<>>]
    /\ LET dropped == {c \in Range(remaining) : pc[c] = "waiting"}
       IN  /\ pc' = [c \in Callers |-> IF c \in dropped THEN "answered" ELSE pc[c]]
           /\ answer' = [c \in Callers |-> IF c \in dropped THEN "err" ELSE answer[c]]
    /\ UNCHANGED <<op, sid>>

RunReturns(s, how, remaining) ==
    /\ task' = [task EXCEPT ![s] = how]
    /\ DropReceiver(s, remaining)
    /\ UNCHANGED <<managerVars, held, execs, worker, serving, events, accepted>>

\* Mutant: a failed connection attempt is swallowed and ends like a session.
ConnectFails_Swallowed(s) ==
    /\ task[s] = "connecting"
    /\ RunReturns(s, "ended", commands[s])
    /\ UNCHANGED handled

\* Dialling, authentication, the channel, the pty or the shell fails.
ConnectFails(s) ==
    /\ task[s] = "connecting"
    /\ RunReturns(s, "failed", commands[s])
    /\ UNCHANGED handled

\* The shell runs: the exec worker is spawned and Connected announced.
ConnectSucceeds(s) ==
    /\ task[s] = "connecting"
    /\ task' = [task EXCEPT ![s] = "running"]
    /\ worker' = [worker EXCEPT ![s] = "idle"]
    /\ Emit(s, "connected")
    /\ UNCHANGED <<managerVars, commands, held, execs, serving,
                   accepted, handled, callerVars>>

\* The runtime's select takes the next command.
NextCommand(s, ops) ==
    /\ task[s] = "running"
    /\ commands[s] # <<>>
    /\ op[Head(commands[s])] \in ops
    /\ handled' = [handled EXCEPT ![s] = Append(@, Head(commands[s]))]

\* Input and Resize are written to the channel ...
WriteToChannel(s) ==
    /\ NextCommand(s, {"input", "resize"})
    /\ commands' = [commands EXCEPT ![s] = Tail(@)]
    /\ UNCHANGED <<managerVars, task, held, execs, worker, serving,
                   events, accepted, callerVars>>

\* ... or the write fails, which ends the run with an error.
WriteFails(s) ==
    /\ NextCommand(s, {"input", "resize"})
    /\ RunReturns(s, "failed", Tail(commands[s]))

\* Mutant: with the exec channel full the command goes back into the queue.
TakeExec_Requeue(s) ==
    /\ NextCommand(s, ExecOps)
    /\ commands' = [commands EXCEPT ![s] =
                      IF Len(execs[s]) < ExecCap THEN Tail(@)
                      ELSE Append(Tail(@), Head(@))]
    /\ IF Len(execs[s]) < ExecCap
       THEN /\ held' = [held EXCEPT ![s] = {Head(commands[s])}]
            /\ task' = [task EXCEPT ![s] = "forwarding"]
       ELSE UNCHANGED <<held, task>>
    /\ UNCHANGED <<managerVars, execs, worker, serving,
                   events, accepted, callerVars>>

\* Exec: the runtime waits, without looking at anything else, for room in the
\* exec channel.
TakeExec(s) ==
    /\ NextCommand(s, ExecOps)
    /\ commands' = [commands EXCEPT ![s] = Tail(@)]
    /\ held' = [held EXCEPT ![s] = {Head(commands[s])}]
    /\ task' = [task EXCEPT ![s] = "forwarding"]
    /\ UNCHANGED <<managerVars, execs, worker, serving,
                   events, accepted, callerVars>>

ForwardExec(s) ==
    /\ task[s] = "forwarding"
    /\ Len(execs[s]) < ExecCap
    /\ \E c \in held[s] : execs' = [execs EXCEPT ![s] = Append(@, c)]
    /\ held' = [held EXCEPT ![s] = {}]
    /\ task' = [task EXCEPT ![s] = "running"]
    /\ UNCHANGED <<managerVars, commands, worker, serving,
                   historyVars, callerVars>>

\* Mutant: the loop goes on after Disconnect.
HandleDisconnect_NoBreak(s) ==
    /\ NextCommand(s, {"disconnect"})
    /\ commands' = [commands EXCEPT ![s] = Tail(@)]
    /\ UNCHANGED <<managerVars, task, held, execs, worker, serving,
                   events, accepted, callerVars>>

HandleDisconnect(s) ==
    /\ NextCommand(s, {"disconnect"})
    /\ RunReturns(s, "ended", Tail(commands[s]))

\* Data and ExtendedData become output events.
ChannelData(s) ==
    /\ task[s] = "running"
    /\ Cardinality({i \in DOMAIN events[s] : events[s][i] = "output"}) < MaxOutput
    /\ Emit(s, "output")
    /\ UNCHANGED <<managerVars, runtimeVars, accepted, handled, callerVars>>

\* Eof, Close, ExitStatus, or the channel is gone.
ChannelCloses(s) ==
    /\ task[s] = "running"
    /\ RunReturns(s, "ended", commands[s])
    /\ UNCHANGED handled

\* The rest of the spawned task: error event, removal, final status.
ReportError(s) ==
    /\ task[s] = "failed"
    /\ Emit(s, "error_event")
    /\ task' = [task EXCEPT ![s] = "reported"]
    /\ UNCHANGED <<managerVars, commands, held, execs, worker, serving,
                   accepted, handled, callerVars>>

\* Mutant: the status is announced before the session leaves the map.
RemoveSession_StatusFirst(s) ==
    /\ \/ /\ task[s] \in {"ended", "reported"}
          /\ Emit(s, IF task[s] = "ended" THEN "disconnected" ELSE "error")
          /\ task' = [task EXCEPT ![s] = "done"]
          /\ UNCHANGED sessions
       \/ /\ task[s] = "done"
          /\ s \in sessions
          /\ sessions' = sessions \ {s}
          /\ UNCHANGED <<events, task>>
    /\ UNCHANGED <<platform, commands, held, execs, worker, serving,
                   accepted, handled, callerVars>>

RemoveSession(s) ==
    /\ task[s] \in {"ended", "reported"}
    /\ sessions' = sessions \ {s}
    /\ task' = [task EXCEPT ![s] = IF @ = "ended" THEN "closing" ELSE "failing"]
    /\ UNCHANGED <<platform, commands, held, execs, worker, serving,
                   historyVars, callerVars>>

\* Mutant: the final status is never set to Error.
EmitFinal_NeverError(s) ==
    /\ task[s] \in {"closing", "failing"}
    /\ Emit(s, "disconnected")
    /\ task' = [task EXCEPT ![s] = "done"]
    /\ UNCHANGED <<managerVars, commands, held, execs, worker, serving,
                   accepted, handled, callerVars>>

EmitFinal(s) ==
    /\ task[s] \in {"closing", "failing"}
    /\ Emit(s, IF task[s] = "closing" THEN "disconnected" ELSE "error")
    /\ task' = [task EXCEPT ![s] = "done"]
    /\ UNCHANGED <<managerVars, commands, held, execs, worker, serving,
                   accepted, handled, callerVars>>

-----------------------------------------------------------------------------
(* The exec worker, as its caller sees it: ExecWorker has the detail.       *)

WorkerTake(s) ==
    /\ worker[s] = "idle"
    /\ execs[s] # <<>>
    /\ execs' = [execs EXCEPT ![s] = Tail(@)]
    /\ serving' = [serving EXCEPT ![s] = {Head(execs[s])}]
    /\ worker' = [worker EXCEPT ![s] = "busy"]
    /\ UNCHANGED <<managerVars, task, commands, held, historyVars, callerVars>>

WorkerAnswer(s, result) ==
    /\ worker[s] = "busy"
    /\ pc' = [c \in Callers |-> IF c \in serving[s] THEN "answered" ELSE pc[c]]
    /\ answer' = [c \in Callers |-> IF c \in serving[s] THEN result ELSE answer[c]]
    /\ serving' = [serving EXCEPT ![s] = {}]
    /\ worker' = [worker EXCEPT ![s] = "idle"]
    /\ UNCHANGED <<managerVars, task, commands, held, execs, historyVars, op, sid>>

\* Mutant: the worker stops with the session, requests or not.
WorkerExit_NoDrain(s) ==
    /\ worker[s] = "idle"
    /\ ~Receiving(s)
    /\ worker' = [worker EXCEPT ![s] = "exited"]
    /\ UNCHANGED <<managerVars, task, commands, held, execs, serving,
                   historyVars, callerVars>>

\* The exec channel is closed and drained.
WorkerExit(s) ==
    /\ worker[s] = "idle"
    /\ ~Receiving(s)
    /\ execs[s] = <<>>
    /\ worker' = [worker EXCEPT ![s] = "exited"]
    /\ UNCHANGED <<managerVars, task, commands, held, execs, serving,
                   historyVars, callerVars>>

-----------------------------------------------------------------------------
(* API calls: disconnect, send_terminal_input, resize_terminal and          *)
(* remote_system_snapshot.                                                  *)

\* The id is known once connect has announced it.  remote_system_snapshot first
\* looks for a cached platform; the others go straight to the lookup.
Begin(c) ==
    /\ pc[c] = "idle"
    /\ task[sid[c]] # "none"
    /\ pc' = [pc EXCEPT ![c] = "lookup"]
    /\ op' = [op EXCEPT ![c] =
                IF @ = "detect" /\ sid[c] \in sessions /\ platform[sid[c]] # "unknown"
                THEN "query" ELSE @]
    /\ UNCHANGED <<managerVars, runtimeVars, historyVars, sid, answer>>

\* session(): clone the sender, or SessionNotFound.
LookupFound(c) ==
    /\ pc[c] = "lookup"
    /\ sid[c] \in sessions
    /\ pc' = [pc EXCEPT ![c] = "sending"]
    /\ UNCHANGED <<managerVars, runtimeVars, historyVars, op, sid, answer>>

LookupMissing(c) ==
    /\ pc[c] = "lookup"
    /\ sid[c] \notin sessions
    /\ pc' = [pc EXCEPT ![c] = "answered"]
    /\ answer' = [answer EXCEPT ![c] = "err"]
    /\ UNCHANGED <<managerVars, runtimeVars, historyVars, op, sid>>

\* Mutant: an unbounded channel.
Send_Unbounded(c) ==
    /\ pc[c] = "sending"
    /\ Receiving(sid[c])
    /\ commands' = [commands EXCEPT ![sid[c]] = Append(@, c)]
    /\ accepted' = [accepted EXCEPT ![sid[c]] = Append(@, c)]
    /\ pc' = [pc EXCEPT ![c] = IF op[c] \in ExecOps THEN "waiting" ELSE "answered"]
    /\ answer' = [answer EXCEPT ![c] = IF op[c] \in ExecOps THEN @ ELSE "ok"]
    /\ UNCHANGED <<managerVars, task, held, execs, worker, serving,
                   events, handled, op, sid>>

\* command_tx.send: waits for room.  An Exec caller then awaits its answer, the
\* others are done.
Send(c) ==
    /\ pc[c] = "sending"
    /\ Receiving(sid[c])
    /\ Len(commands[sid[c]]) < CommandCap
    /\ commands' = [commands EXCEPT ![sid[c]] = Append(@, c)]
    /\ accepted' = [accepted EXCEPT ![sid[c]] = Append(@, c)]
    /\ pc' = [pc EXCEPT ![c] = IF op[c] \in ExecOps THEN "waiting" ELSE "answered"]
    /\ answer' = [answer EXCEPT ![c] = IF op[c] \in ExecOps THEN @ ELSE "ok"]
    /\ UNCHANGED <<managerVars, task, held, execs, worker, serving,
                   events, handled, op, sid>>

\* The receiver is gone: SessionNotFound, even for a sender that was waiting.
SendFails(c) ==
    /\ pc[c] = "sending"
    /\ ~Receiving(sid[c])
    /\ pc' = [pc EXCEPT ![c] = "answered"]
    /\ answer' = [answer EXCEPT ![c] = "err"]
    /\ UNCHANGED <<managerVars, runtimeVars, historyVars, op, sid>>

\* detect_remote_platform after its exec: any error counts as Unix, so there is
\* always a result, cached if the session is still registered.  The snapshot
\* itself follows.
Detected(c) ==
    /\ pc[c] = "answered"
    /\ op[c] = "detect"
    /\ platform' = IF sid[c] \in sessions
                   THEN [platform EXCEPT ![sid[c]] = "detected"]
                   ELSE platform
    /\ op' = [op EXCEPT ![c] = "query"]
    /\ pc' = [pc EXCEPT ![c] = "lookup"]
    /\ answer' = [answer EXCEPT ![c] = "none"]
    /\ UNCHANGED <<sessions, runtimeVars, historyVars, sid>>

-----------------------------------------------------------------------------
Returned(c) == pc[c] = "answered" /\ op[c] # "detect"

\* Everything has come to rest.
Quiescent ==
    /\ \A c \in Callers : Returned(c)
    /\ \A s \in Sessions : task[s] = "done" /\ worker[s] \in {"none", "exited"}
    /\ UNCHANGED vars

Runtime(s) ==
    \/ ConnectFails(s) \/ ConnectSucceeds(s)
    \/ WriteToChannel(s) \/ WriteFails(s)
    \/ TakeExec(s) \/ ForwardExec(s) \/ HandleDisconnect(s)
    \/ ReportError(s) \/ RemoveSession(s) \/ EmitFinal(s)

Worker(s) ==
    \/ WorkerTake(s)
    \/ \E result \in {"ok", "err"} : WorkerAnswer(s, result)
    \/ WorkerExit(s)

Call(c) ==
    \/ Begin(c) \/ LookupFound(c) \/ LookupMissing(c)
    \/ Send(c) \/ SendFails(c) \/ Detected(c)

Next ==
    \/ \E s \in Sessions : Connect(s) \/ Runtime(s) \/ Worker(s)
                           \/ ChannelData(s) \/ ChannelCloses(s)
    \/ \E c \in Callers : Call(c)
    \/ Quiescent

Spec == Init /\ [][Next]_vars

\* The scheduler runs every ready task.  Dialling and authentication carry
\* timeouts, so a connection attempt ends; remote commands are assumed to end,
\* and so is a write to the channel (channel.data().await has no timeout: the
\* server is assumed to widen its window or to drop the connection).
\* Nothing obliges a user to connect or a server to send or to close.
Fairness ==
    /\ \A s \in Sessions : WF_vars(Runtime(s)) /\ WF_vars(Worker(s))
    /\ \A c \in Callers : WF_vars(Call(c))

FairSpec == Spec /\ Fairness

-----------------------------------------------------------------------------
(* The life cycle the status stream shows.                                  *)

PhaseOf(s) ==
    LET told == Range(events[s])
    IN  CASE "error" \in told -> "error"
          [] "disconnected" \in told -> "disconnected"
          [] "connected" \in told /\ told \cap FinalEvents = {} -> "connected"
          [] told \cap {"connected", "disconnected", "error"} = {}
                /\ "connecting" \in told -> "connecting"
          [] OTHER -> "absent"

Lifecycle == INSTANCE SessionLifecycle
                WITH phase <- [s \in Sessions |-> PhaseOf(s)],
                     reachable <- sessions

\* The manager and its runtimes implement the life cycle.
ImplementsLifecycle == Lifecycle!Spec

-----------------------------------------------------------------------------
(* Properties.                                                              *)

\* One session's events in an order the user interface can follow.
WellOrdered(told) ==
    \A i \in DOMAIN told :
        /\ (told[i] = "connecting") <=> (i = 1)
        /\ told[i] \in {"output", "disconnected"} =>
               \E j \in 1 .. i - 1 : told[j] = "connected"
        /\ told[i] \in FinalEvents =>
               /\ i = Len(told)
               /\ (told[i] = "error") <=>
                  (\E j \in 1 .. i - 1 : told[j] = "error_event")

\* The event streams tell one story per session: "connecting" comes first and
\* once, output only after "connected", a final status is the last event, it is
\* an error exactly when an error event was sent before it, and a session that
\* never connected never ends as "disconnected" (connect and SshRuntime::run).
EventOrder == \A s \in Sessions : WellOrdered(events[s])

\* Whoever learns of the final status finds the session gone: it is not in the
\* map, its channel takes no command and nothing is left in it.
FinalMeansGone ==
    \A s \in Sessions : Range(events[s]) \cap FinalEvents # {} =>
        /\ s \notin sessions
        /\ ~Receiving(s)
        /\ commands[s] = <<>>

\* The runtime takes commands in the order the channel accepted them, none
\* twice and, while it runs, none lost; a Disconnect is the last it takes, so
\* input accepted after a Disconnect never reaches the server.
CommandsInOrder ==
    \A s \in Sessions :
        /\ Receiving(s) => accepted[s] = handled[s] \o commands[s]
        /\ handled[s] = SubSeq(accepted[s], 1, Len(handled[s]))
        /\ \A i \in DOMAIN handled[s] :
              op[handled[s][i]] = "disconnect" => i = Len(handled[s])

\* A caller awaiting an exec answer is owed one by someone who will give it:
\* its request is in a channel that is still read, held by the forwarding
\* runtime, or with a live worker.  The answer channel is never just lost.
AnswerOwed ==
    \A c \in Callers : pc[c] = "waiting" =>
        LET s == sid[c]
        IN  \/ Receiving(s) /\ c \in Range(commands[s])
            \/ task[s] = "forwarding" /\ c \in held[s]
            \/ worker[s] \in {"idle", "busy"} /\ c \in Range(execs[s])
            \/ worker[s] = "busy" /\ c \in serving[s]

\* Every API call returns, however full the channels are and whatever happens
\* to the session meanwhile.
EveryCallReturns ==
    \A c \in Callers : (pc[c] # "idle") ~> Returned(c)

\* A session whose channel accepted a Disconnect ends and says so.
DisconnectEnds ==
    \A s \in Sessions, c \in Callers :
        (op[c] = "disconnect" /\ c \in Range(accepted[s])) ~> (task[s] = "done")
=============================================================================
