------------------------------ MODULE RdpSession ------------------------------
(***************************************************************************)
(* The RDP session manager and the task it spawns for every session.       *)
(*                                                                         *)
(* The manager keeps two maps, each behind a mutex of its own: sessions,   *)
(* by session id, and profile_index, the session of each profile.  connect *)
(* hands out the profile's session if it still runs and otherwise spawns a *)
(* task before it registers it; the task reports how its run ended before  *)
(* it takes itself out of both maps.  The send_* calls hold the lock on    *)
(* sessions while they wait for room in the session's command channel.     *)
(*                                                                         *)
(* A client makes one call after another.  Frames, the clipboard and the   *)
(* protocol are inside the run: what shows of them is that the run waits,  *)
(* without a timeout, for the server to take what it writes.               *)
(***************************************************************************)
EXTENDS Naturals, Sequences, Functions

CONSTANTS
    Sessions,    \* bound: the ids connect hands out (fresh uuids)
    Profiles,
    Clients,     \* concurrent callers of the API
    CommandCap,  \* capacity of a session's command channel (32)
    NoSession, NoProfile, Nobody

ASSUME RdpAssumption ==
    /\ CommandCap \in Nat \ {0}
    /\ NoSession \notin Sessions
    /\ NoProfile \notin Profiles
    /\ Nobody \notin Clients

VARIABLES
    sessions,   \* keys of the session map
    index,      \* profile_index
    locked,     \* who holds the lock on sessions across an await
    run,        \* where each session's task is
    profile,    \* the profile of each session
    commands,   \* its command channel
    cancelled,  \* the sessions whose token is cancelled
    events,     \* status and error events of each session
    pc,         \* where each client's call is
    prof,       \* the profile it connects
    sid,        \* the session it deals with
    todo,       \* the handles disconnect_all has drained
    returned    \* the ids connect has returned

registry == <<sessions, index, locked>>
tasks == <<run, profile, commands, events>>
calls == <<pc, prof, sid, todo, returned>>
vars == <<registry, tasks, cancelled, calls>>

RunStates == {"none", "connecting", "retrying", "active", "writing", "closing",
              "ended", "failed", "told", "unlisted", "done"}
CallStates == {"idle", "check", "stale", "unindex", "spawn", "insert", "index",
               "cancel", "tell", "forget", "sending", "drain", "draining"}
Events == {"connecting", "connected", "error_event", "disconnected", "error"}
FinalEvents == {"disconnected", "error"}

\* Mutant: run borrows the receiver, which then lives as long as the task.
Receiving_Late(s) == run[s] \notin {"none", "done"}

\* The command receiver lives as long as the run.
Receiving(s) == run[s] \in {"connecting", "retrying", "active", "writing", "closing"}

TypeOK ==
    /\ sessions \in SUBSET Sessions
    /\ index \in [Profiles -> Sessions \cup {NoSession}]
    /\ locked \in Clients \cup {Nobody}
    /\ run \in [Sessions -> RunStates]
    /\ profile \in [Sessions -> Profiles \cup {NoProfile}]
    /\ commands \in [Sessions -> Seq({"input", "disconnect"})]
    /\ cancelled \in SUBSET Sessions
    /\ events \in [Sessions -> Seq(Events)]
    /\ pc \in [Clients -> CallStates]
    /\ prof \in [Clients -> Profiles \cup {NoProfile}]
    /\ sid \in [Clients -> Sessions \cup {NoSession}]
    /\ todo \in [Clients -> SUBSET Sessions]
    /\ returned \in SUBSET Sessions

Init ==
    /\ sessions = {}
    /\ index = [p \in Profiles |-> NoSession]
    /\ locked = Nobody
    /\ run = [s \in Sessions |-> "none"]
    /\ profile = [s \in Sessions |-> NoProfile]
    /\ commands = [s \in Sessions |-> <<>>]
    /\ cancelled = {}
    /\ events = [s \in Sessions |-> <<>>]
    /\ pc = [c \in Clients |-> "idle"]
    /\ prof = [c \in Clients |-> NoProfile]
    /\ sid = [c \in Clients |-> NoSession]
    /\ todo = [c \in Clients |-> {}]
    /\ returned = {}

At(c, state) == pc[c] = state
Goto(c, state) == pc' = [pc EXCEPT ![c] = state]
Unlocked == locked = Nobody

-----------------------------------------------------------------------------
(* connect.                                                                 *)

\* The profile's session, read under the lock on profile_index only.
BeginConnect(c, p) ==
    /\ At(c, "idle")
    /\ prof' = [prof EXCEPT ![c] = p]
    /\ sid' = [sid EXCEPT ![c] = index[p]]
    /\ Goto(c, IF index[p] = NoSession THEN "spawn" ELSE "check")
    /\ UNCHANGED <<registry, tasks, cancelled, todo, returned>>

\* It is registered and its receiver is alive: the caller gets it.
Reuse(c) ==
    /\ At(c, "check")
    /\ Unlocked
    /\ sid[c] \in sessions
    /\ Receiving(sid[c])
    /\ returned' = returned \cup {sid[c]}
    /\ Goto(c, "idle")
    /\ UNCHANGED <<registry, tasks, cancelled, prof, sid, todo>>

\* Mutant: whatever is registered is taken for stale.
FindStale_Any(c) ==
    /\ At(c, "check")
    /\ Unlocked
    /\ sid[c] \in sessions
    /\ Goto(c, "stale")
    /\ UNCHANGED <<registry, tasks, cancelled, prof, sid, todo, returned>>

\* It is registered and over ...
FindStale(c) ==
    /\ At(c, "check")
    /\ Unlocked
    /\ sid[c] \in sessions
    /\ ~Receiving(sid[c])
    /\ Goto(c, "stale")
    /\ UNCHANGED <<registry, tasks, cancelled, prof, sid, todo, returned>>

\* ... or not registered any more.
FindNone(c) ==
    /\ At(c, "check")
    /\ Unlocked
    /\ sid[c] \notin sessions
    /\ Goto(c, "spawn")
    /\ UNCHANGED <<registry, tasks, cancelled, prof, sid, todo, returned>>

\* Each lock is taken anew to remove the stale session.
RemoveStale(c) ==
    /\ At(c, "stale")
    /\ Unlocked
    /\ sessions' = sessions \ {sid[c]}
    /\ Goto(c, "unindex")
    /\ UNCHANGED <<index, locked, tasks, cancelled, prof, sid, todo, returned>>

UnindexStale(c) ==
    /\ At(c, "unindex")
    /\ index' = [index EXCEPT ![prof[c]] = NoSession]
    /\ Goto(c, "spawn")
    /\ UNCHANGED <<sessions, locked, tasks, cancelled, prof, sid, todo, returned>>

\* The task runs from here on, registered or not.
Spawn(c) ==
    /\ At(c, "spawn")
    /\ \E s \in Sessions :
         /\ run[s] = "none"
         /\ run' = [run EXCEPT ![s] = "connecting"]
         /\ profile' = [profile EXCEPT ![s] = prof[c]]
         /\ sid' = [sid EXCEPT ![c] = s]
    /\ Goto(c, "insert")
    /\ UNCHANGED <<registry, commands, events, cancelled, prof, todo, returned>>

\* Mutant: the session map is keyed by profile_id, which is no session id.
InsertSession_ByProfile(c) ==
    /\ At(c, "insert")
    /\ Unlocked
    /\ sessions' = sessions \cup {prof[c]}
    /\ Goto(c, "index")
    /\ UNCHANGED <<index, locked, tasks, cancelled, prof, sid, todo, returned>>

InsertSession(c) ==
    /\ At(c, "insert")
    /\ Unlocked
    /\ sessions' = sessions \cup {sid[c]}
    /\ Goto(c, "index")
    /\ UNCHANGED <<index, locked, tasks, cancelled, prof, sid, todo, returned>>

InsertIndex(c) ==
    /\ At(c, "index")
    /\ index' = [index EXCEPT ![prof[c]] = sid[c]]
    /\ returned' = returned \cup {sid[c]}
    /\ Goto(c, "idle")
    /\ UNCHANGED <<sessions, locked, tasks, cancelled, prof, sid, todo>>

-----------------------------------------------------------------------------
(* disconnect and disconnect_all.                                           *)

\* Mutant: the token is cancelled while the session is still registered.
BeginDisconnect_CancelFirst(c, s) ==
    /\ At(c, "idle")
    /\ s \in returned
    /\ sid' = [sid EXCEPT ![c] = s]
    /\ IF s \in sessions /\ s \notin cancelled
       THEN cancelled' = cancelled \cup {s} /\ UNCHANGED <<sessions, pc>>
       ELSE /\ Unlocked
            /\ UNCHANGED cancelled
            /\ sessions' = sessions \ {s}
            /\ IF s \in sessions THEN Goto(c, "tell") ELSE UNCHANGED pc
    /\ UNCHANGED <<index, locked, tasks, prof, todo, returned>>

\* The session leaves the map first, so that nobody is given it after this.
BeginDisconnect(c, s) ==
    /\ At(c, "idle")
    /\ Unlocked
    /\ s \in returned
    /\ sid' = [sid EXCEPT ![c] = s]
    /\ sessions' = sessions \ {s}
    /\ IF s \in sessions THEN Goto(c, "cancel") ELSE UNCHANGED pc
    /\ UNCHANGED <<index, locked, tasks, cancelled, prof, todo, returned>>

Cancel(c) ==
    /\ At(c, "cancel")
    /\ cancelled' = cancelled \cup {sid[c]}
    /\ Goto(c, "tell")
    /\ UNCHANGED <<registry, tasks, prof, sid, todo, returned>>

\* command_tx.send waits for room; a closed channel is no error.
SendDisconnect(c, from, to) ==
    /\ At(c, from)
    /\ IF Receiving(sid[c])
       THEN /\ Len(commands[sid[c]]) < CommandCap
            /\ commands' = [commands EXCEPT ![sid[c]] = Append(@, "disconnect")]
       ELSE UNCHANGED commands
    /\ Goto(c, to)
    /\ UNCHANGED <<registry, run, profile, events, cancelled, prof, sid, todo, returned>>

Tell(c) == SendDisconnect(c, "tell", "forget")

\* The profile's entry goes, whichever session it names by now.
Forget(c) ==
    /\ At(c, "forget")
    /\ index' = [index EXCEPT ![profile[sid[c]]] = NoSession]
    /\ Goto(c, "idle")
    /\ UNCHANGED <<sessions, locked, tasks, cancelled, prof, sid, todo, returned>>

BeginDisconnectAll(c) ==
    /\ At(c, "idle")
    /\ Unlocked
    /\ todo' = [todo EXCEPT ![c] = sessions]
    /\ sessions' = {}
    /\ Goto(c, "drain")
    /\ UNCHANGED <<index, locked, tasks, cancelled, prof, sid, returned>>

Drain(c) ==
    /\ At(c, "drain")
    /\ \E s \in todo[c] :
         /\ cancelled' = cancelled \cup {s}
         /\ sid' = [sid EXCEPT ![c] = s]
         /\ todo' = [todo EXCEPT ![c] = @ \ {s}]
    /\ Goto(c, "draining")
    /\ UNCHANGED <<registry, tasks, prof, returned>>

DrainTell(c) == SendDisconnect(c, "draining", "drain")

ClearIndex(c) ==
    /\ At(c, "drain")
    /\ todo[c] = {}
    /\ index' = [p \in Profiles |-> NoSession]
    /\ Goto(c, "idle")
    /\ UNCHANGED <<sessions, locked, tasks, cancelled, prof, sid, todo, returned>>

-----------------------------------------------------------------------------
(* send_mouse_move, send_mouse_button, send_mouse_wheel, send_keyboard_input. *)

\* An unknown session is ignored; otherwise the lock is kept for the send.
BeginSend(c, s) ==
    /\ At(c, "idle")
    /\ Unlocked
    /\ s \in returned \cap sessions
    /\ locked' = c
    /\ sid' = [sid EXCEPT ![c] = s]
    /\ Goto(c, "sending")
    /\ UNCHANGED <<sessions, index, tasks, cancelled, prof, todo, returned>>

Send(c) ==
    /\ At(c, "sending")
    /\ Receiving(sid[c])
    /\ Len(commands[sid[c]]) < CommandCap
    /\ commands' = [commands EXCEPT ![sid[c]] = Append(@, "input")]
    /\ locked' = Nobody
    /\ Goto(c, "idle")
    /\ UNCHANGED <<sessions, index, run, profile, events, cancelled,
                   prof, sid, todo, returned>>

SendFails(c) ==
    /\ At(c, "sending")
    /\ ~Receiving(sid[c])
    /\ locked' = Nobody
    /\ Goto(c, "idle")
    /\ UNCHANGED <<sessions, index, tasks, cancelled, prof, sid, todo, returned>>

-----------------------------------------------------------------------------
(* The session's task.                                                      *)

\* The task moves on, and tells what it has to tell.
Task(s, state, told) ==
    /\ run' = [run EXCEPT ![s] = state]
    /\ events' = [events EXCEPT ![s] = @ \o told]

\* The run returns, and the command receiver goes with it.
RunReturns(s, results) ==
    /\ \E how \in results : Task(s, how, <<>>)
    /\ commands' = [commands EXCEPT ![s] = <<>>]
    /\ UNCHANGED <<registry, profile, cancelled, calls>>

Quiet == UNCHANGED <<registry, profile, commands, cancelled, calls>>

\* A license decode error: one more try_connect, with a stub license.
LicenseRetry(s) ==
    /\ run[s] = "connecting"
    /\ Task(s, "retrying", <<"connecting">>)
    /\ Quiet

ConnectSucceeds(s) ==
    /\ run[s] \in {"connecting", "retrying"}
    /\ Task(s, "active", <<"connected">>)
    /\ Quiet

ConnectFails(s) ==
    /\ run[s] \in {"connecting", "retrying"}
    /\ RunReturns(s, {"failed"})

\* The task's select sees the token, even while run waits for the server, and
\* ends well; or run sees it first and returns Cancelled.
SeeCancelled(s) ==
    /\ Receiving(s)
    /\ s \in cancelled
    /\ RunReturns(s, {"ended", "failed"})

\* An input event is taken out of the channel; if it means anything it is
\* written to the server.
HandleInput(s) ==
    /\ run[s] = "active"
    /\ commands[s] # <<>>
    /\ Head(commands[s]) = "input"
    /\ \E state \in {"active", "writing"} : Task(s, state, <<>>)
    /\ commands' = [commands EXCEPT ![s] = Tail(@)]
    /\ UNCHANGED <<registry, profile, cancelled, calls>>

\* Disconnect writes the shutdown to the server.
HandleDisconnect(s) ==
    /\ run[s] = "active"
    /\ commands[s] # <<>>
    /\ Head(commands[s]) = "disconnect"
    /\ Task(s, "closing", <<>>)
    /\ commands' = [commands EXCEPT ![s] = Tail(@)]
    /\ UNCHANGED <<registry, profile, cancelled, calls>>

\* What the server sent, or the local clipboard, is answered with a message.
Respond(s) ==
    /\ run[s] = "active"
    /\ Task(s, "writing", <<>>)
    /\ Quiet

\* write_all ends: the loop goes on, or, after Disconnect, the run is over,
\* well or with an error of the shutdown.
Written(s) ==
    \/ run[s] = "writing" /\ Task(s, "active", <<>>) /\ Quiet
    \/ run[s] = "closing" /\ RunReturns(s, {"ended", "failed"})

\* The server terminates the session, or reading or writing fails.
ServerEnds(s) ==
    \/ run[s] = "active" /\ RunReturns(s, {"ended", "failed"})
    \/ run[s] = "writing" /\ RunReturns(s, {"failed"})

\* Mutant: the status of a failed run is left to the error event.
EmitFinal_ErrorOnly(s) ==
    \/ run[s] = "ended"  /\ Task(s, "told", <<"disconnected">>) /\ Quiet
    \/ run[s] = "failed" /\ Task(s, "told", <<"error_event">>) /\ Quiet

\* Mutant: a run that ends well returns from the task before the clean-up.
EmitFinal_EarlyReturn(s) ==
    run[s] = "failed" /\ Task(s, "told", <<"error_event", "error">>) /\ Quiet

EmitFinal(s) ==
    \/ run[s] = "ended"  /\ Task(s, "told", <<"disconnected">>) /\ Quiet
    \/ run[s] = "failed" /\ Task(s, "told", <<"error_event", "error">>) /\ Quiet

Unlist(s) ==
    /\ run[s] = "told"
    /\ Unlocked
    /\ sessions' = sessions \ {s}
    /\ Task(s, "unlisted", <<>>)
    /\ UNCHANGED <<index, locked, profile, commands, cancelled, calls>>

\* Again whichever session the entry names.
Unindex(s) ==
    /\ run[s] = "unlisted"
    /\ index' = [index EXCEPT ![profile[s]] = NoSession]
    /\ Task(s, "done", <<>>)
    /\ UNCHANGED <<sessions, locked, profile, commands, cancelled, calls>>

-----------------------------------------------------------------------------
\* A call in progress; beginning one is up to the client.
Proceed(c) ==
    \/ Reuse(c) \/ FindStale(c) \/ FindNone(c) \/ RemoveStale(c) \/ UnindexStale(c)
    \/ Spawn(c) \/ InsertSession(c) \/ InsertIndex(c)
    \/ Cancel(c) \/ Tell(c) \/ Forget(c)
    \/ Drain(c) \/ DrainTell(c) \/ ClearIndex(c)
    \/ Send(c) \/ SendFails(c)

Begin(c) ==
    \/ \E p \in Profiles : BeginConnect(c, p)
    \/ \E s \in Sessions : BeginDisconnect(c, s) \/ BeginSend(c, s)
    \/ BeginDisconnectAll(c)

Runtime(s) ==
    \/ LicenseRetry(s) \/ ConnectSucceeds(s) \/ ConnectFails(s)
    \/ SeeCancelled(s) \/ HandleInput(s) \/ HandleDisconnect(s)
    \/ EmitFinal(s) \/ Unlist(s) \/ Unindex(s)

Next ==
    \/ \E c \in Clients : Begin(c) \/ Proceed(c)
    \/ \E s \in Sessions : Runtime(s) \/ Respond(s) \/ Written(s) \/ ServerEnds(s)

Spec == Init /\ [][Next]_vars

\* Tasks are scheduled, every await of try_connect has a timeout, and the locks
\* are fair: a call or a task that can go on again and again goes on.
Fairness ==
    /\ \A c \in Clients : SF_vars(Proceed(c))
    /\ \A s \in Sessions : SF_vars(Runtime(s))

\* An assumption about the servers, not about the code, whose writes have no
\* timeout: what is written is taken, or fails, at some time.
ServersRead == \A s \in Sessions : WF_vars(Written(s))

FairSpec == Spec /\ Fairness /\ ServersRead

-----------------------------------------------------------------------------
(* Properties.                                                              *)

\* Each session's events end with one final status, which is an error exactly
\* when an error event came before it; a task that leaves the maps has told it.
StatusTold ==
    \A s \in Sessions :
        /\ \A i \in DOMAIN events[s] : events[s][i] \in FinalEvents =>
             /\ i = Len(events[s])
             /\ (events[s][i] = "error") <=> ("error_event" \in Range(events[s]))
        /\ run[s] \in {"told", "unlisted", "done"} =>
             Range(events[s]) \cap FinalEvents # {}

\* No session runs out of reach: as long as it receives commands it is in the
\* map, or its token is cancelled, or a call that will register or cancel it
\* has it in hand.
NoOrphan ==
    \A s \in Sessions : Receiving(s) =>
        \/ s \in sessions \cup cancelled
        \/ \E c \in Clients : \/ sid[c] = s /\ pc[c] \in {"insert", "cancel"}
                              \/ s \in todo[c]

\* The session connect finds for its profile and returns is one that nobody
\* has disconnected: disconnect takes it out of the map before it cancels it.
\* (A session connect has just spawned it returns in any case, even if a
\* disconnect_all met it between its two maps and cancelled it.)
ReusedIsLive ==
    [][\A c \in Clients : At(c, "check") /\ pc'[c] = "idle" => sid[c] \notin cancelled]_vars

\* As long as the servers read, every call returns, although a send keeps the
\* lock on sessions for as long as a channel is full.  (A connect that finds no
\* id left, which only the bound on Sessions causes, counts as returned.)
EveryCallReturns ==
    \A c \in Clients : pc[c] \notin {"idle", "spawn"} ~> pc[c] \in {"idle", "spawn"}

\* A session that disconnect or disconnect_all took out of the map ends, even
\* when it is still connecting or its channel is full, and cleans up.
DisconnectEnds ==
    \A s \in Sessions :
        (\E c \in Clients : (At(c, "cancel") /\ sid[c] = s) \/ s \in todo[c])
            ~> (run[s] = "done")

\* A profile has one session: "same profile should return existing session id".
OneSessionPerProfile ==
    \A s, t \in Sessions \ cancelled :
        Receiving(s) /\ Receiving(t) /\ profile[s] = profile[t] => s = t
=============================================================================
