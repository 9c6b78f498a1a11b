------------------------------ MODULE ExecWorker ------------------------------
(***************************************************************************)
(* The exec worker: a background connection that runs one command at a     *)
(* time for a terminal session or, through exec_on_profile, for a profile. *)
(*                                                                         *)
(* run_exec_worker connects, and reconnects when it finds the connection   *)
(* broken; run_exec opens a channel, sends the command and reads what      *)
(* comes back.  A connection can die at any time, and what was sent on a   *)
(* dead one may look sent: the session notices later.  Keepalives change   *)
(* nothing and are left out.                                               *)
(***************************************************************************)
EXTENDS Naturals, Sequences, Functions

CONSTANTS
    Requests,   \* the commands that may be sent
    WithInput,  \* those that feed the command's stdin
    Cap,        \* capacity of the exec channel (64; 16 for a profile)
    NoRequest

ASSUME ExecAssumption ==
    /\ WithInput \subseteq Requests
    /\ Cap \in Nat \ {0}
    /\ NoRequest \notin Requests

VARIABLES
    queue,    \* the exec channel
    closed,   \* every sender of it is gone
    pc,       \* where the worker is
    conn,     \* its handle: none, or one to a live or a dead connection
    current,  \* the request it serves
    again,    \* whether this is the second run of the request
    status,   \* the exit status run_exec has seen
    remote,   \* the command on the server
    answers,  \* the answers given: <<request, result>> in order
    runs,     \* history: how often the server started each command
    faults    \* history: failed connects and broken runs while serving it

workerVars == <<pc, conn, current, again, status>>
historyVars == <<answers, runs, faults>>
vars == <<queue, closed, workerVars, remote, historyVars>>

States == {"starting", "idle", "connect", "retry", "open", "send", "input",
           "wait", "reconnect", "reply", "exited"}
Remote == {"none", "requested", "refused", "running", "zero", "nonzero"}

\* "nonzero" is InvalidRequest, "broken" any other error.
Results == {"ok", "nonzero", "broken"}

TypeOK ==
    /\ queue \in Seq(Requests) /\ Len(queue) <= Cap
    /\ closed \in BOOLEAN
    /\ pc \in States
    /\ conn \in {"none", "live", "dead"}
    /\ current \in Requests \cup {NoRequest}
    /\ again \in BOOLEAN
    /\ status \in {"none", "zero", "nonzero", "broken"}
    /\ remote \in Remote
    /\ answers \in Seq(Requests \X Results)
    /\ runs \in [Requests -> 0 .. 2]
    /\ faults \in [Requests -> 0 .. 3]

Init ==
    /\ queue = <<>>
    /\ closed = FALSE
    /\ pc = "starting"
    /\ conn = "none"
    /\ current = NoRequest
    /\ again = FALSE
    /\ status = "none"
    /\ remote = "none"
    /\ answers = <<>>
    /\ runs = [r \in Requests |-> 0]
    /\ faults = [r \in Requests |-> 0]

Fault == faults' = [faults EXCEPT ![current] = @ + 1]

Known == Range(queue) \cup {current} \cup {answers[i][1] : i \in DOMAIN answers}

-----------------------------------------------------------------------------
(* The callers, the network and the server.                                 *)

Submit(r) ==
    /\ ~closed
    /\ r \notin Known
    /\ Len(queue) < Cap
    /\ queue' = Append(queue, r)
    /\ UNCHANGED <<closed, workerVars, remote, historyVars>>

\* The terminal session's run ends.  A profile's worker is never closed.
Close ==
    /\ ~closed
    /\ closed' = TRUE
    /\ UNCHANGED <<queue, workerVars, remote, historyVars>>

Drop ==
    /\ conn = "live"
    /\ conn' = "dead"
    /\ UNCHANGED <<queue, closed, pc, current, again, status, remote, historyVars>>

ServerStarts ==
    /\ conn = "live"
    /\ remote = "requested"
    /\ remote' = "running"
    /\ runs' = [runs EXCEPT ![current] = @ + 1]
    /\ UNCHANGED <<queue, closed, workerVars, answers, faults>>

\* The server answers the request with a failure, which run_exec ignores, and
\* closes the channel.
ServerRefuses ==
    /\ conn = "live"
    /\ remote = "requested"
    /\ remote' = "refused"
    /\ UNCHANGED <<queue, closed, workerVars, historyVars>>

CommandExits ==
    /\ remote = "running"
    /\ remote' \in {"zero", "nonzero"}
    /\ UNCHANGED <<queue, closed, workerVars, historyVars>>

-----------------------------------------------------------------------------
(* run_exec_worker: connecting.                                             *)

FirstConnect ==
    /\ pc = "starting"
    /\ conn' \in {"none", "live"}
    /\ pc' = "idle"
    /\ UNCHANGED <<queue, closed, current, again, status, remote, historyVars>>

Take ==
    /\ pc = "idle"
    /\ queue # <<>>
    /\ current' = Head(queue)
    /\ queue' = Tail(queue)
    /\ pc' = IF conn = "none" THEN "connect" ELSE "open"
    /\ UNCHANGED <<closed, conn, again, status, remote, historyVars>>

\* Each of the worker's connects, with where it goes on.
Connects(from, to) ==
    /\ pc = from
    /\ conn' = "live"
    /\ pc' = to
    /\ UNCHANGED <<queue, closed, current, status, remote, historyVars>>

Connected == Connects("connect", "open") /\ UNCHANGED again

\* Mutant: no second attempt to connect.
ConnectFails_NoRetry ==
    /\ pc = "connect"
    /\ Fault
    /\ status' = "broken"
    /\ pc' = "reply"
    /\ UNCHANGED <<queue, closed, conn, current, again, remote, answers, runs>>

\* One retry, half a second later.
ConnectFails ==
    /\ pc = "connect"
    /\ Fault
    /\ pc' = "retry"
    /\ UNCHANGED <<queue, closed, conn, current, again, status, remote, answers, runs>>

RetryConnected == Connects("retry", "open") /\ UNCHANGED again

RetryFails ==
    /\ pc = "retry"
    /\ Fault
    /\ status' = "broken"
    /\ pc' = "reply"
    /\ UNCHANGED <<queue, closed, conn, current, again, remote, answers, runs>>

\* The connection turned out to be broken: connect again and run again.
Reconnected == Connects("reconnect", "open") /\ again' = TRUE

ReconnectFails ==
    /\ pc = "reconnect"
    /\ Fault
    /\ status' = "broken"
    /\ pc' = "reply"
    /\ UNCHANGED <<queue, closed, conn, current, again, remote, answers, runs>>

-----------------------------------------------------------------------------
(* run_exec, once or twice per request.                                     *)

Opened ==
    /\ pc = "open"
    /\ conn = "live"
    /\ pc' = "send"
    /\ UNCHANGED <<queue, closed, conn, current, again, status, remote, historyVars>>

\* The request reaches the session task; it reaches the server only while the
\* connection lives.
Sent ==
    /\ pc = "send"
    /\ remote' = IF conn = "live" THEN "requested" ELSE "none"
    /\ pc' = IF current \in WithInput THEN "input" ELSE "wait"
    /\ UNCHANGED <<queue, closed, conn, current, again, status, historyVars>>

InputSent ==
    /\ pc = "input"
    /\ pc' = "wait"
    /\ UNCHANGED <<queue, closed, conn, current, again, status, remote, historyVars>>

\* Mutant: the worker reconnects and runs again for as long as it takes.
Breaks_Forever(from) ==
    /\ pc \in from
    /\ Fault
    /\ conn' = "none" /\ pc' = "reconnect" /\ UNCHANGED status
    /\ remote' = "none"
    /\ UNCHANGED <<queue, closed, current, again, answers, runs>>

\* Opening the channel, sending the command or its input fails: the error is
\* not InvalidRequest, so the first time the handle is dropped and the worker
\* reconnects, the second time this is the answer.
Breaks(from) ==
    /\ pc \in from
    /\ Fault
    /\ IF again
       THEN /\ status' = "broken" /\ pc' = "reply" /\ UNCHANGED conn
       ELSE /\ conn' = "none" /\ pc' = "reconnect" /\ UNCHANGED status
    /\ remote' = "none"
    /\ UNCHANGED <<queue, closed, current, again, answers, runs>>

\* The server may refuse a channel on a live connection too.
OpenBreaks == Breaks({"open"})

SendBreaks == conn = "dead" /\ Breaks({"send", "input"})

SeeStatus ==
    /\ pc = "wait"
    /\ conn = "live"
    /\ remote \in {"zero", "nonzero"}
    /\ status = "none"
    /\ status' = remote
    /\ UNCHANGED <<queue, closed, pc, conn, current, again, remote, historyVars>>

\* The server is done with the channel, or the connection is dead.
ChannelOver == conn = "dead" \/ remote \in {"refused", "zero", "nonzero"}

\* Mutant: a channel that ends without an exit status is a broken connection.
WaitEnds_NoStatusIsBroken ==
    /\ pc = "wait"
    /\ ChannelOver
    /\ IF status = "none" THEN Breaks({"wait"})
       ELSE /\ pc' = "reply"
            /\ UNCHANGED <<queue, closed, conn, current, again, status, remote, historyVars>>

\* Close, or Eof before the exit status, or wait returns None because the
\* connection is gone: all end the loop in the same way, and no exit status
\* counts as success.
WaitEnds ==
    /\ pc = "wait"
    /\ ChannelOver
    /\ pc' = "reply"
    /\ UNCHANGED <<queue, closed, conn, current, again, status, remote, historyVars>>

\* Eof from a command that has closed its output and still runs.
EarlyEof ==
    /\ pc = "wait"
    /\ conn = "live"
    /\ remote = "running"
    /\ pc' = "reply"
    /\ UNCHANGED <<queue, closed, conn, current, again, status, remote, historyVars>>

\* Mutant: the request is served again after its answer.
Answer_KeepRequest ==
    /\ pc = "reply"
    /\ answers' = Append(answers, <<current, IF status \in {"none", "zero"} THEN "ok" ELSE status>>)
    /\ queue' = <<current>> \o queue
    /\ current' = NoRequest
    /\ again' = FALSE
    /\ status' = "none"
    /\ remote' = "none"
    /\ pc' = "idle"
    /\ UNCHANGED <<closed, conn, runs, faults>>

Answer ==
    /\ pc = "reply"
    /\ answers' = Append(answers, <<current, IF status \in {"none", "zero"} THEN "ok" ELSE status>>)
    /\ current' = NoRequest
    /\ again' = FALSE
    /\ status' = "none"
    /\ remote' = "none"
    /\ pc' = "idle"
    /\ UNCHANGED <<queue, closed, conn, runs, faults>>

\* The channel is closed and drained: disconnect and end.
Exit ==
    /\ pc = "idle"
    /\ closed /\ queue = <<>>
    /\ pc' = "exited"
    /\ conn' = "none"
    /\ UNCHANGED <<queue, closed, current, again, status, remote, historyVars>>

-----------------------------------------------------------------------------
Worker ==
    \/ FirstConnect \/ Take
    \/ Connected \/ ConnectFails \/ RetryConnected \/ RetryFails
    \/ Reconnected \/ ReconnectFails
    \/ Opened \/ Sent \/ InputSent \/ OpenBreaks \/ SendBreaks
    \/ SeeStatus \/ WaitEnds \/ Answer \/ Exit

Next ==
    \/ Worker
    \/ EarlyEof
    \/ Close \/ Drop \/ ServerStarts \/ ServerRefuses \/ CommandExits
    \/ \E r \in Requests : Submit(r)

Spec == Init /\ [][Next]_vars

\* The worker's task is scheduled, and each of its awaits ends: connects and
\* authentication have timeouts, a silent connection is closed after 30 s.  The
\* server answers a request, and remote commands are assumed to end; nothing
\* obliges it to send Eof early.
FairSpec ==
    /\ Spec
    /\ WF_vars(Worker)
    /\ WF_vars(ServerStarts \/ ServerRefuses)
    /\ WF_vars(CommandExits)

-----------------------------------------------------------------------------
Service == INSTANCE ExecService
              WITH serving <- {current} \ {NoRequest},
                   stopped <- (pc = "exited"),
                   Answers <- Results

\* The worker is the service that SshSession relies on.
ImplementsService == Service!Spec

\* A command is started at most once on the server, whatever breaks; only one
\* that feeds stdin may start twice, as its input is sent after it and may find
\* the connection broken (run_exec_worker's re-run).
NoBlindRerun ==
    \A r \in Requests : runs[r] > 1 => r \in WithInput

\* One fault (a failed connect, a broken run) is never enough to make a caller
\* see it: an answer other than the command's own needs two.
OneFaultHidden ==
    \A i \in DOMAIN answers : answers[i][2] = "broken" => faults[answers[i][1]] >= 2
=============================================================================
