--------------------------- MODULE ExecWorker_proofs ---------------------------
(***************************************************************************)
(* Type correctness of ExecWorker, that no command is blindly run twice    *)
(* and that a single fault is hidden from the caller, for any number of    *)
(* requests and any capacity.                                              *)
(***************************************************************************)
EXTENDS ExecWorker, TLAPS

\* The requests that have an answer.
Done == {answers[i][1] : i \in DOMAIN answers}

\* The server has started the current run of the command.
Started == remote \in {"running", "zero", "nonzero"}

\* A request is waiting, being served or answered, and only one of these.
QueueInv ==
    /\ \A i, j \in DOMAIN queue : queue[i] = queue[j] => i = j
    /\ \A i \in DOMAIN queue : queue[i] # current /\ queue[i] \notin Done
    /\ current \notin Done

\* Nothing has happened to a request that is neither.
FreshInv ==
    \A r \in Requests : r # current /\ r \notin Done => runs[r] = 0 /\ faults[r] = 0

\* Where the worker is and what it has in hand fit together.
PlaceInv ==
    /\ current = NoRequest <=> pc \in {"starting", "idle", "exited"}
    /\ current = NoRequest => remote = "none"
    /\ pc \in {"connect", "retry", "open", "send", "reconnect"} => remote = "none"
    /\ pc \notin {"wait", "reply"} => status = "none"
    /\ status = "broken" => pc = "reply"
    /\ pc = "input" => current \in WithInput
    /\ pc = "reply" /\ remote = "requested" => conn = "dead"
    /\ again => pc \in {"open", "send", "input", "wait", "reply"}

\* How often the command being served has been started.
RunsInv ==
    current \in Requests =>
        /\ current \notin WithInput => runs[current] = IF Started THEN 1 ELSE 0
        /\ pc # "reply" =>
             runs[current] <= (IF again \/ pc = "reconnect" THEN 1 ELSE 0)
                              + (IF Started THEN 1 ELSE 0)

\* How many faults were met while serving it.
FaultsInv ==
    current \in Requests =>
        /\ pc = "connect" => faults[current] = 0
        /\ pc = "retry" => faults[current] = 1
        /\ pc = "reconnect" => faults[current] \in 1 .. 2
        /\ pc \in {"open", "send", "input", "wait"} =>
             faults[current] \in (IF again THEN 1 .. 2 ELSE 0 .. 1)
        /\ status = "broken" => faults[current] >= 2

ExecInv ==
    /\ TypeOK
    /\ QueueInv
    /\ FreshInv
    /\ PlaceInv
    /\ RunsInv
    /\ FaultsInv
    /\ NoBlindRerun
    /\ OneFaultHidden
-----------------------------------------------------------------------------
(* A step that leaves the queue, the answers and the current request alone  *)
(* has only to keep the parts about that request.                           *)

ServingInv == TypeOK /\ PlaceInv /\ RunsInv /\ FaultsInv

\* Requests that are not being served are as they were.
LEMMA KeepQueue ==
    ASSUME ExecInv, UNCHANGED <<queue, answers, current>>, ServingInv',
           \A r \in Requests : r # current => runs'[r] = runs[r] /\ faults'[r] = faults[r]
    PROVE  ExecInv'
  <1> USE DEF ExecInv
  <1>1. Done' = Done
    BY DEF Done
  <1>2. QueueInv' /\ FreshInv'
    BY <1>1 DEF QueueInv, FreshInv
  <1>3. NoBlindRerun'
    BY DEF ServingInv, NoBlindRerun, RunsInv
  <1>4. OneFaultHidden'
    <2> SUFFICES ASSUME NEW i \in DOMAIN answers, answers[i][2] = "broken"
                 PROVE  faults'[answers[i][1]] >= 2
      BY DEF OneFaultHidden
    <2>1. answers[i][1] \in Requests /\ answers[i][1] # current
      BY DEF TypeOK, QueueInv, Done
    <2> QED
      BY <2>1 DEF OneFaultHidden
  <1> QED
    BY <1>2, <1>3, <1>4 DEF ServingInv

\* Steps that count neither a run nor a fault.
LEMMA PlainStep ==
    ASSUME ExecInv,
           \/ Close \/ Drop \/ CommandExits \/ ServerRefuses \/ FirstConnect
           \/ Opened \/ Sent \/ InputSent \/ SeeStatus \/ WaitEnds \/ EarlyEof
           \/ Connected \/ RetryConnected \/ Reconnected \/ Exit \/ UNCHANGED vars
    PROVE  ExecInv'
  <1> SUFFICES ServingInv' /\ UNCHANGED <<queue, answers, current, runs, faults>>
    BY KeepQueue
  <1> USE ExecAssumption DEF ExecInv, ServingInv, TypeOK, PlaceInv, RunsInv, FaultsInv,
          Started, States, Remote, Results, workerVars, historyVars
  <1>1. CASE Close
    BY <1>1 DEF Close
  <1>2. CASE Drop
    BY <1>2 DEF Drop
  <1>3. CASE CommandExits
    BY <1>3 DEF CommandExits
  <1>4. CASE ServerRefuses
    BY <1>4 DEF ServerRefuses
  <1>5. CASE FirstConnect
    BY <1>5 DEF FirstConnect
  <1>6. CASE Opened
    BY <1>6 DEF Opened
  <1>7. CASE Sent
    BY <1>7 DEF Sent
  <1>8. CASE InputSent
    BY <1>8 DEF InputSent
  <1>9. CASE SeeStatus
    BY <1>9 DEF SeeStatus
  <1>10. CASE WaitEnds
    BY <1>10 DEF WaitEnds, ChannelOver
  <1>11. CASE EarlyEof
    BY <1>11 DEF EarlyEof
  <1>12. CASE Connected
    BY <1>12 DEF Connected, Connects
  <1>13. CASE RetryConnected
    BY <1>13 DEF RetryConnected, Connects
  <1>14. CASE Reconnected
    BY <1>14 DEF Reconnected, Connects
  <1>15. CASE Exit
    BY <1>15 DEF Exit
  <1>16. CASE UNCHANGED vars
    BY <1>16 DEF vars
  <1> QED
    BY <1>1, <1>2, <1>3, <1>4, <1>5, <1>6, <1>7, <1>8, <1>9, <1>10, <1>11, <1>12, <1>13, <1>14, <1>15, <1>16

\* The server starts the command.
LEMMA StartStep ==
    ASSUME ExecInv, ServerStarts
    PROVE  ExecInv'
  <1> USE DEF ExecInv, TypeOK, PlaceInv, States, Remote, Results, workerVars
  <1>1. current \in Requests
    BY DEF ServerStarts
  <1>2. pc \in {"input", "wait"} /\ runs[current] \in 0 .. 1
    BY <1>1 DEF ServerStarts, RunsInv, Started
  <1>3. runs' \in [Requests -> 0 .. 2] /\ runs'[current] = runs[current] + 1
    BY <1>1, <1>2 DEF ServerStarts
  <1>4. RunsInv'
    BY <1>1, <1>2, <1>3 DEF ServerStarts, RunsInv, Started
  <1>5. ServingInv'
    BY <1>1, <1>2, <1>3, <1>4 DEF ServingInv, ServerStarts, FaultsInv
  <1> QED
    BY <1>1, <1>5, KeepQueue DEF ServerStarts

\* Steps that meet a fault.
LEMMA FaultStep ==
    ASSUME ExecInv,
           ConnectFails \/ RetryFails \/ ReconnectFails \/ OpenBreaks \/ SendBreaks
    PROVE  ExecInv'
  <1> USE DEF ExecInv, PlaceInv, Fault
  <1>1. current \in Requests
    BY DEF TypeOK, ConnectFails, RetryFails, ReconnectFails, OpenBreaks, SendBreaks, Breaks
  <1>2. faults[current] \in 0 .. 2
    BY <1>1 DEF FaultsInv, ConnectFails, RetryFails, ReconnectFails, OpenBreaks,
                SendBreaks, Breaks
  <1>3. faults' \in [Requests -> 0 .. 3] /\ faults'[current] = faults[current] + 1
    BY <1>1, <1>2 DEF TypeOK, ConnectFails, RetryFails, ReconnectFails, OpenBreaks,
                      SendBreaks, Breaks
  <1>4. /\ UNCHANGED <<queue, answers, current, runs>>
        /\ \A r \in Requests : r # current => faults'[r] = faults[r]
    BY <1>1 DEF TypeOK, ConnectFails, RetryFails, ReconnectFails, OpenBreaks,
                SendBreaks, Breaks
  <1>5. ServingInv'
    <2> USE <1>1, <1>2, <1>3, <1>4 DEF ServingInv, TypeOK, RunsInv, FaultsInv, Started,
            States, Remote, Results
    <2>1. CASE ConnectFails
      BY <2>1 DEF ConnectFails
    <2>2. CASE RetryFails
      BY <2>2 DEF RetryFails
    <2>3. CASE ReconnectFails
      BY <2>3 DEF ReconnectFails
    <2>4. CASE OpenBreaks
      BY <2>4 DEF OpenBreaks, Breaks
    <2>5. CASE SendBreaks
      BY <2>5 DEF SendBreaks, Breaks
    <2> QED
      BY <2>1, <2>2, <2>3, <2>4, <2>5
  <1> QED
    BY <1>4, <1>5, KeepQueue

\* A request enters the queue.
LEMMA SubmitStep ==
    ASSUME ExecInv, NEW r \in Requests, Submit(r)
    PROVE  ExecInv'
  <1> USE ExecAssumption DEF ExecInv
  <1>1. UNCHANGED <<current, answers, runs, faults, pc, conn, again, status, remote, closed>>
    BY DEF Submit, workerVars, historyVars
  <1>2. /\ r # current /\ r \notin Done
        /\ \A i \in DOMAIN queue : queue[i] # r
    BY DEF Submit, Known, Done, Range
  <1>3. /\ queue' \in Seq(Requests) /\ Len(queue') = Len(queue) + 1
        /\ \A i \in DOMAIN queue' : queue'[i] = IF i <= Len(queue) THEN queue[i] ELSE r
    BY DEF Submit, TypeOK
  <1>4. TypeOK'
    BY <1>1, <1>3 DEF Submit, TypeOK
  <1>5. Done' = Done
    BY <1>1 DEF Done
  <1>6. QueueInv'
    <2>1. /\ DOMAIN queue = 1 .. Len(queue) /\ Len(queue) \in Nat
          /\ DOMAIN queue' = 1 .. Len(queue) + 1
      BY <1>3 DEF TypeOK
    <2>2. \A i \in DOMAIN queue' :
            \/ i \in DOMAIN queue /\ queue'[i] = queue[i]
            \/ i = Len(queue) + 1 /\ queue'[i] = r
      BY <1>3, <2>1
    <2>3. \A i, j \in DOMAIN queue' : queue'[i] = queue'[j] => i = j
      BY <1>2, <2>2 DEF QueueInv
    <2>4. \A i \in DOMAIN queue' : queue'[i] # current /\ queue'[i] \notin Done
      BY <1>2, <2>2 DEF QueueInv
    <2> QED
      BY <1>1, <1>5, <2>3, <2>4 DEF QueueInv
  <1> QED
    BY <1>1, <1>4, <1>5, <1>6 DEF FreshInv, PlaceInv, RunsInv, FaultsInv, Started,
                                  NoBlindRerun, OneFaultHidden

\* The worker takes one.
LEMMA TakeStep ==
    ASSUME ExecInv, Take
    PROVE  ExecInv'
  <1> USE ExecAssumption DEF ExecInv
  <1>1. UNCHANGED <<answers, runs, faults, conn, again, status, remote, closed>>
    BY DEF Take, historyVars
  <1>2. /\ current' = queue[1] /\ queue[1] \in Requests /\ 1 \in DOMAIN queue
        /\ current = NoRequest
    BY DEF Take, TypeOK, PlaceInv
  <1>3. /\ queue' \in Seq(Requests) /\ Len(queue') = Len(queue) - 1
        /\ \A i \in DOMAIN queue' : i + 1 \in DOMAIN queue /\ queue'[i] = queue[i + 1]
    BY DEF Take, TypeOK
  <1>4. pc' \in {"connect", "open"} /\ pc = "idle"
    BY DEF Take
  <1>5. TypeOK'
    BY <1>1, <1>2, <1>3, <1>4 DEF TypeOK, States
  <1>6. Done' = Done
    BY <1>1 DEF Done
  <1>7. QueueInv'
    <2>1. /\ DOMAIN queue' \subseteq Nat \ {0}
          /\ \A i \in DOMAIN queue' : i + 1 # 1
      BY <1>3
    <2>2. \A i, j \in DOMAIN queue' : queue'[i] = queue'[j] => i = j
      <3> SUFFICES ASSUME NEW i \in DOMAIN queue', NEW j \in DOMAIN queue',
                          queue'[i] = queue'[j]
                   PROVE  i = j
        OBVIOUS
      <3>1. i + 1 = j + 1
        BY <1>3 DEF QueueInv
      <3> QED
        BY <2>1, <3>1
    <2>3. \A i \in DOMAIN queue' : queue'[i] # queue[1] /\ queue'[i] \notin Done
      BY <1>2, <1>3, <2>1 DEF QueueInv
    <2>4. queue[1] \notin Done
      BY <1>2 DEF QueueInv
    <2> QED
      BY <1>2, <1>6, <2>2, <2>3, <2>4 DEF QueueInv
  <1>8. runs[queue[1]] = 0 /\ faults[queue[1]] = 0
    BY <1>2 DEF FreshInv, QueueInv
  <1>9. FreshInv'
    BY <1>1, <1>2, <1>6 DEF FreshInv
  <1>10. PlaceInv' /\ RunsInv' /\ FaultsInv'
    BY <1>1, <1>2, <1>4, <1>8 DEF PlaceInv, RunsInv, FaultsInv, Started
  <1> QED
    BY <1>1, <1>5, <1>7, <1>9, <1>10 DEF NoBlindRerun, OneFaultHidden

\* The worker answers.
LEMMA AnswerStep ==
    ASSUME ExecInv, Answer
    PROVE  ExecInv'
  <1> USE ExecAssumption DEF ExecInv
  <1> DEFINE x == IF status \in {"none", "zero"} THEN "ok" ELSE status
  <1>1. UNCHANGED <<queue, runs, faults, conn, closed>>
    BY DEF Answer
  <1>2. /\ current \in Requests /\ x \in Results
        /\ x = "broken" => faults[current] >= 2
    BY DEF Answer, TypeOK, PlaceInv, Results, FaultsInv
  <1>3. answers' = Append(answers, <<current, x>>)
    BY DEF Answer
  <1> HIDE DEF x
  <1>4. /\ answers' \in Seq(Requests \X Results)
        /\ Len(answers') = Len(answers) + 1
        /\ \A i \in DOMAIN answers' :
             answers'[i] = IF i <= Len(answers) THEN answers[i] ELSE <<current, x>>
    BY <1>2, <1>3 DEF TypeOK
  <1>5. Done' = Done \cup {current}
    <2>1. DOMAIN answers = 1 .. Len(answers) /\ Len(answers) \in Nat
      BY DEF TypeOK
    <2>2. DOMAIN answers' = 1 .. Len(answers) + 1
      BY <1>4
    <2>3. \A i \in DOMAIN answers : i \in DOMAIN answers' /\ answers'[i] = answers[i]
      BY <1>4, <2>1, <2>2
    <2>4. answers'[Len(answers) + 1] = <<current, x>> /\ Len(answers) + 1 \in DOMAIN answers'
      BY <1>4, <2>1, <2>2
    <2>5. \A i \in DOMAIN answers' : i \in DOMAIN answers \/ i = Len(answers) + 1
      BY <2>1, <2>2
    <2> QED
      BY <2>3, <2>4, <2>5 DEF Done
  <1>6. TypeOK'
    BY <1>1, <1>4 DEF TypeOK, Answer, States, Remote
  <1>7. QueueInv'
    <2>1. Done \subseteq Requests
      BY DEF Done, TypeOK
    <2>2. \A i \in DOMAIN queue : queue[i] \in Requests
      BY DEF TypeOK
    <2>3. current' = NoRequest
      BY DEF Answer
    <2> QED
      BY <1>1, <1>2, <1>5, <2>1, <2>2, <2>3 DEF QueueInv
  <1>8. FreshInv'
    BY <1>1, <1>5 DEF FreshInv
  <1>9. PlaceInv' /\ RunsInv' /\ FaultsInv'
    BY DEF Answer, PlaceInv, RunsInv, FaultsInv
  <1>10. NoBlindRerun'
    BY <1>1 DEF NoBlindRerun
  <1>11. OneFaultHidden'
    <2> SUFFICES ASSUME NEW i \in DOMAIN answers', answers'[i][2] = "broken"
                 PROVE  faults[answers'[i][1]] >= 2
      BY <1>1 DEF OneFaultHidden
    <2>1. CASE i <= Len(answers)
      <3>1. i \in DOMAIN answers /\ answers'[i] = answers[i]
        BY <1>4, <2>1 DEF TypeOK
      <3> QED
        BY <3>1 DEF OneFaultHidden
    <2>2. CASE ~(i <= Len(answers))
      BY <1>2, <1>4, <2>2
    <2> QED
      BY <2>1, <2>2
  <1> QED
    BY <1>6, <1>7, <1>8, <1>9, <1>10, <1>11

\* ExecInv is inductive.
LEMMA ExecInvariant == Spec => []ExecInv
  <1>1. Init => ExecInv
    <2> SUFFICES ASSUME Init PROVE ExecInv
      OBVIOUS
    <2>1. TypeOK
      <3>1. queue \in Seq(Requests) /\ Len(queue) = 0
        BY DEF Init
      <3>2. answers \in Seq(Requests \X Results)
        BY DEF Init
      <3>3. runs \in [Requests -> 0 .. 2] /\ faults \in [Requests -> 0 .. 3]
        BY DEF Init
      <3>4. /\ pc \in States /\ remote \in Remote /\ conn \in {"none", "live", "dead"}
            /\ current \in Requests \cup {NoRequest}
            /\ status \in {"none", "zero", "nonzero", "broken"}
            /\ closed \in BOOLEAN /\ again \in BOOLEAN
        BY DEF Init, States, Remote
      <3>5. Len(queue) <= Cap
        BY <3>1, ExecAssumption
      <3> QED
        BY <3>1, <3>2, <3>3, <3>4, <3>5 DEF TypeOK
    <2>2. DOMAIN queue = {} /\ DOMAIN answers = {}
      BY DEF Init
    <2>3. Done = {}
      BY <2>2 DEF Done
    <2>4. QueueInv /\ FreshInv /\ OneFaultHidden /\ NoBlindRerun
      BY <2>2, <2>3 DEF Init, QueueInv, FreshInv, OneFaultHidden, NoBlindRerun
    <2>5. PlaceInv /\ RunsInv /\ FaultsInv
      BY ExecAssumption DEF Init, PlaceInv, RunsInv, FaultsInv
    <2> QED
      BY <2>1, <2>4, <2>5 DEF ExecInv
  <1>2. ExecInv /\ [Next]_vars => ExecInv'
    BY PlainStep, StartStep, FaultStep, SubmitStep, TakeStep, AnswerStep
       DEF Next, Worker
  <1> QED
    BY <1>1, <1>2, PTL DEF Spec

\* Type correctness of the exec worker.
THEOREM TypeCorrect == Spec => []TypeOK
  <1>1. ExecInv => TypeOK
    BY DEF ExecInv
  <1> QED
    BY <1>1, ExecInvariant, PTL

\* However connections break, a command that feeds no stdin is started at most
\* once on the server (run_exec_worker).
THEOREM CommandsRunOnce == Spec => []NoBlindRerun
  <1>1. ExecInv => NoBlindRerun
    BY DEF ExecInv
  <1> QED
    BY <1>1, ExecInvariant, PTL

\* A caller sees a connection error only after two faults (run_exec_worker).
THEOREM SingleFaultHidden == Spec => []OneFaultHidden
  <1>1. ExecInv => OneFaultHidden
    BY DEF ExecInv
  <1> QED
    BY <1>1, ExecInvariant, PTL

-----------------------------------------------------------------------------
(* The worker does what ExecService promises.                               *)

\* What the service's users see of the worker.
Serving == {current} \ {NoRequest}
Stopped == pc = "exited"

\* A step that takes, answers, accepts and closes nothing is none of theirs.
LEMMA ServiceStutter ==
    ASSUME ExecInv, UNCHANGED <<queue, current, answers, closed>>, Stopped' <=> Stopped
    PROVE  UNCHANGED Service!vars
  <1>1. Stopped' = Stopped
    BY DEF Stopped
  <1> QED
    BY <1>1 DEF Service!vars, Stopped

\* Every step of the worker is a step of the service, or none of it.
LEMMA ServiceStep ==
    ASSUME ExecInv, [Next]_vars
    PROVE  [Service!Next]_(Service!vars)
  <1>1. ASSUME NEW r \in Requests, Submit(r) PROVE Service!Submit(r)
    <2>1. ~closed /\ Len(queue) < Cap /\ queue' = Append(queue, r)
          /\ UNCHANGED <<current, answers, closed, pc>>
      BY <1>1 DEF Submit, workerVars, historyVars
    <2>2. r \notin Service!Known
      BY <1>1 DEF Submit, Known, Range, Service!Known, Service!Range
    <2> QED
      BY <2>1, <2>2 DEF Service!Submit
  <1>2. ASSUME Take PROVE Service!Take
    <2>1. queue # <<>> /\ pc = "idle" /\ pc' # "exited" /\ current' = Head(queue)
          /\ queue' = Tail(queue) /\ UNCHANGED <<answers, closed>>
      BY <1>2 DEF Take, historyVars
    <2>2. current = NoRequest
      BY <2>1 DEF ExecInv, PlaceInv
    <2>3. Head(queue) \in Requests
      BY <2>1 DEF ExecInv, TypeOK
    <2>4. {current'} \ {NoRequest} = {Head(queue)} /\ {current} \ {NoRequest} = {}
      BY <2>1, <2>2, <2>3, ExecAssumption
    <2>5. (pc' = "exited") = (pc = "exited")
      BY <2>1
    <2> QED
      BY <2>1, <2>4, <2>5 DEF Service!Take
  <1>3. ASSUME Answer PROVE \E r \in Requests, x \in Results : Service!Reply(r, x)
    <2> DEFINE x == IF status \in {"none", "zero"} THEN "ok" ELSE status
    <2>1. pc = "reply" /\ pc' = "idle" /\ answers' = Append(answers, <<current, x>>)
          /\ current' = NoRequest /\ UNCHANGED <<queue, closed>>
      BY <1>3 DEF Answer
    <2>2. current \in Requests /\ current # NoRequest /\ x \in Results
      BY <2>1, ExecAssumption DEF ExecInv, TypeOK, PlaceInv, Results
    <2>3. {current} \ {NoRequest} = {current} /\ {current'} \ {NoRequest} = {}
      BY <2>1, <2>2
    <2>4. (pc' = "exited") = (pc = "exited")
      BY <2>1
    <2> HIDE DEF x
    <2>5. Service!Reply(current, x)
      BY <2>1, <2>3, <2>4 DEF Service!Reply
    <2> QED
      BY <2>2, <2>5
  <1>4. ASSUME Close PROVE Service!Close
    BY <1>4 DEF Close, workerVars, historyVars, Service!Close
  <1>5. ASSUME Exit PROVE Service!Stop
    <2>1. pc = "idle" /\ closed /\ queue = <<>> /\ pc' = "exited"
          /\ UNCHANGED <<queue, closed, current, answers>>
      BY <1>5 DEF Exit, historyVars
    <2>2. {current} \ {NoRequest} = {}
      BY <2>1 DEF ExecInv, PlaceInv
    <2>3. (pc = "exited") = FALSE /\ (pc' = "exited") = TRUE
      BY <2>1
    <2> QED
      BY <2>1, <2>2, <2>3 DEF Service!Stop
  <1>6. ASSUME \/ FirstConnect
               \/ Connected \/ ConnectFails \/ RetryConnected \/ RetryFails
               \/ Reconnected \/ ReconnectFails
               \/ Opened \/ Sent \/ InputSent \/ OpenBreaks \/ SendBreaks
               \/ SeeStatus \/ WaitEnds \/ EarlyEof
        PROVE  UNCHANGED Service!vars
    <2>1. UNCHANGED <<queue, current, answers, closed>> /\ pc # "exited" /\ pc' # "exited"
      BY <1>6 DEF FirstConnect, Connected, ConnectFails, RetryConnected, RetryFails,
                  Reconnected, ReconnectFails, Opened, Sent, InputSent, OpenBreaks, SendBreaks,
                  SeeStatus, WaitEnds, EarlyEof, Breaks, Connects, historyVars
    <2> QED
      BY <2>1, ServiceStutter DEF Stopped
  <1>7. ASSUME Drop \/ ServerStarts \/ ServerRefuses \/ CommandExits \/ UNCHANGED vars
        PROVE  UNCHANGED Service!vars
    <2>1. UNCHANGED <<queue, current, answers, closed, pc>>
      BY <1>7 DEF Drop, ServerStarts, ServerRefuses, CommandExits, vars, workerVars, historyVars
    <2> QED
      BY <2>1, ServiceStutter DEF Stopped
  <1> QED
    BY <1>1, <1>2, <1>3, <1>4, <1>5, <1>6, <1>7 DEF Next, Worker, Service!Next, Service!Serve

\* The worker implements the safety part of the service that its users rely on:
\* one command at a time, in the order accepted, one answer each, and a stop
\* only when no more can come (run_exec_worker).
THEOREM ServiceImplemented == Spec => Service!Init /\ [][Service!Next]_(Service!vars)
  <1>1. Init => Service!Init
    BY DEF Init, Service!Init
  <1>2. ExecInv /\ [Next]_vars => [Service!Next]_(Service!vars)
    BY ServiceStep
  <1> QED
    BY <1>1, <1>2, ExecInvariant, PTL DEF Spec

\* No caller is answered twice: each has a oneshot channel, which takes one value.
AnsweredOnce == \A i, j \in DOMAIN answers : answers[i][1] = answers[j][1] => i = j

\* A step of the service answers what is being served, and that has no answer.
LEMMA AnsweredOnceStep ==
    ASSUME ExecInv, AnsweredOnce, [Service!Next]_(Service!vars)
    PROVE  AnsweredOnce'
  <1>1. CASE UNCHANGED answers
    BY <1>1 DEF AnsweredOnce
  <1>2. ASSUME NEW r, NEW x, Service!Reply(r, x) PROVE AnsweredOnce'
    <2>1. answers' = Append(answers, <<r, x>>) /\ r = current
      BY <1>2 DEF Service!Reply
    <2>2. answers \in Seq(Requests \X Results) /\ r \notin Done
      BY <2>1 DEF ExecInv, TypeOK, QueueInv
    <2>3. /\ DOMAIN answers = 1 .. Len(answers) /\ Len(answers) \in Nat
          /\ DOMAIN answers' = 1 .. (Len(answers) + 1)
          /\ \A i \in DOMAIN answers : answers'[i] = answers[i]
          /\ answers'[Len(answers) + 1] = <<r, x>>
      BY <2>1, <2>2
    <2>4. \A i \in DOMAIN answers' : i \in DOMAIN answers \/ i = Len(answers) + 1
      BY <2>3
    <2>5. \A i \in DOMAIN answers : answers[i][1] # r
      BY <2>2 DEF Done
    <2>6. (answers'[Len(answers) + 1])[1] = r
      BY <2>3
    <2> QED
      BY <2>3, <2>4, <2>5, <2>6 DEF AnsweredOnce
  <1> QED
    BY <1>1, <1>2 DEF Service!Next, Service!Serve, Service!Take, Service!Stop, Service!Close,
                      Service!Submit, Service!vars

\* However often a command is re-run and connections break, its caller is
\* answered at most once (run_exec_worker).
THEOREM NoSecondAnswer == Spec => []AnsweredOnce
  <1>1. Init => AnsweredOnce
    BY DEF Init, AnsweredOnce
  <1>2. ExecInv /\ AnsweredOnce /\ [Next]_vars => AnsweredOnce'
    BY ServiceStep, AnsweredOnceStep
  <1> QED
    BY <1>1, <1>2, ExecInvariant, PTL DEF Spec
=============================================================================
