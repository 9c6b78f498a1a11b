-------------------------- MODULE SshSession_proofs --------------------------
(***************************************************************************)
(* Proofs about SshSession, for every number of sessions and calls and     *)
(* every capacity of the channels.                                         *)
(***************************************************************************)
EXTENDS SshSession, SequenceTheorems, TLAPS

\* Taking the head off a nonempty sequence leaves a sequence whose elements,
\* with the head, are those it had.
LEMMA TailElements ==
    ASSUME NEW S, NEW q \in Seq(S), q # <<>>
    PROVE  /\ Head(q) \in S
           /\ Tail(q) \in Seq(S)
           /\ Range(q) \subseteq Range(Tail(q)) \cup {Head(q)}
           /\ Range(Tail(q)) \subseteq Range(q)
           /\ Range(q) \subseteq S
  <1>1. Head(q) \in S /\ Tail(q) \in Seq(S) /\ Len(q) \in Nat /\ Len(q) > 0
    OBVIOUS
  <1>2. /\ Len(Tail(q)) = Len(q) - 1
        /\ \A i \in 1 .. Len(q) - 1 : Tail(q)[i] = q[i + 1]
        /\ DOMAIN q = 1 .. Len(q)
        /\ DOMAIN Tail(q) = 1 .. Len(Tail(q))
    BY <1>1
  <1>3. ASSUME NEW x \in Range(q), x # Head(q) PROVE x \in Range(Tail(q))
    <2>1. PICK i \in 1 .. Len(q) : q[i] = x
      BY <1>2 DEF Range
    <2>2. i # 1
      BY <2>1, <1>3
    <2>3. i - 1 \in 1 .. Len(q) - 1 /\ Tail(q)[i - 1] = x
      BY <2>1, <2>2, <1>1, <1>2
    <2> QED
      BY <2>3, <1>1, <1>2 DEF Range
  <1>4. Range(Tail(q)) \subseteq Range(q)
    BY <1>1, <1>2 DEF Range
  <1>5. Range(q) \subseteq S
    BY <1>2 DEF Range
  <1> QED
    BY <1>1, <1>3, <1>4, <1>5

\* Appending keeps the elements and adds the new one.
LEMMA AppendElements ==
    ASSUME NEW S, NEW q \in Seq(S), NEW x \in S
    PROVE  /\ Append(q, x) \in Seq(S)
           /\ Range(Append(q, x)) = Range(q) \cup {x}
  <1>1. /\ Append(q, x) \in Seq(S)
        /\ Len(q) \in Nat
        /\ DOMAIN q = 1 .. Len(q)
        /\ DOMAIN Append(q, x) = 1 .. Len(q) + 1
        /\ \A i \in 1 .. Len(q) : Append(q, x)[i] = q[i]
        /\ Append(q, x)[Len(q) + 1] = x
    OBVIOUS
  <1>2. Range(Append(q, x)) \subseteq Range(q) \cup {x}
    BY <1>1 DEF Range
  <1>3. Range(q) \subseteq Range(Append(q, x))
    BY <1>1 DEF Range
  <1>4. x \in Range(Append(q, x))
    <2>1. Len(q) + 1 \in DOMAIN Append(q, x)
      BY <1>1
    <2> QED
      BY <2>1, <1>1 DEF Range
  <1> QED
    BY <1>1, <1>2, <1>3, <1>4

-----------------------------------------------------------------------------
\* No step puts more into a channel than it holds.
LEMMA ChannelsStep ==
    ASSUME TypeOK, [Next]_vars
    PROVE  ChannelsBounded'
  <1> USE ConstantsAssumption DEF TypeOK, ChannelsBounded
  <1>1. ASSUME NEW q \in Seq(Callers)
        PROVE  /\ Len(q) \in Nat
               /\ q # <<>> => Len(Tail(q)) <= Len(q)
               /\ \A x \in Callers : Len(Append(q, x)) = Len(q) + 1
    BY <1>1
  <1>2. ASSUME NEW s \in Sessions, UNCHANGED execs, commands' = [commands EXCEPT ![s] = <<>>]
        PROVE  ChannelsBounded'
    BY <1>2
  <1>3. ASSUME NEW s \in Sessions, UNCHANGED execs, commands[s] # <<>>,
               commands' = [commands EXCEPT ![s] = Tail(@)]
        PROVE  ChannelsBounded'
    <2>1. Len(Tail(commands[s])) <= Len(commands[s]) /\ Len(commands[s]) \in Nat
          /\ Len(Tail(commands[s])) \in Nat
      BY <1>3
    <2> QED
      BY <1>3, <2>1
  <1>4. ASSUME UNCHANGED <<commands, execs>> PROVE ChannelsBounded'
    BY <1>4
  <1>5. ASSUME NEW s \in Sessions, Runtime(s) PROVE ChannelsBounded'
    <2>1. CASE ForwardExec(s)
      <3>1. PICK c \in held[s] : execs' = [execs EXCEPT ![s] = Append(@, c)]
        BY <2>1 DEF ForwardExec
      <3>2. c \in Callers /\ Len(execs[s]) < ExecCap /\ UNCHANGED commands
        BY <2>1 DEF ForwardExec
      <3>3. Len(Append(execs[s], c)) <= ExecCap
        BY <1>1, <3>2
      <3> QED
        BY <3>1, <3>2, <3>3
    <2>2. CASE ~ForwardExec(s)
      BY <1>2, <1>3, <1>4, <1>5, <2>2, Zenon
         DEF Runtime, ConnectFails, ConnectSucceeds, WriteToChannel, WriteFails,
             NextCommand, TakeExec, HandleDisconnect, ReportError, RemoveSession,
             EmitFinal, RunReturns, DropReceiver
    <2> QED
      BY <2>1, <2>2
  <1>6. ASSUME NEW s \in Sessions, Worker(s) PROVE ChannelsBounded'
    <2>1. CASE WorkerTake(s)
      <3>1. Len(Tail(execs[s])) <= Len(execs[s]) /\ Len(execs[s]) \in Nat
            /\ Len(Tail(execs[s])) \in Nat
        BY <2>1 DEF WorkerTake
      <3> QED
        BY <2>1, <3>1 DEF WorkerTake
    <2>2. CASE ~WorkerTake(s)
      BY <1>4, <1>6, <2>2, Zenon DEF Worker, WorkerAnswer, WorkerExit
    <2> QED
      BY <2>1, <2>2
  <1>7. ASSUME NEW s \in Sessions, Connect(s) \/ ChannelData(s) \/ ChannelCloses(s)
        PROVE  ChannelsBounded'
    BY <1>2, <1>4, <1>7, Zenon
       DEF Connect, ChannelData, ChannelCloses, RunReturns, DropReceiver, runtimeVars
  <1>8. ASSUME NEW c \in Callers, Call(c) PROVE ChannelsBounded'
    <2>1. CASE Send(c)
      <3>1. Len(Append(commands[sid[c]], c)) <= CommandCap
        BY <1>1, <2>1 DEF Send
      <3> QED
        BY <2>1, <3>1 DEF Send
    <2>2. CASE ~Send(c)
      BY <1>4, <1>8, <2>2, Zenon
         DEF Call, Begin, LookupFound, LookupMissing, SendFails, Detected, runtimeVars
    <2> QED
      BY <2>1, <2>2
  <1>9. CASE UNCHANGED vars
    BY <1>4, <1>9 DEF vars, runtimeVars
  <1> QED
    BY <1>5, <1>6, <1>7, <1>8, <1>9 DEF Next, Quiescent

\* The types of the variables are preserved by every step.
LEMMA TypeStep == TypeOK /\ [Next]_vars => TypeOK'
  <1> SUFFICES ASSUME TypeOK, [Next]_vars
               PROVE  TypeOK'
    OBVIOUS
  <1>0. ChannelsBounded'
    BY ChannelsStep
  <1> USE <1>0
  <1> USE DEF TypeOK, TaskStates, Ops, ExecOps, Platforms, Events, FinalEvents
  <1>1. ASSUME NEW s \in Sessions, Connect(s) PROVE TypeOK'
    <2>1. sessions' \in SUBSET Sessions
      BY <1>1 DEF Connect
    <2>2. events' \in [Sessions -> Seq(Events)]
      BY <1>1 DEF Connect, Emit
    <2>3. task' \in [Sessions -> TaskStates]
      BY <1>1 DEF Connect
    <2> QED
      BY <1>1, <2>1, <2>2, <2>3 DEF Connect, callerVars
  <1>2. ASSUME NEW s \in Sessions, NEW how \in {"ended", "failed"},
               NEW q, RunReturns(s, how, q), handled' \in [Sessions -> Seq(Callers)]
        PROVE  TypeOK'
    <2>1. pc' \in [Callers -> {"idle", "lookup", "sending", "waiting", "answered"}]
      BY <1>2, Zenon DEF RunReturns, DropReceiver
    <2>2. answer' \in [Callers -> {"none", "ok", "err"}]
      BY <1>2, Zenon DEF RunReturns, DropReceiver
    <2>3. commands' \in [Sessions -> Seq(Callers)]
      BY <1>2 DEF RunReturns, DropReceiver
    <2>4. task' \in [Sessions -> TaskStates]
      BY <1>2 DEF RunReturns
    <2> QED
      BY <1>2, <2>1, <2>2, <2>3, <2>4 DEF RunReturns, DropReceiver, managerVars
  <1>3. ASSUME NEW s \in Sessions, ConnectFails(s) PROVE TypeOK'
    BY <1>2, <1>3 DEF ConnectFails
  <1>4. ASSUME NEW s \in Sessions, ConnectSucceeds(s) PROVE TypeOK'
    BY <1>4 DEF ConnectSucceeds, Emit, managerVars, callerVars
  <1>5. ASSUME NEW s \in Sessions, NEW ops, NextCommand(s, ops)
        PROVE  /\ handled' \in [Sessions -> Seq(Callers)]
               /\ Head(commands[s]) \in Callers
               /\ Tail(commands[s]) \in Seq(Callers)
    BY <1>5 DEF NextCommand
  <1>6. ASSUME NEW s \in Sessions, WriteToChannel(s) PROVE TypeOK'
    BY <1>5, <1>6 DEF WriteToChannel, managerVars, callerVars
  <1>7. ASSUME NEW s \in Sessions, WriteFails(s) PROVE TypeOK'
    BY <1>2, <1>5, <1>7 DEF WriteFails
  <1>8. ASSUME NEW s \in Sessions, TakeExec(s) PROVE TypeOK'
    BY <1>5, <1>8 DEF TakeExec, managerVars, callerVars
  <1>9. ASSUME NEW s \in Sessions, ForwardExec(s) PROVE TypeOK'
    <2>1. execs' \in [Sessions -> Seq(Callers)]
      BY <1>9 DEF ForwardExec
    <2>2. /\ task' \in [Sessions -> TaskStates]
          /\ held' \in [Sessions -> SUBSET Callers]
      BY <1>9 DEF ForwardExec
    <2> QED
      BY <1>9, <2>1, <2>2 DEF ForwardExec, managerVars, historyVars, callerVars
  <1>10. ASSUME NEW s \in Sessions, HandleDisconnect(s) PROVE TypeOK'
    BY <1>2, <1>5, <1>10 DEF HandleDisconnect
  <1>11. ASSUME NEW s \in Sessions, ChannelData(s) PROVE TypeOK'
    <2>1. events' \in [Sessions -> Seq(Events)]
      BY <1>11 DEF ChannelData, Emit
    <2> QED
      BY <1>11, <2>1 DEF ChannelData, managerVars, runtimeVars, callerVars
  <1>12. ASSUME NEW s \in Sessions, ChannelCloses(s) PROVE TypeOK'
    BY <1>2, <1>12 DEF ChannelCloses
  <1>13. ASSUME NEW s \in Sessions, ReportError(s) PROVE TypeOK'
    BY <1>13 DEF ReportError, Emit, managerVars, callerVars
  <1>14. ASSUME NEW s \in Sessions, RemoveSession(s) PROVE TypeOK'
    BY <1>14 DEF RemoveSession, historyVars, callerVars
  <1>15. ASSUME NEW s \in Sessions, EmitFinal(s) PROVE TypeOK'
    BY <1>15 DEF EmitFinal, Emit, managerVars, callerVars
  <1>16. ASSUME NEW s \in Sessions, WorkerTake(s) PROVE TypeOK'
    <2>1. Head(execs[s]) \in Callers /\ Tail(execs[s]) \in Seq(Callers)
      BY <1>16 DEF WorkerTake
    <2> QED
      BY <1>16, <2>1 DEF WorkerTake, managerVars, historyVars, callerVars
  <1>17. ASSUME NEW s \in Sessions, NEW result \in {"ok", "err"}, WorkerAnswer(s, result)
         PROVE  TypeOK'
    BY <1>17 DEF WorkerAnswer, managerVars, historyVars
  <1>18. ASSUME NEW s \in Sessions, WorkerExit(s) PROVE TypeOK'
    BY <1>18 DEF WorkerExit, managerVars, historyVars, callerVars
  <1>19. ASSUME NEW c \in Callers, Call(c) PROVE TypeOK'
    <2>1. CASE Begin(c)
      BY <2>1 DEF Begin, managerVars, runtimeVars, historyVars
    <2>2. CASE LookupFound(c)
      BY <2>2 DEF LookupFound, managerVars, runtimeVars, historyVars
    <2>3. CASE LookupMissing(c)
      BY <2>3 DEF LookupMissing, managerVars, runtimeVars, historyVars
    <2>4. CASE Send(c)
      <3>1. commands' \in [Sessions -> Seq(Callers)]
        BY <2>4 DEF Send
      <3>2. accepted' \in [Sessions -> Seq(Callers)]
        BY <2>4 DEF Send
      <3>3. pc' \in [Callers -> {"idle", "lookup", "sending", "waiting", "answered"}]
        BY <2>4 DEF Send
      <3>4. answer' \in [Callers -> {"none", "ok", "err"}]
        BY <2>4 DEF Send
      <3> QED
        BY <2>4, <3>1, <3>2, <3>3, <3>4 DEF Send, managerVars
    <2>5. CASE SendFails(c)
      BY <2>5 DEF SendFails, managerVars, runtimeVars, historyVars
    <2>6. CASE Detected(c)
      BY <2>6 DEF Detected, runtimeVars, historyVars
    <2> QED
      BY <1>19, <2>1, <2>2, <2>3, <2>4, <2>5, <2>6 DEF Call
  <1>20. CASE UNCHANGED vars
    BY <1>20 DEF vars, managerVars, runtimeVars, historyVars, callerVars
  <1> QED
    BY <1>1, <1>3, <1>4, <1>6, <1>7, <1>8, <1>9, <1>10, <1>11, <1>12, <1>13,
       <1>14, <1>15, <1>16, <1>17, <1>18, <1>19, <1>20
       DEF Next, Runtime, Worker, Quiescent

\* Before anything happens the types hold and the channels are empty.
LEMMA TypeInit == Init => TypeOK
  <1>1. Init => ChannelsBounded
    BY ConstantsAssumption DEF Init, ChannelsBounded
  <1> QED
    BY <1>1 DEF Init, TypeOK, TaskStates, Ops, Platforms, Events

\* Type correctness: every variable keeps its type in every behaviour, and no
\* channel holds more than its capacity.
THEOREM TypeCorrect == Spec => []TypeOK
  <1> QED
    BY TypeInit, TypeStep, PTL DEF Spec

-----------------------------------------------------------------------------
(* AnswerOwed.  The invariant adds that a runtime has a live worker from    *)
(* the moment it is connected and none before, that it holds at most one    *)
(* request, and that only Exec callers wait.                                *)

WorkerAlive ==
    \A s \in Sessions :
        /\ task[s] \in {"running", "forwarding"} => worker[s] \in {"idle", "busy"}
        /\ task[s] \in {"none", "connecting"} => worker[s] = "none"

HoldsOne == \A s \in Sessions : \A c, d \in held[s] : c = d

OnlyExecWaits == \A c \in Callers : pc[c] = "waiting" => op[c] \in ExecOps

OwedInv == TypeOK /\ AnswerOwed /\ WorkerAlive /\ HoldsOne /\ OnlyExecWaits

\* Where the request of a waiting caller is, as one predicate per caller.
Owed(c) ==
    LET s == sid[c]
    IN  \/ Receiving(s) /\ c \in Range(commands[s])
        \/ task[s] = "forwarding" /\ c \in held[s]
        \/ worker[s] \in {"idle", "busy"} /\ c \in Range(execs[s])
        \/ worker[s] = "busy" /\ c \in serving[s]

\* The three supporting conjuncts are preserved by every step.
LEMMA OwedSupportStep ==
    ASSUME OwedInv, [Next]_vars
    PROVE  WorkerAlive' /\ HoldsOne' /\ OnlyExecWaits'
  <1> USE DEF OwedInv, TypeOK, WorkerAlive, HoldsOne, OnlyExecWaits
  <1>1. ASSUME NEW s \in Sessions, Connect(s) PROVE WorkerAlive' /\ HoldsOne' /\ OnlyExecWaits'
    BY <1>1 DEF Connect, callerVars
  <1>2. ASSUME NEW s \in Sessions, NEW how \in {"ended", "failed"}, NEW q, RunReturns(s, how, q)
        PROVE  WorkerAlive' /\ HoldsOne' /\ OnlyExecWaits'
    BY <1>2 DEF RunReturns, DropReceiver
  <1>3. ASSUME NEW s \in Sessions, ConnectSucceeds(s) PROVE WorkerAlive' /\ HoldsOne' /\ OnlyExecWaits'
    BY <1>3 DEF ConnectSucceeds, callerVars
  <1>4. ASSUME NEW s \in Sessions, WriteToChannel(s) PROVE WorkerAlive' /\ HoldsOne' /\ OnlyExecWaits'
    BY <1>4 DEF WriteToChannel, callerVars
  <1>5. ASSUME NEW s \in Sessions, TakeExec(s) PROVE WorkerAlive' /\ HoldsOne' /\ OnlyExecWaits'
    BY <1>5 DEF TakeExec, NextCommand, callerVars
  <1>6. ASSUME NEW s \in Sessions, ForwardExec(s) PROVE WorkerAlive' /\ HoldsOne' /\ OnlyExecWaits'
    BY <1>6 DEF ForwardExec, callerVars
  <1>7. ASSUME NEW s \in Sessions, ChannelData(s) PROVE WorkerAlive' /\ HoldsOne' /\ OnlyExecWaits'
    BY <1>7 DEF ChannelData, runtimeVars, callerVars
  <1>8. ASSUME NEW s \in Sessions, ReportError(s) \/ RemoveSession(s) \/ EmitFinal(s)
        PROVE  WorkerAlive' /\ HoldsOne' /\ OnlyExecWaits'
    <2>1. CASE ReportError(s)
      BY <2>1 DEF ReportError, callerVars
    <2>2. CASE RemoveSession(s)
      BY <2>2 DEF RemoveSession, callerVars
    <2>3. CASE EmitFinal(s)
      BY <2>3 DEF EmitFinal, callerVars
    <2> QED
      BY <1>8, <2>1, <2>2, <2>3
  <1>9. ASSUME NEW s \in Sessions, WorkerTake(s) PROVE WorkerAlive' /\ HoldsOne' /\ OnlyExecWaits'
    BY <1>9 DEF WorkerTake, callerVars
  <1>10. ASSUME NEW s \in Sessions, NEW result, WorkerAnswer(s, result)
         PROVE  WorkerAlive' /\ HoldsOne' /\ OnlyExecWaits'
    BY <1>10 DEF WorkerAnswer
  <1>11. ASSUME NEW s \in Sessions, WorkerExit(s) PROVE WorkerAlive' /\ HoldsOne' /\ OnlyExecWaits'
    BY <1>11 DEF WorkerExit, Receiving, callerVars
  <1>12. ASSUME NEW c \in Callers, Call(c) PROVE WorkerAlive' /\ HoldsOne' /\ OnlyExecWaits'
    <2>1. WorkerAlive' /\ HoldsOne'
      BY <1>12 DEF Call, Begin, LookupFound, LookupMissing, Send, SendFails, Detected,
                   runtimeVars
    <2>2. OnlyExecWaits'
      BY <1>12 DEF Call, Begin, LookupFound, LookupMissing, Send, SendFails, Detected,
                   ExecOps
    <2> QED
      BY <2>1, <2>2
  <1>13. CASE UNCHANGED vars
    BY <1>13 DEF vars, runtimeVars, callerVars
  <1> QED
    BY <1>1, <1>2, <1>3, <1>4, <1>5, <1>6, <1>7, <1>8, <1>9, <1>10, <1>11, <1>12, <1>13
       DEF Next, Runtime, Worker, Quiescent, ConnectFails, WriteFails,
           HandleDisconnect, ChannelCloses

\* A caller that still waits after a step is still owed its answer.
LEMMA OwedStep ==
    ASSUME OwedInv, [Next]_vars
    PROVE  AnswerOwed'
  <1> SUFFICES ASSUME NEW c \in Callers, pc'[c] = "waiting"
               PROVE  Owed(c)'
    BY DEF AnswerOwed, Owed
  <1> USE DEF OwedInv, TypeOK
  <1>0. pc[c] = "waiting" => Owed(c)
    BY DEF AnswerOwed, Owed
  <1> USE DEF Owed, Receiving
  <1>1. ASSUME NEW s \in Sessions, Connect(s) PROVE Owed(c)'
    BY <1>0, <1>1 DEF Connect, callerVars
  <1>2. ASSUME NEW s \in Sessions, NEW how \in {"ended", "failed"}, NEW q,
               RunReturns(s, how, q), task[s] # "forwarding",
               \A d \in Range(commands[s]) : pc[d] = "waiting" => d \in Range(q)
        PROVE  Owed(c)'
    <2>1. pc[c] = "waiting" /\ c \notin Range(q)
      BY <1>2 DEF RunReturns, DropReceiver
    <2>2. sid[c] = s => ~(c \in Range(commands[s]))
      BY <2>1, <1>2
    <2> QED
      BY <1>0, <1>2, <2>1, <2>2 DEF RunReturns, DropReceiver
  <1>3. ASSUME NEW s \in Sessions, ConnectFails(s) PROVE Owed(c)'
    BY <1>2, <1>3 DEF ConnectFails
  <1>4. ASSUME NEW s \in Sessions, ConnectSucceeds(s) PROVE Owed(c)'
    BY <1>0, <1>4 DEF ConnectSucceeds, callerVars, WorkerAlive
  <1>5. ASSUME NEW s \in Sessions, commands[s] # <<>>
        PROVE  /\ Head(commands[s]) \in Callers
               /\ Range(commands[s]) \subseteq Range(Tail(commands[s])) \cup {Head(commands[s])}
    BY <1>5, TailElements
  <1>6. ASSUME NEW s \in Sessions, WriteToChannel(s) PROVE Owed(c)'
    <2>1. pc[c] = "waiting" /\ c # Head(commands[s])
      BY <1>6 DEF WriteToChannel, NextCommand, callerVars, OnlyExecWaits, ExecOps
    <2> QED
      BY <1>0, <1>5, <1>6, <2>1 DEF WriteToChannel, NextCommand, callerVars
  <1>7. ASSUME NEW s \in Sessions, WriteFails(s) PROVE Owed(c)'
    <2>1. \A d \in Range(commands[s]) : pc[d] = "waiting" => d \in Range(Tail(commands[s]))
      BY <1>5, <1>7 DEF WriteFails, NextCommand, OnlyExecWaits, ExecOps
    <2> QED
      BY <1>2, <1>7, <2>1 DEF WriteFails, NextCommand
  <1>8. ASSUME NEW s \in Sessions, TakeExec(s) PROVE Owed(c)'
    BY <1>0, <1>5, <1>8 DEF TakeExec, NextCommand, callerVars
  <1>9. ASSUME NEW s \in Sessions, ForwardExec(s) PROVE Owed(c)'
    <2>1. PICK d \in held[s] : execs' = [execs EXCEPT ![s] = Append(@, d)]
      BY <1>9 DEF ForwardExec
    <2>2. Range(execs'[s]) = Range(execs[s]) \cup {d}
      BY <2>1, AppendElements
    <2>3. c \in held[s] => c = d
      BY DEF HoldsOne
    <2> QED
      BY <1>0, <1>9, <2>1, <2>2, <2>3 DEF ForwardExec, callerVars, WorkerAlive
  <1>10. ASSUME NEW s \in Sessions, HandleDisconnect(s) PROVE Owed(c)'
    <2>1. \A d \in Range(commands[s]) : pc[d] = "waiting" => d \in Range(Tail(commands[s]))
      BY <1>5, <1>10 DEF HandleDisconnect, NextCommand, OnlyExecWaits, ExecOps
    <2> QED
      BY <1>2, <1>10, <2>1 DEF HandleDisconnect, NextCommand
  <1>11. ASSUME NEW s \in Sessions, ChannelData(s) PROVE Owed(c)'
    BY <1>0, <1>11 DEF ChannelData, runtimeVars, callerVars
  <1>12. ASSUME NEW s \in Sessions, ChannelCloses(s) PROVE Owed(c)'
    BY <1>2, <1>12 DEF ChannelCloses
  <1>13. ASSUME NEW s \in Sessions, ReportError(s) \/ RemoveSession(s) \/ EmitFinal(s)
         PROVE  Owed(c)'
    <2>1. CASE ReportError(s)
      BY <1>0, <2>1 DEF ReportError, callerVars
    <2>2. CASE RemoveSession(s)
      BY <1>0, <2>2 DEF RemoveSession, callerVars
    <2>3. CASE EmitFinal(s)
      BY <1>0, <2>3 DEF EmitFinal, callerVars
    <2> QED
      BY <1>13, <2>1, <2>2, <2>3
  <1>14. ASSUME NEW s \in Sessions, WorkerTake(s) PROVE Owed(c)'
    <2>1. Range(execs[s]) \subseteq Range(execs'[s]) \cup {Head(execs[s])}
      BY <1>14, TailElements DEF WorkerTake
    <2> QED
      BY <1>0, <1>14, <2>1 DEF WorkerTake, callerVars
  <1>15. ASSUME NEW s \in Sessions, NEW result, WorkerAnswer(s, result) PROVE Owed(c)'
    <2>1. pc[c] = "waiting" /\ c \notin serving[s]
      BY <1>15 DEF WorkerAnswer
    <2> QED
      BY <1>0, <1>15, <2>1 DEF WorkerAnswer
  <1>16. ASSUME NEW s \in Sessions, WorkerExit(s) PROVE Owed(c)'
    <2>1. Range(execs[s]) = {}
      BY <1>16 DEF WorkerExit, Range
    <2> QED
      BY <1>0, <1>16, <2>1 DEF WorkerExit, callerVars
  <1>17. ASSUME NEW d \in Callers, Call(d) PROVE Owed(c)'
    <2>1. CASE Send(d)
      <3>1. Range(commands'[sid[d]]) = Range(commands[sid[d]]) \cup {d}
        BY <2>1, AppendElements DEF Send
      <3> QED
        BY <1>0, <2>1, <3>1 DEF Send
    <2>2. CASE Begin(d) \/ LookupFound(d) \/ LookupMissing(d) \/ SendFails(d) \/ Detected(d)
      BY <1>0, <2>2 DEF Begin, LookupFound, LookupMissing, SendFails, Detected, runtimeVars
    <2> QED
      BY <1>17, <2>1, <2>2 DEF Call
  <1>18. CASE UNCHANGED vars
    BY <1>0, <1>18 DEF vars, runtimeVars, callerVars
  <1> QED
    BY <1>1, <1>3, <1>4, <1>6, <1>7, <1>8, <1>9, <1>10, <1>11, <1>12, <1>13,
       <1>14, <1>15, <1>16, <1>17, <1>18
       DEF Next, Runtime, Worker, Quiescent

\* No caller of an Exec is ever stranded: while it waits, its request is with
\* someone alive who will answer it or drop its answer channel.
THEOREM AnswerAlwaysOwed == Spec => []AnswerOwed
  <1>1. Init => OwedInv
    <2> QED
      BY TypeInit DEF Init, OwedInv, AnswerOwed, WorkerAlive, HoldsOne, OnlyExecWaits
  <1>2. OwedInv /\ [Next]_vars => OwedInv'
    BY TypeStep, OwedSupportStep, OwedStep DEF OwedInv
  <1>3. OwedInv => AnswerOwed
    BY DEF OwedInv
  <1> QED
    BY <1>1, <1>2, <1>3, PTL DEF Spec

-----------------------------------------------------------------------------
(* EventOrder and FinalMeansGone.  What has been told of a session follows  *)
(* from where its task is.                                                  *)

Registered(s) ==
    task[s] \in {"connecting", "running", "forwarding", "ended", "failed", "reported"}

\* What the events of a session are, by the state of its task.
StoryOf(s) ==
    /\ WellOrdered(events[s])
    /\ (events[s] = <<>>) <=> (task[s] = "none")
    /\ (\E e \in FinalEvents : e \in Range(events[s])) => task[s] = "done"
    /\ task[s] \in {"running", "forwarding", "ended", "closing"} =>
           "connected" \in Range(events[s])
    /\ ("error_event" \in Range(events[s])) => task[s] \in {"reported", "failing", "done"}
    /\ task[s] \in {"reported", "failing"} => "error_event" \in Range(events[s])

Gone(s) ==
    /\ (s \in sessions) <=> Registered(s)
    /\ ~Receiving(s) => commands[s] = <<>>

StoryInv == TypeOK /\ \A s \in Sessions : StoryOf(s) /\ Gone(s)

\* An event may be added to a story that has not ended if what it presupposes
\* has been told.
LEMMA AppendOrdered ==
    ASSUME NEW q \in Seq(Events), NEW e \in Events, WellOrdered(q),
           \A f \in FinalEvents : f \notin Range(q),
           (e = "connecting") <=> (q = <<>>),
           e \in {"output", "disconnected"} => "connected" \in Range(q),
           e \in FinalEvents => ((e = "error") <=> ("error_event" \in Range(q)))
    PROVE  WellOrdered(Append(q, e))
  <1> DEFINE n == Len(q)
             r == Append(q, e)
  <1>1. /\ n \in Nat
        /\ DOMAIN q = 1 .. n
        /\ DOMAIN r = 1 .. n + 1
        /\ Len(r) = n + 1
        /\ \A i \in 1 .. n : r[i] = q[i]
        /\ r[n + 1] = e
        /\ (q = <<>>) <=> (n = 0)
    OBVIOUS
  <1>2. \A f : f \in Range(q) <=> \E j \in 1 .. n : r[j] = f
    BY <1>1 DEF Range
  <1>3. ASSUME NEW i \in 1 .. n
        PROVE  /\ (r[i] = "connecting") <=> (i = 1)
               /\ r[i] \in {"output", "disconnected"} =>
                     \E j \in 1 .. i - 1 : r[j] = "connected"
               /\ r[i] \notin FinalEvents
    <2> HIDE DEF r, n
    <2>1. r[i] = q[i] /\ i \in DOMAIN q /\ \A j \in 1 .. i - 1 : r[j] = q[j]
      BY <1>1
    <2>2. q[i] \in Range(q)
      BY <2>1 DEF Range
    <2> QED
      BY <2>1, <2>2 DEF WellOrdered
  <1>4. /\ (r[n + 1] = "connecting") <=> (n + 1 = 1)
        /\ r[n + 1] \in {"output", "disconnected"} =>
              \E j \in 1 .. (n + 1) - 1 : r[j] = "connected"
        /\ r[n + 1] \in FinalEvents =>
              ((r[n + 1] = "error") <=> (\E j \in 1 .. (n + 1) - 1 : r[j] = "error_event"))
    <2>1. (n + 1) - 1 = n
      BY <1>1
    <2> HIDE DEF r, n
    <2> QED
      BY <1>1, <1>2, <2>1
  <1> HIDE DEF r, n
  <1>5. ASSUME NEW i \in DOMAIN r PROVE i \in 1 .. n \/ i = n + 1
    BY <1>1
  <1>6. WellOrdered(r)
    BY <1>1, <1>3, <1>4, <1>5 DEF WellOrdered
  <1> QED
    BY <1>6 DEF r

\* A task that tells an event keeps its story in order.
LEMMA TellStep ==
    ASSUME TypeOK, NEW s \in Sessions, NEW e \in Events, StoryOf(s), Emit(s, e),
           task[s] # "done",
           (e = "connecting") <=> (task[s] = "none"),
           e \in {"output", "disconnected"} =>
               task[s] \in {"running", "forwarding", "ended", "closing"},
           e = "error" => task[s] \in {"reported", "failing"}
    PROVE  /\ events'[s] \in Seq(Events)
           /\ WellOrdered(events'[s])
           /\ events'[s] # <<>>
           /\ Range(events'[s]) = Range(events[s]) \cup {e}
  <1>1. events[s] \in Seq(Events) /\ events'[s] = Append(events[s], e)
    BY DEF TypeOK, Emit
  <1>2. Range(events'[s]) = Range(events[s]) \cup {e} /\ events'[s] \in Seq(Events)
    BY <1>1, AppendElements
  <1>3. events'[s] # <<>>
    BY <1>1
  <1>4. e \in FinalEvents => ((e = "error") <=> ("error_event" \in Range(events[s])))
    BY DEF StoryOf, FinalEvents
  <1>5. WellOrdered(events'[s])
    BY <1>1, <1>4, AppendOrdered DEF StoryOf
  <1> QED
    BY <1>2, <1>3, <1>5

\* Every step keeps every session's story in line with its task.
LEMMA StoryStep ==
    ASSUME StoryInv, [Next]_vars
    PROVE  \A s \in Sessions : StoryOf(s)' /\ Gone(s)'
  <1> SUFFICES ASSUME NEW s \in Sessions
               PROVE  StoryOf(s)' /\ Gone(s)'
    OBVIOUS
  <1>0. TypeOK /\ StoryOf(s) /\ Gone(s)
    BY DEF StoryInv
  <1>a. \A r \in Sessions : StoryOf(r) /\ Gone(r)
    BY DEF StoryInv
  <1> DEFINE Same == /\ events'[s] = events[s]
                     /\ task'[s] = task[s]
                     /\ commands'[s] = commands[s]
                     /\ (s \in sessions') <=> (s \in sessions)
  <1>1. Same => StoryOf(s)' /\ Gone(s)'
    BY <1>0 DEF StoryOf, Gone, WellOrdered, Registered, Receiving
  <1> HIDE DEF Same
  <1>2. ASSUME NEW r \in Sessions, Connect(r) PROVE StoryOf(s)' /\ Gone(s)'
    <2>1. CASE r # s
      BY <1>0, <1>1, <1>2, <2>1 DEF Connect, Emit, Same, TypeOK
    <2>2. CASE r = s
      <3>1. events'[s] # <<>> /\ WellOrdered(events'[s])
            /\ Range(events'[s]) = Range(events[s]) \cup {"connecting"}
        BY <1>0, <1>2, <2>2, TellStep DEF Connect, Events
      <3>2. task'[s] = "connecting" /\ s \in sessions' /\ task[s] = "none"
        BY <1>0, <1>2, <2>2 DEF Connect, TypeOK
      <3> QED
        BY <1>0, <3>1, <3>2 DEF StoryOf, Gone, Registered, Receiving, WellOrdered, FinalEvents
    <2> QED
      BY <2>1, <2>2
  <1>3. ASSUME NEW r \in Sessions, NEW how \in {"ended", "failed"}, NEW q, RunReturns(r, how, q),
               how = "ended" => task[r] = "running",
               task[r] \in {"connecting", "running"}
        PROVE  StoryOf(s)' /\ Gone(s)'
    <2>1. CASE r # s
      BY <1>0, <1>1, <1>3, <2>1 DEF RunReturns, DropReceiver, managerVars, Same, TypeOK
    <2>2. CASE r = s
      BY <1>0, <1>3, <2>2
         DEF RunReturns, DropReceiver, managerVars, TypeOK, StoryOf, Gone, Registered,
             Receiving, WellOrdered
    <2> QED
      BY <2>1, <2>2
  <1>4. ASSUME NEW r \in Sessions, ConnectSucceeds(r) PROVE StoryOf(s)' /\ Gone(s)'
    <2>1. CASE r # s
      BY <1>0, <1>1, <1>4, <2>1 DEF ConnectSucceeds, Emit, managerVars, Same, TypeOK
    <2>2. CASE r = s
      <3>1. events'[s] # <<>> /\ WellOrdered(events'[s])
            /\ Range(events'[s]) = Range(events[s]) \cup {"connected"}
        BY <1>0, <1>4, <2>2, TellStep DEF ConnectSucceeds, Events
      <3>2. task[s] = "connecting" /\ task'[s] = "running" /\ sessions' = sessions
        BY <1>0, <1>4, <2>2 DEF ConnectSucceeds, managerVars, TypeOK
      <3> QED
        BY <1>0, <3>1, <3>2 DEF StoryOf, Gone, Registered, Receiving, WellOrdered, FinalEvents
    <2> QED
      BY <2>1, <2>2
  <1>5. ASSUME NEW r \in Sessions, WriteToChannel(r) PROVE StoryOf(s)' /\ Gone(s)'
    BY <1>0, <1>5
       DEF WriteToChannel, NextCommand, managerVars, TypeOK, StoryOf, Gone, Registered,
           Receiving, WellOrdered
  <1>6. ASSUME NEW r \in Sessions, TakeExec(r) PROVE StoryOf(s)' /\ Gone(s)'
    BY <1>0, <1>6
       DEF TakeExec, NextCommand, managerVars, TypeOK, StoryOf, Gone, Registered,
           Receiving, WellOrdered
  <1>7. ASSUME NEW r \in Sessions, ForwardExec(r) PROVE StoryOf(s)' /\ Gone(s)'
    BY <1>0, <1>7
       DEF ForwardExec, managerVars, historyVars, TypeOK, StoryOf, Gone, Registered,
           Receiving, WellOrdered
  <1>8. ASSUME NEW r \in Sessions, ChannelData(r) PROVE StoryOf(s)' /\ Gone(s)'
    <2>1. CASE r # s
      BY <1>0, <1>1, <1>8, <2>1 DEF ChannelData, Emit, managerVars, runtimeVars, Same, TypeOK
    <2>2. CASE r = s
      <3>1. events'[s] # <<>> /\ WellOrdered(events'[s])
            /\ Range(events'[s]) = Range(events[s]) \cup {"output"}
        BY <1>0, <1>8, <2>2, TellStep DEF ChannelData, Events
      <3>2. task[s] = "running" /\ task' = task /\ sessions' = sessions
        BY <1>0, <1>8, <2>2 DEF ChannelData, managerVars, runtimeVars
      <3> QED
        BY <1>0, <3>1, <3>2 DEF StoryOf, Gone, Registered, Receiving, WellOrdered, FinalEvents
    <2> QED
      BY <2>1, <2>2
  <1>9. ASSUME NEW r \in Sessions, ReportError(r) PROVE StoryOf(s)' /\ Gone(s)'
    <2>1. CASE r # s
      BY <1>0, <1>1, <1>9, <2>1 DEF ReportError, Emit, managerVars, Same, TypeOK
    <2>2. CASE r = s
      <3>1. events'[s] # <<>> /\ WellOrdered(events'[s])
            /\ Range(events'[s]) = Range(events[s]) \cup {"error_event"}
        BY <1>0, <1>9, <2>2, TellStep DEF ReportError, Events
      <3>2. task[s] = "failed" /\ task'[s] = "reported" /\ sessions' = sessions
            /\ commands' = commands
        BY <1>0, <1>9, <2>2 DEF ReportError, managerVars, TypeOK
      <3> QED
        BY <1>0, <3>1, <3>2 DEF StoryOf, Gone, Registered, Receiving, WellOrdered, FinalEvents
    <2> QED
      BY <2>1, <2>2
  <1>10. ASSUME NEW r \in Sessions, RemoveSession(r) PROVE StoryOf(s)' /\ Gone(s)'
    <2>1. CASE r # s
      BY <1>0, <1>1, <1>10, <2>1 DEF RemoveSession, historyVars, Same, TypeOK
    <2>2. CASE r = s
      <3>1. /\ task[s] \in {"ended", "reported"} /\ s \notin sessions'
            /\ task'[s] = IF task[s] = "ended" THEN "closing" ELSE "failing"
            /\ events' = events /\ commands' = commands
        BY <1>0, <1>10, <2>2 DEF RemoveSession, historyVars, TypeOK
      <3> QED
        BY <1>0, <3>1 DEF StoryOf, Gone, Registered, Receiving, WellOrdered
    <2> QED
      BY <2>1, <2>2
  <1>11. ASSUME NEW r \in Sessions, EmitFinal(r) PROVE StoryOf(s)' /\ Gone(s)'
    <2>1. CASE r # s
      BY <1>0, <1>1, <1>11, <2>1 DEF EmitFinal, Emit, managerVars, Same, TypeOK
    <2>2. CASE r = s
      <3>1. PICK e \in FinalEvents : Emit(s, e) /\ (e = "error" <=> task[s] = "failing")
                                    /\ task[s] \in {"closing", "failing"}
        BY <1>11, <2>2 DEF EmitFinal, FinalEvents
      <3>2. events'[s] # <<>> /\ WellOrdered(events'[s])
            /\ Range(events'[s]) = Range(events[s]) \cup {e}
        BY <1>0, <3>1, TellStep DEF Events, FinalEvents
      <3>3. task'[s] = "done" /\ sessions' = sessions /\ commands' = commands
        BY <1>0, <1>11, <2>2 DEF EmitFinal, managerVars, TypeOK
      <3> QED
        BY <1>0, <3>1, <3>2, <3>3 DEF StoryOf, Gone, Registered, Receiving, WellOrdered
    <2> QED
      BY <2>1, <2>2
  <1>12. ASSUME NEW r \in Sessions, NEW result,
                WorkerTake(r) \/ WorkerAnswer(r, result) \/ WorkerExit(r)
         PROVE  StoryOf(s)' /\ Gone(s)'
    BY <1>1, <1>12 DEF WorkerTake, WorkerAnswer, WorkerExit, managerVars, historyVars, Same
  <1>13. ASSUME NEW c \in Callers, Call(c) PROVE StoryOf(s)' /\ Gone(s)'
    <2>1. CASE Send(c)
      <3>1. sid[c] \in Sessions /\ Receiving(sid[c])
        BY <1>0, <2>1 DEF Send, TypeOK
      <3> QED
        BY <1>0, <2>1, <3>1
           DEF Send, managerVars, TypeOK, StoryOf, Gone, Registered, Receiving, WellOrdered
    <2>2. CASE Begin(c) \/ LookupFound(c) \/ LookupMissing(c) \/ SendFails(c) \/ Detected(c)
      BY <1>1, <2>2 DEF Begin, LookupFound, LookupMissing, SendFails, Detected,
                        managerVars, runtimeVars, historyVars, Same
    <2> QED
      BY <1>13, <2>1, <2>2 DEF Call
  <1>14. CASE UNCHANGED vars
    BY <1>1, <1>14 DEF vars, managerVars, runtimeVars, historyVars, Same
  <1>15. ASSUME NEW r \in Sessions, ConnectFails(r) PROVE StoryOf(s)' /\ Gone(s)'
    BY <1>3, <1>15 DEF ConnectFails
  <1>16. ASSUME NEW r \in Sessions, WriteFails(r) \/ HandleDisconnect(r) \/ ChannelCloses(r)
         PROVE  StoryOf(s)' /\ Gone(s)'
    BY <1>3, <1>16 DEF WriteFails, HandleDisconnect, ChannelCloses, NextCommand
  <1> QED
    BY <1>2, <1>4, <1>5, <1>6, <1>7, <1>8, <1>9, <1>10, <1>11, <1>12, <1>13, <1>14,
       <1>15, <1>16
       DEF Next, Runtime, Worker, Quiescent

\* StoryInv is inductive.
LEMMA StoryCorrect == Spec => []StoryInv
  <1>1. Init => StoryInv
    <2> SUFFICES ASSUME Init PROVE StoryInv
      OBVIOUS
    <2>1. TypeOK
      BY TypeInit
    <2>2. ASSUME NEW s \in Sessions PROVE StoryOf(s) /\ Gone(s)
      <3>1. events[s] = <<>> /\ task[s] = "none" /\ sessions = {} /\ commands[s] = <<>>
        BY DEF Init
      <3>2. DOMAIN events[s] = {}
        BY <3>1
      <3> QED
        BY <3>1, <3>2 DEF StoryOf, Gone, Registered, Receiving, WellOrdered, Range
    <2> QED
      BY <2>1, <2>2 DEF StoryInv
  <1>2. StoryInv /\ [Next]_vars => StoryInv'
    BY TypeStep, StoryStep DEF StoryInv
  <1> QED
    BY <1>1, <1>2, PTL DEF Spec

\* The event streams of every session are in order, for every number of
\* sessions and whatever the server and the callers do.
THEOREM EventsOrdered == Spec => []EventOrder
  <1>1. StoryInv => EventOrder
    BY DEF StoryInv, StoryOf, EventOrder
  <1> QED
    BY <1>1, StoryCorrect, PTL

\* A consumer that has seen the final status finds the session gone.
THEOREM FinalSessionsGone == Spec => []FinalMeansGone
  <1>1. StoryInv => FinalMeansGone
    <2> SUFFICES ASSUME StoryInv, NEW s \in Sessions,
                        Range(events[s]) \cap FinalEvents # {}
                 PROVE  s \notin sessions /\ ~Receiving(s) /\ commands[s] = <<>>
      BY DEF FinalMeansGone
    <2>1. task[s] = "done"
      BY DEF StoryInv, StoryOf
    <2> QED
      BY <2>1 DEF StoryInv, Gone, Registered, Receiving
  <1> QED
    BY <1>1, StoryCorrect, PTL
-----------------------------------------------------------------------------
(* CommandsInOrder.  While the receiver lives, nothing it took was a        *)
(* Disconnect: the one that ends the run is taken in the step that drops    *)
(* the receiver, and nothing is accepted after that.                        *)

OrderOf(s) ==
    /\ Receiving(s) => accepted[s] = handled[s] \o commands[s]
    /\ Len(handled[s]) <= Len(accepted[s])
    /\ handled[s] = SubSeq(accepted[s], 1, Len(handled[s]))
    /\ \A i \in DOMAIN handled[s] :
          op[handled[s][i]] = "disconnect" => i = Len(handled[s]) /\ ~Receiving(s)
    /\ task[s] = "none" =>
          accepted[s] = <<>> /\ handled[s] = <<>> /\ commands[s] = <<>>

OrderInv == TypeOK /\ \A s \in Sessions : OrderOf(s)

\* Moving the head of one sequence to the end of another keeps what the two
\* hold together.
LEMMA TakeKeeps ==
    ASSUME NEW S, NEW q \in Seq(S), NEW m \in Seq(S), m # <<>>
    PROVE  Append(q, Head(m)) \o Tail(m) = q \o m
  <1> DEFINE l == Append(q, Head(m)) \o Tail(m)
             r == q \o m
  <1>1. /\ Len(q) \in Nat /\ Len(m) \in Nat /\ Len(m) > 0
        /\ Head(m) = m[1] /\ Head(m) \in S
        /\ Tail(m) \in Seq(S) /\ Len(Tail(m)) = Len(m) - 1
        /\ \A i \in 1 .. Len(m) - 1 : Tail(m)[i] = m[i + 1]
    OBVIOUS
  <1>2. /\ Append(q, Head(m)) \in Seq(S) /\ Len(Append(q, Head(m))) = Len(q) + 1
        /\ \A i \in 1 .. Len(q) : Append(q, Head(m))[i] = q[i]
        /\ Append(q, Head(m))[Len(q) + 1] = m[1]
    BY <1>1
  <1>3. /\ l \in Seq(S) /\ r \in Seq(S)
        /\ Len(l) = Len(q) + Len(m) /\ Len(r) = Len(q) + Len(m)
    BY <1>1, <1>2
  <1>4. ASSUME NEW i \in 1 .. Len(q) + Len(m) PROVE l[i] = r[i]
    <2>1. CASE i <= Len(q)
      BY <1>1, <1>2, <2>1
    <2>2. CASE i = Len(q) + 1
      <3>1. l[i] = m[1]
        BY <1>1, <1>2, <2>2
      <3>2. r[i] = m[1]
        BY <1>1, <2>2
      <3> QED
        BY <3>1, <3>2
    <2>3. CASE i > Len(q) + 1
      <3>1. l[i] = Tail(m)[i - (Len(q) + 1)]
        BY <1>1, <1>2, <2>3
      <3>2. i - (Len(q) + 1) \in 1 .. Len(m) - 1
        BY <1>1, <2>3
      <3>3. Tail(m)[i - (Len(q) + 1)] = m[i - Len(q)]
        BY <1>1, <3>2
      <3>4. r[i] = m[i - Len(q)]
        BY <1>1, <2>3
      <3> QED
        BY <3>1, <3>3, <3>4
    <2> QED
      BY <1>1, <2>1, <2>2, <2>3
  <1> HIDE DEF l, r
  <1>5. l = r
    BY <1>3, <1>4, SeqEqual
  <1> QED
    BY <1>5 DEF l, r

\* What two sequences hold together begins with the first of them.
LEMMA BeginsWith ==
    ASSUME NEW S, NEW q \in Seq(S), NEW m \in Seq(S)
    PROVE  /\ q \o m \in Seq(S)
           /\ Len(q) <= Len(q \o m)
           /\ q = SubSeq(q \o m, 1, Len(q))
  <1>1. /\ q \o m \in Seq(S) /\ Len(q \o m) = Len(q) + Len(m)
        /\ Len(q) \in Nat /\ Len(m) \in Nat
        /\ \A i \in 1 .. Len(q) : (q \o m)[i] = q[i]
    OBVIOUS
  <1>2. Len(q) <= Len(q \o m)
    BY <1>1
  <1>3. q = SubSeq(q \o m, 1, Len(q))
    <2> DEFINE r == SubSeq(q \o m, 1, Len(q))
    <2>1. \A i \in 1 .. Len(q) : (q \o m)[i] \in S
      BY <1>1
    <2>2. r \in Seq(S) /\ Len(r) = Len(q) /\ \A i \in 1 .. Len(q) : r[i] = q[i]
      BY <1>1, <2>1, SubSeqProperties
    <2> HIDE DEF r
    <2>3. q = r
      BY <1>1, <2>2, SeqEqual
    <2> QED
      BY <2>3 DEF r
  <1> QED
    BY <1>1, <1>2, <1>3

\* Concatenation under a name of its own, which the provers leave folded.
Together(q, m) == q \o m

\* What is added to the second of two sequences is added to both together.
LEMMA AddKeeps ==
    ASSUME NEW S, NEW q \in Seq(S), NEW m \in Seq(S), NEW x \in S
    PROVE  Append(Together(q, m), x) = Together(q, Append(m, x))
  <1>1. /\ q \o m \in Seq(S) /\ Len(q \o m) = Len(q) + Len(m)
        /\ Len(q) \in Nat /\ Len(m) \in Nat
    OBVIOUS
  <1> DEFINE l == Append(q \o m, x)
             r == q \o Append(m, x)
  <1>2. l \in Seq(S) /\ r \in Seq(S) /\ Len(l) = Len(r) /\ Len(l) = Len(q) + Len(m) + 1
    BY <1>1
  <1>3. ASSUME NEW i \in 1 .. Len(q) + Len(m) + 1 PROVE l[i] = r[i]
    <2>1. CASE i <= Len(q)
      BY <1>1, <2>1
    <2>2. CASE i > Len(q) /\ i <= Len(q) + Len(m)
      BY <1>1, <2>2
    <2>3. CASE i = Len(q) + Len(m) + 1
      BY <1>1, <2>3
    <2> QED
      BY <1>1, <2>1, <2>2, <2>3
  <1> HIDE DEF l, r
  <1>4. l = r
    BY <1>1, <1>2, <1>3, SeqEqual
  <1> QED
    BY <1>4 DEF l, r, Together

\* A prefix stays a prefix when the longer sequence grows.
LEMMA PrefixKept ==
    ASSUME NEW S, NEW q \in Seq(S), NEW a \in Seq(S), NEW x \in S,
           Len(q) <= Len(a), q = SubSeq(a, 1, Len(q))
    PROVE  Len(q) <= Len(Append(a, x)) /\ q = SubSeq(Append(a, x), 1, Len(q))
  <1> DEFINE b == Append(a, x)
             r == SubSeq(b, 1, Len(q))
  <1>1. /\ Len(q) \in Nat /\ Len(a) \in Nat /\ b \in Seq(S) /\ Len(b) = Len(a) + 1
        /\ \A i \in 1 .. Len(q) : b[i] = a[i] /\ a[i] \in S
    OBVIOUS
  <1>2. \A i \in 1 .. Len(q) : q[i] = a[i]
    BY <1>1, SubSeqProperties
  <1> HIDE DEF b
  <1>3. r \in Seq(S) /\ Len(r) = Len(q) /\ \A i \in 1 .. Len(q) : r[i] = b[i]
    BY <1>1, SubSeqProperties
  <1> HIDE DEF r
  <1>4. q = r
    BY <1>1, <1>2, <1>3, SeqEqual
  <1> QED
    BY <1>1, <1>4 DEF b, r

\* A step that moves no command, whoever makes it, keeps the order.
LEMMA OrderSame ==
    ASSUME NEW s \in Sessions, OrderOf(s),
           accepted'[s] = accepted[s], handled'[s] = handled[s],
           \A i \in DOMAIN handled[s] :
               (op'[handled[s][i]] = "disconnect") => (op[handled[s][i]] = "disconnect"),
           Receiving(s)' => Receiving(s) /\ commands'[s] = commands[s],
           task'[s] = "none" => task[s] = "none" /\ commands'[s] = commands[s]
    PROVE  OrderOf(s)'
  BY DEF OrderOf

\* The runtime takes the next command; after a Disconnect it stops receiving.
LEMMA OrderTake ==
    ASSUME OrderInv, NEW s \in Sessions, Receiving(s), commands[s] # <<>>,
           accepted'[s] = accepted[s],
           handled'[s] = Append(handled[s], Head(commands[s])),
           Receiving(s)' => /\ commands'[s] = Tail(commands[s])
                            /\ op[Head(commands[s])] # "disconnect",
           \A c \in Callers : (op'[c] = "disconnect") => (op[c] = "disconnect"),
           task'[s] # "none"
    PROVE  OrderOf(s)'
  <1> DEFINE c == Head(commands[s])
             q == Append(handled[s], c)
  <1>1. /\ handled[s] \in Seq(Callers) /\ commands[s] \in Seq(Callers)
        /\ accepted[s] = handled[s] \o commands[s]
        /\ \A i \in DOMAIN handled[s] : op[handled[s][i]] # "disconnect"
    BY DEF OrderInv, OrderOf, TypeOK
  <1>2. c \in Callers /\ Tail(commands[s]) \in Seq(Callers)
    BY <1>1
  <1>3. /\ q \in Seq(Callers) /\ Len(q) = Len(handled[s]) + 1 /\ Len(q) \in Nat
        /\ DOMAIN q = 1 .. Len(handled[s]) + 1 /\ DOMAIN handled[s] = 1 .. Len(handled[s])
        /\ \A i \in 1 .. Len(handled[s]) : q[i] = handled[s][i] /\ q[i] \in Callers
        /\ q[Len(handled[s]) + 1] = c
    BY <1>1, <1>2
  <1>4. accepted[s] = q \o Tail(commands[s])
    BY <1>1, TakeKeeps
  <1> HIDE DEF q, c
  <1>5. Len(q) <= Len(accepted[s]) /\ q = SubSeq(accepted[s], 1, Len(q))
    BY <1>2, <1>3, <1>4, BeginsWith
  <1>6. handled'[s] = q
    BY DEF q, c
  <1>7. Receiving(s)' => accepted'[s] = handled'[s] \o commands'[s]
    BY <1>4, <1>6
  <1>8. ASSUME NEW i \in DOMAIN q, op'[q[i]] = "disconnect"
        PROVE  i = Len(q) /\ ~Receiving(s)'
    <2>1. i = Len(handled[s]) + 1 \/ i \in 1 .. Len(handled[s])
      BY <1>3
    <2>2. i \notin 1 .. Len(handled[s])
      BY <1>1, <1>3, <1>8
    <2>3. q[i] = c /\ op[c] = "disconnect"
      BY <1>2, <1>3, <1>8, <2>1, <2>2
    <2> QED
      BY <1>3, <2>1, <2>2, <2>3 DEF c
  <1> QED
    BY <1>5, <1>6, <1>7, <1>8 DEF OrderOf

\* A caller's command enters the channel.
LEMMA OrderSend ==
    ASSUME OrderInv, NEW s \in Sessions, NEW c \in Callers, Receiving(s),
           accepted'[s] = Append(accepted[s], c),
           commands'[s] = Append(commands[s], c),
           handled'[s] = handled[s], op' = op, task' = task
    PROVE  OrderOf(s)'
  <1>1. /\ handled[s] \in Seq(Callers) /\ commands[s] \in Seq(Callers)
        /\ accepted[s] \in Seq(Callers) /\ OrderOf(s)
    BY DEF OrderInv, TypeOK
  <1>2. accepted'[s] = handled'[s] \o commands'[s]
    <2>1. accepted[s] = Together(handled[s], commands[s])
      BY <1>1 DEF OrderOf, Together
    <2>2. Append(Together(handled[s], commands[s]), c)
            = Together(handled[s], Append(commands[s], c))
      <3>1. handled[s] \in Seq(Callers) /\ commands[s] \in Seq(Callers)
        BY <1>1
      <3>2. ASSUME NEW q \in Seq(Callers), NEW m \in Seq(Callers)
            PROVE  Append(Together(q, m), c) = Together(q, Append(m, c))
        BY AddKeeps, SMTT(30)
      <3> QED
        BY <3>1, <3>2, Zenon
    <2>3. accepted'[s] = Together(handled'[s], commands'[s])
      BY <2>1, <2>2
    <2> QED
      BY <2>3 DEF Together
  <1>3. Len(handled'[s]) <= Len(accepted'[s])
        /\ handled'[s] = SubSeq(accepted'[s], 1, Len(handled'[s]))
    BY <1>1, PrefixKept DEF OrderOf
  <1>4. task[s] # "none"
    BY DEF Receiving
  <1> QED
    BY <1>1, <1>2, <1>3, <1>4 DEF OrderOf, Receiving

\* Every step keeps every session's commands in order.
LEMMA OrderStep ==
    ASSUME OrderInv, [Next]_vars
    PROVE  \A s \in Sessions : OrderOf(s)'
  <1> SUFFICES ASSUME NEW s \in Sessions
               PROVE  OrderOf(s)'
    OBVIOUS
  <1>0. TypeOK /\ OrderOf(s)
    BY DEF OrderInv
  <1>a. \A i \in DOMAIN handled[s] : handled[s][i] \in Callers
    BY <1>0 DEF TypeOK
  <1> DEFINE Same == /\ accepted'[s] = accepted[s]
                     /\ handled'[s] = handled[s]
                     /\ \A c \in Callers : op'[c] = "disconnect" => op[c] = "disconnect"
                     /\ Receiving(s)' => Receiving(s) /\ commands'[s] = commands[s]
                     /\ task'[s] = "none" => task[s] = "none" /\ commands'[s] = commands[s]
  <1>1. Same => OrderOf(s)'
    BY <1>0, <1>a, OrderSame
  <1> HIDE DEF Same
  <1>2. ASSUME NEW r \in Sessions, Connect(r) PROVE OrderOf(s)'
    <2>1. CASE r # s
      BY <1>0, <1>1, <1>2, <2>1 DEF Connect, callerVars, Same, Receiving, TypeOK
    <2>2. CASE r = s
      <3>1. /\ accepted'[s] = <<>> /\ handled'[s] = <<>> /\ commands'[s] = <<>>
            /\ task'[s] = "connecting"
        BY <1>0, <1>2, <2>2 DEF Connect, OrderOf, TypeOK
      <3>2. <<>> \o <<>> = <<>> /\ Len(<<>>) = 0 /\ SubSeq(<<>>, 1, 0) = <<>> /\ DOMAIN <<>> = {}
        OBVIOUS
      <3> QED
        BY <3>1, <3>2 DEF OrderOf
    <2> QED
      BY <2>1, <2>2
  <1>3. ASSUME NEW r \in Sessions, NEW how \in {"ended", "failed"}, NEW q, RunReturns(r, how, q)
        PROVE  /\ accepted' = accepted /\ op' = op
               /\ task'[r] = how /\ ~Receiving(r)'
               /\ r # s => /\ commands'[s] = commands[s]
                           /\ task'[s] = task[s]
    BY <1>0, <1>3 DEF RunReturns, DropReceiver, Receiving, TypeOK
  <1>4. ASSUME NEW r \in Sessions, NEW how \in {"ended", "failed"}, NEW q, RunReturns(r, how, q),
               handled' = handled
        PROVE  OrderOf(s)'
    <2>1. /\ accepted' = accepted /\ op' = op
          /\ task'[r] = how /\ ~Receiving(r)'
          /\ r # s => commands'[s] = commands[s] /\ task'[s] = task[s]
      BY <1>3, <1>4
    <2> QED
      BY <1>1, <1>4, <2>1 DEF Same, Receiving
  <1>5. ASSUME NEW r \in Sessions, NEW ops, NextCommand(r, ops)
        PROVE  /\ Receiving(r) /\ commands[r] # <<>>
               /\ handled'[r] = Append(handled[r], Head(commands[r]))
               /\ op[Head(commands[r])] \in ops
               /\ r # s => handled'[s] = handled[s]
    BY <1>0, <1>5 DEF NextCommand, Receiving, TypeOK
  <1>6. ASSUME NEW r \in Sessions, NEW ops, NEW how \in {"ended", "failed"}, NEW q,
               NextCommand(r, ops), RunReturns(r, how, q)
        PROVE  OrderOf(s)'
    <2>1. /\ accepted' = accepted /\ op' = op
          /\ task'[r] = how /\ ~Receiving(r)'
          /\ r # s => commands'[s] = commands[s] /\ task'[s] = task[s]
      BY <1>3, <1>6
    <2>2. /\ Receiving(r) /\ commands[r] # <<>>
          /\ handled'[r] = Append(handled[r], Head(commands[r]))
          /\ r # s => handled'[s] = handled[s]
      BY <1>5, <1>6
    <2>3. CASE r # s
      BY <1>1, <2>1, <2>2, <2>3 DEF Same, Receiving
    <2>4. CASE r = s
      BY <2>1, <2>2, <2>4, OrderTake
    <2> QED
      BY <2>3, <2>4
  <1>7. ASSUME NEW r \in Sessions, WriteToChannel(r) \/ TakeExec(r) PROVE OrderOf(s)'
    <2>1. PICK ops \in {{"input", "resize"}, ExecOps} : NextCommand(r, ops)
      BY <1>7 DEF WriteToChannel, TakeExec
    <2>2. /\ Receiving(r) /\ commands[r] # <<>>
          /\ handled'[r] = Append(handled[r], Head(commands[r]))
          /\ op[Head(commands[r])] # "disconnect"
          /\ r # s => handled'[s] = handled[s]
      BY <1>5, <2>1 DEF ExecOps
    <2>3. /\ accepted' = accepted /\ op' = op
          /\ commands'[r] = Tail(commands[r]) /\ task'[r] # "none"
          /\ r # s => commands'[s] = commands[s] /\ task'[s] = task[s]
      <3>1. CASE WriteToChannel(r)
        BY <1>0, <2>2, <3>1 DEF WriteToChannel, callerVars, TypeOK, Receiving
      <3>2. CASE TakeExec(r)
        BY <1>0, <2>2, <3>2 DEF TakeExec, callerVars, TypeOK, Receiving
      <3> QED
        BY <1>7, <3>1, <3>2
    <2>4. CASE r # s
      BY <1>1, <2>2, <2>3, <2>4 DEF Same, Receiving
    <2>5. CASE r = s
      BY <2>2, <2>3, <2>5, OrderTake
    <2> QED
      BY <2>4, <2>5
  <1>8. ASSUME NEW r \in Sessions, ConnectSucceeds(r) PROVE OrderOf(s)'
    BY <1>0, <1>1, <1>8 DEF ConnectSucceeds, callerVars, Same, Receiving, TypeOK
  <1>9. ASSUME NEW r \in Sessions, ForwardExec(r) PROVE OrderOf(s)'
    BY <1>0, <1>1, <1>9 DEF ForwardExec, historyVars, callerVars, Same, Receiving, TypeOK
  <1>10. ASSUME NEW r \in Sessions, ChannelData(r) PROVE OrderOf(s)'
    BY <1>0, <1>1, <1>10 DEF ChannelData, runtimeVars, callerVars, Same, Receiving
  <1>11. ASSUME NEW r \in Sessions, ReportError(r) PROVE OrderOf(s)'
    BY <1>0, <1>1, <1>11 DEF ReportError, callerVars, Same, Receiving, TypeOK
  <1>12. ASSUME NEW r \in Sessions, RemoveSession(r) PROVE OrderOf(s)'
    BY <1>0, <1>1, <1>12 DEF RemoveSession, historyVars, callerVars, Same, Receiving, TypeOK
  <1>13. ASSUME NEW r \in Sessions, EmitFinal(r) PROVE OrderOf(s)'
    BY <1>0, <1>1, <1>13 DEF EmitFinal, callerVars, Same, Receiving, TypeOK
  <1>14. ASSUME NEW r \in Sessions, NEW result,
                WorkerTake(r) \/ WorkerAnswer(r, result) \/ WorkerExit(r)
         PROVE  OrderOf(s)'
    BY <1>1, <1>14
       DEF WorkerTake, WorkerAnswer, WorkerExit, historyVars, callerVars, Same, Receiving
  <1>15. ASSUME NEW c \in Callers, Call(c) PROVE OrderOf(s)'
    <2>1. CASE Send(c)
      <3>1. /\ sid[c] \in Sessions /\ Receiving(sid[c]) /\ op' = op /\ task' = task
            /\ handled' = handled
            /\ accepted'[sid[c]] = Append(accepted[sid[c]], c)
            /\ commands'[sid[c]] = Append(commands[sid[c]], c)
            /\ s # sid[c] => accepted'[s] = accepted[s] /\ commands'[s] = commands[s]
        BY <1>0, <2>1 DEF Send, TypeOK
      <3>2. CASE s = sid[c]
        BY <3>1, <3>2, OrderSend
      <3>3. CASE s # sid[c]
        BY <1>1, <3>1, <3>3 DEF Same, Receiving
      <3> QED
        BY <3>2, <3>3
    <2>2. CASE Begin(c) \/ Detected(c)
      BY <1>0, <1>1, <2>2 DEF Begin, Detected, runtimeVars, historyVars, Same, Receiving, TypeOK
    <2>3. CASE LookupFound(c) \/ LookupMissing(c) \/ SendFails(c)
      BY <1>1, <2>3 DEF LookupFound, LookupMissing, SendFails,
                        runtimeVars, historyVars, Same, Receiving
    <2> QED
      BY <1>15, <2>1, <2>2, <2>3 DEF Call
  <1>16. CASE UNCHANGED vars
    BY <1>1, <1>16 DEF vars, runtimeVars, historyVars, callerVars, Same, Receiving
  <1>17. ASSUME NEW r \in Sessions, ConnectFails(r) \/ ChannelCloses(r) PROVE OrderOf(s)'
    BY <1>4, <1>17 DEF ConnectFails, ChannelCloses
  <1>18. ASSUME NEW r \in Sessions, WriteFails(r) \/ HandleDisconnect(r) PROVE OrderOf(s)'
    BY <1>6, <1>18 DEF WriteFails, HandleDisconnect
  <1> QED
    BY <1>2, <1>7, <1>8, <1>9, <1>10, <1>11, <1>12, <1>13, <1>14, <1>15, <1>16,
       <1>17, <1>18
       DEF Next, Runtime, Worker, Quiescent

\* Commands are taken in the order they were accepted, none twice and none lost
\* while the session runs, and nothing accepted after a Disconnect is taken:
\* for any number of callers and any capacity of the channel.
THEOREM CommandsTakenInOrder == Spec => []CommandsInOrder
  <1>1. Init => OrderInv
    <2> SUFFICES ASSUME Init PROVE OrderInv
      OBVIOUS
    <2>1. TypeOK
      BY TypeInit
    <2>2. ASSUME NEW s \in Sessions PROVE OrderOf(s)
      <3>1. /\ accepted[s] = <<>> /\ handled[s] = <<>> /\ commands[s] = <<>>
            /\ task[s] = "none"
        BY DEF Init
      <3>2. Len(<<>>) = 0 /\ SubSeq(<<>>, 1, 0) = <<>> /\ DOMAIN <<>> = {}
        OBVIOUS
      <3> QED
        BY <3>1, <3>2 DEF OrderOf, Receiving
    <2> QED
      BY <2>1, <2>2 DEF OrderInv
  <1>2. OrderInv /\ [Next]_vars => OrderInv'
    BY TypeStep, OrderStep DEF OrderInv
  <1>3. OrderInv => CommandsInOrder
    BY DEF OrderInv, OrderOf, CommandsInOrder
  <1> QED
    BY <1>1, <1>2, <1>3, PTL DEF Spec

-----------------------------------------------------------------------------
(* The refinement of SessionLifecycle.  StoryInv ties what was told of a    *)
(* session to where its task is, so every announcement finds the phase the  *)
(* life cycle requires; the other steps announce nothing and stutter.       *)

\* The phase of a session, by what was told of it.
PhaseFrom(told) ==
    CASE "error" \in told -> "error"
      [] "disconnected" \in told -> "disconnected"
      [] "connected" \in told /\ told \cap FinalEvents = {} -> "connected"
      [] told \cap {"connected", "disconnected", "error"} = {}
            /\ "connecting" \in told -> "connecting"
      [] OTHER -> "absent"

\* PhaseFrom is PhaseOf, before and after a step.
LEMMA PhaseIsFrom ==
    ASSUME NEW s \in Sessions
    PROVE  /\ PhaseOf(s) = PhaseFrom(Range(events[s]))
           /\ PhaseOf(s)' = PhaseFrom(Range(events'[s]))
  BY DEF PhaseOf, PhaseFrom

\* Which phase follows from which events.
LEMMA PhaseTold ==
    ASSUME NEW told
    PROVE  /\ told = {} => PhaseFrom(told) = "absent"
           /\ "connecting" \in told /\ told \cap {"connected", "disconnected", "error"} = {}
                 => PhaseFrom(told) = "connecting"
           /\ "connected" \in told /\ told \cap FinalEvents = {}
                 => PhaseFrom(told) = "connected"
           /\ "disconnected" \in told /\ "error" \notin told
                 => PhaseFrom(told) = "disconnected"
           /\ "error" \in told /\ "disconnected" \notin told
                 => PhaseFrom(told) = "error"
  BY DEF PhaseFrom, FinalEvents

\* Before its end is told, a session that has begun is connecting or connected.
LEMMA PhaseBefore ==
    ASSUME StoryInv, NEW s \in Sessions, task[s] # "none", task[s] # "done"
    PROVE  /\ "connecting" \in Range(events[s])
           /\ Range(events[s]) \cap FinalEvents = {}
           /\ "connected" \in Range(events[s]) => PhaseOf(s) = "connected"
           /\ "connected" \notin Range(events[s]) => PhaseOf(s) = "connecting"
  <1>1. StoryOf(s) /\ events[s] \in Seq(Events)
    BY DEF StoryInv, TypeOK
  <1>2. events[s] # <<>>
    BY <1>1 DEF StoryOf
  <1>3. 1 \in DOMAIN events[s]
    BY <1>1, <1>2
  <1>4. events[s][1] = "connecting"
    BY <1>1, <1>3 DEF StoryOf, WellOrdered
  <1>5. "connecting" \in Range(events[s])
    BY <1>3, <1>4 DEF Range
  <1>6. Range(events[s]) \cap FinalEvents = {}
    BY <1>1 DEF StoryOf
  <1> QED
    BY <1>5, <1>6, PhaseIsFrom, PhaseTold DEF FinalEvents

\* A session of which nothing new is told keeps its phase.
LEMMA PhaseKept ==
    ASSUME NEW s \in Sessions, events'[s] = events[s]
    PROVE  PhaseOf(s)' = PhaseOf(s)
  BY DEF PhaseOf

\* Output and error events change no phase.
LEMMA PhaseIgnores ==
    ASSUME NEW s \in Sessions, NEW e \in {"output", "error_event"},
           Range(events'[s]) = Range(events[s]) \cup {e}
    PROVE  PhaseOf(s)' = PhaseOf(s)
  <1> DEFINE told == Range(events[s])
             now == Range(events'[s])
  <1>1. /\ \A f \in {"connecting", "connected", "disconnected", "error"} : f \in now <=> f \in told
        /\ (now \cap FinalEvents = {}) <=> (told \cap FinalEvents = {})
        /\ (now \cap {"connected", "disconnected", "error"} = {})
              <=> (told \cap {"connected", "disconnected", "error"} = {})
    BY DEF FinalEvents
  <1>2. PhaseOf(s) = PhaseFrom(told) /\ PhaseOf(s)' = PhaseFrom(now)
    BY PhaseIsFrom
  <1> HIDE DEF told, now
  <1> QED
    BY <1>1, <1>2 DEF PhaseFrom

\* What the life cycle sees as its phase variable.
Phase == [s \in Sessions |-> PhaseOf(s)]

\* One session's phase changes and the others keep theirs.
LEMMA PhaseMoves ==
    ASSUME NEW s \in Sessions, \A r \in Sessions \ {s} : events'[r] = events[r]
    PROVE  Phase' = [Phase EXCEPT ![s] = PhaseOf(s)']
  <1>1. \A r \in Sessions \ {s} : PhaseOf(r)' = PhaseOf(r)
    BY PhaseKept
  <1> QED
    BY <1>1 DEF Phase

\* A step that tells nothing new leaves every phase as it is.
LEMMA PhaseStays ==
    ASSUME \A r \in Sessions : PhaseOf(r)' = PhaseOf(r)
    PROVE  Phase' = Phase
  BY DEF Phase

\* A step of the life cycle, or one it does not see.
LifecycleMoves == [Lifecycle!Next]_<<Phase, sessions>>

\* Every step of the manager is a step of the life cycle or leaves it alone.
LEMMA LifecycleStep ==
    ASSUME StoryInv, [Next]_vars
    PROVE  LifecycleMoves
  <1>0. TypeOK /\ \A s \in Sessions : StoryOf(s) /\ Gone(s)
    BY DEF StoryInv
  <1>s. sessions' = sessions /\ events' = events => LifecycleMoves
    BY PhaseKept, PhaseStays DEF LifecycleMoves
  <1>t. ASSUME NEW s \in Sessions, NEW e \in Events, Emit(s, e)
        PROVE  /\ Range(events'[s]) = Range(events[s]) \cup {e}
               /\ \A r \in Sessions \ {s} : events'[r] = events[r]
    <2>1. events'[s] = Append(events[s], e) /\ events[s] \in Seq(Events)
          /\ \A r \in Sessions \ {s} : events'[r] = events[r]
      BY <1>0, <1>t DEF Emit, TypeOK
    <2> QED
      BY <2>1, AppendElements
  <1>1. ASSUME NEW s \in Sessions, Connect(s) PROVE LifecycleMoves
    <2>1. Emit(s, "connecting") /\ sessions' = sessions \cup {s} /\ task[s] = "none"
      BY <1>1 DEF Connect
    <2>2. Range(events[s]) = {}
      <3>1. events[s] = <<>>
        BY <1>0, <2>1 DEF StoryOf
      <3> QED
        BY <3>1 DEF Range
    <2>3. /\ Range(events'[s]) = {"connecting"}
          /\ \A r \in Sessions \ {s} : events'[r] = events[r]
      BY <1>t, <2>1, <2>2 DEF Events
    <2>4. PhaseOf(s) = "absent"
      BY <2>2, PhaseIsFrom, PhaseTold
    <2>5. PhaseOf(s)' = "connecting"
      BY <2>3, PhaseIsFrom, PhaseTold
    <2>6. Phase' = [Phase EXCEPT ![s] = "connecting"] /\ Phase[s] = "absent"
      BY <2>3, <2>4, <2>5, PhaseMoves DEF Phase
    <2>7. Lifecycle!Announce(s)
      BY <2>1, <2>6 DEF Lifecycle!Announce, Phase
    <2> QED
      BY <2>7 DEF Lifecycle!Next, LifecycleMoves
  <1>2. ASSUME NEW s \in Sessions, ConnectSucceeds(s) PROVE LifecycleMoves
    <2>1. Emit(s, "connected") /\ sessions' = sessions /\ task[s] = "connecting"
      BY <1>2 DEF ConnectSucceeds, managerVars
    <2>2. /\ Range(events'[s]) = Range(events[s]) \cup {"connected"}
          /\ \A r \in Sessions \ {s} : events'[r] = events[r]
      BY <1>t, <2>1 DEF Events
    <2>3. Range(events[s]) \cap FinalEvents = {} /\ PhaseOf(s) \in {"connecting", "connected"}
      BY <2>1, PhaseBefore
    <2>4. PhaseOf(s)' = "connected"
      BY <2>2, <2>3, PhaseIsFrom, PhaseTold DEF FinalEvents
    <2>5. Phase' = [Phase EXCEPT ![s] = "connected"] /\ Phase[s] = PhaseOf(s)
      BY <2>2, <2>4, PhaseMoves DEF Phase
    <2>6. s \in sessions
      BY <1>0, <2>1 DEF Gone, Registered
    <2>7. CASE PhaseOf(s) = "connecting"
      <3>1. Lifecycle!Establish(s)
        BY <2>1, <2>5, <2>6, <2>7 DEF Lifecycle!Establish, Phase
      <3> QED
        BY <3>1 DEF Lifecycle!Next, LifecycleMoves
    <2>8. CASE PhaseOf(s) = "connected"
      <3>1. Phase' = Phase
        BY <2>5, <2>8 DEF Phase
      <3> QED
        BY <2>1, <3>1 DEF LifecycleMoves
    <2> QED
      BY <2>3, <2>7, <2>8
  <1>3. ASSUME NEW s \in Sessions, NEW e \in {"output", "error_event"}, Emit(s, e),
               sessions' = sessions
        PROVE  LifecycleMoves
    <2>1. /\ Range(events'[s]) = Range(events[s]) \cup {e}
          /\ \A r \in Sessions \ {s} : events'[r] = events[r]
      BY <1>3, <1>t DEF Events
    <2>2. \A r \in Sessions : PhaseOf(r)' = PhaseOf(r)
      BY <2>1, PhaseIgnores, PhaseKept
    <2> QED
      BY <1>3, <2>2, PhaseStays DEF LifecycleMoves
  <1>4. ASSUME NEW s \in Sessions, RemoveSession(s) PROVE LifecycleMoves
    <2>1. /\ task[s] \in {"ended", "reported"} /\ sessions' = sessions \ {s}
          /\ events' = events
      BY <1>4 DEF RemoveSession, historyVars
    <2>2. PhaseOf(s) \in {"connecting", "connected"} /\ s \in sessions
      BY <1>0, <2>1, PhaseBefore DEF Gone, Registered
    <2>3. Phase' = Phase /\ Phase[s] = PhaseOf(s)
      BY <2>1, PhaseKept, PhaseStays DEF Phase
    <2>4. Lifecycle!Retire(s)
      BY <2>1, <2>2, <2>3 DEF Lifecycle!Retire, Phase
    <2> QED
      BY <2>4 DEF Lifecycle!Next, LifecycleMoves
  <1>5. ASSUME NEW s \in Sessions, EmitFinal(s) PROVE LifecycleMoves
    <2>1. PICK e \in FinalEvents : /\ Emit(s, e) /\ (e = "error" <=> task[s] = "failing")
                                  /\ task[s] \in {"closing", "failing"}
      BY <1>5 DEF EmitFinal, FinalEvents
    <2>2. sessions' = sessions
      BY <1>5 DEF EmitFinal, managerVars
    <2>3. /\ Range(events'[s]) = Range(events[s]) \cup {e}
          /\ \A r \in Sessions \ {s} : events'[r] = events[r]
      BY <1>t, <2>1 DEF Events
    <2>4. /\ Range(events[s]) \cap FinalEvents = {}
          /\ PhaseOf(s) \in {"connecting", "connected"}
          /\ "connected" \in Range(events[s]) => PhaseOf(s) = "connected"
      BY <2>1, PhaseBefore
    <2>5. PhaseOf(s)' = e
      BY <2>3, <2>4, PhaseIsFrom, PhaseTold DEF FinalEvents
    <2>6. e = "disconnected" => PhaseOf(s) = "connected"
      BY <1>0, <2>1, <2>4 DEF StoryOf
    <2>7. s \notin sessions
      BY <1>0, <2>1 DEF Gone, Registered
    <2>8. Phase' = [Phase EXCEPT ![s] = e] /\ Phase[s] = PhaseOf(s)
      BY <2>3, <2>5, PhaseMoves DEF Phase
    <2>9. Lifecycle!Finish(s)
      BY <2>1, <2>2, <2>4, <2>6, <2>7, <2>8 DEF Lifecycle!Finish, Phase, FinalEvents
    <2> QED
      BY <2>9 DEF Lifecycle!Next, LifecycleMoves
  <1>6. ASSUME NEW s \in Sessions, NEW how, NEW q, RunReturns(s, how, q) PROVE LifecycleMoves
    BY <1>s, <1>6 DEF RunReturns, managerVars
  <1>7. ASSUME NEW s \in Sessions, WriteToChannel(s) \/ TakeExec(s) \/ ForwardExec(s) PROVE LifecycleMoves
    BY <1>s, <1>7 DEF WriteToChannel, TakeExec, ForwardExec, managerVars, historyVars
  <1>8. ASSUME NEW s \in Sessions, ChannelData(s) \/ ReportError(s) PROVE LifecycleMoves
    BY <1>3, <1>8 DEF ChannelData, ReportError, managerVars
  <1>9. ASSUME NEW s \in Sessions, NEW result,
               WorkerTake(s) \/ WorkerAnswer(s, result) \/ WorkerExit(s)
        PROVE  LifecycleMoves
    BY <1>s, <1>9 DEF WorkerTake, WorkerAnswer, WorkerExit, managerVars, historyVars
  <1>10. ASSUME NEW c \in Callers, Call(c) PROVE LifecycleMoves
    BY <1>s, <1>10 DEF Call, Begin, LookupFound, LookupMissing, Send, SendFails, Detected,
                       managerVars, historyVars
  <1>11. CASE UNCHANGED vars
    BY <1>s, <1>11 DEF vars, managerVars, historyVars
  <1> QED
    BY <1>1, <1>2, <1>4, <1>5, <1>6, <1>7, <1>8, <1>9, <1>10, <1>11
       DEF Next, Runtime, Worker, Quiescent, ConnectFails, WriteFails,
           HandleDisconnect, ChannelCloses

\* The session manager and its runtimes implement the life cycle: the statuses
\* announced for a session, and whether calls find it in the map, change only
\* as SessionLifecycle allows.
THEOREM LifecycleImplemented == Spec => ImplementsLifecycle
  <1>1. Init => Lifecycle!Init
    <2> SUFFICES ASSUME Init PROVE Lifecycle!Init
      OBVIOUS
    <2>1. ASSUME NEW s \in Sessions PROVE PhaseOf(s) = "absent"
      <3>1. events[s] = <<>>
        BY DEF Init
      <3>2. Range(events[s]) = {}
        BY <3>1 DEF Range
      <3> QED
        BY <3>2, PhaseIsFrom, PhaseTold
    <2> QED
      BY <2>1 DEF Init, Lifecycle!Init
  <1>2. StoryInv /\ [Next]_vars => [Lifecycle!Next]_<<Phase, sessions>>
    BY LifecycleStep DEF LifecycleMoves
  <1> QED
    BY <1>1, <1>2, StoryCorrect, PTL DEF Spec, ImplementsLifecycle, Lifecycle!Spec, Phase
=============================================================================
