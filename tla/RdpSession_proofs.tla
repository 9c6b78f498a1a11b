-------------------------- MODULE RdpSession_proofs --------------------------
(***************************************************************************)
(* Proofs about RdpSession, for every number of sessions, profiles and     *)
(* clients and every capacity of the command channels.                     *)
(***************************************************************************)
EXTENDS RdpSession, TLAPS

\* A call at one of these points deals with a session.
InHand == {"check", "stale", "unindex", "insert", "index", "cancel", "tell",
           "forget", "sending", "draining"}

HandsFull == \A c \in Clients : pc[c] \in InHand => sid[c] \in Sessions

TypeInv == TypeOK /\ HandsFull

-----------------------------------------------------------------------------
\* The types of the variables are preserved by every step.
LEMMA TypeStep == TypeInv /\ [Next]_vars => TypeInv'
  <1> SUFFICES ASSUME TypeInv, [Next]_vars
               PROVE  TypeInv'
    OBVIOUS
  <1> USE DEF TypeInv, TypeOK, HandsFull, InHand, At, Goto, CallStates, registry, tasks, calls
  <1>1. ASSUME NEW c \in Clients, NEW p \in Profiles, BeginConnect(c, p) PROVE TypeInv'
    BY <1>1 DEF BeginConnect
  <1>2. ASSUME NEW c \in Clients, Reuse(c) PROVE TypeInv'
    BY <1>2 DEF Reuse
  <1>3. ASSUME NEW c \in Clients, FindStale(c) PROVE TypeInv'
    BY <1>3 DEF FindStale
  <1>4. ASSUME NEW c \in Clients, FindNone(c) PROVE TypeInv'
    BY <1>4 DEF FindNone
  <1>5. ASSUME NEW c \in Clients, RemoveStale(c) PROVE TypeInv'
    BY <1>5 DEF RemoveStale
  <1>6. ASSUME NEW c \in Clients, UnindexStale(c) PROVE TypeInv'
    BY <1>6 DEF UnindexStale
  <1>7. ASSUME NEW c \in Clients, Spawn(c) PROVE TypeInv'
    BY <1>7 DEF Spawn, RunStates
  <1>8. ASSUME NEW c \in Clients, InsertSession(c) PROVE TypeInv'
    BY <1>8 DEF InsertSession
  <1>9. ASSUME NEW c \in Clients, InsertIndex(c) PROVE TypeInv'
    BY <1>9 DEF InsertIndex
  <1>10. ASSUME NEW c \in Clients, Cancel(c) PROVE TypeInv'
    BY <1>10 DEF Cancel
  <1>11. ASSUME NEW c \in Clients, NEW from \in InHand, NEW to \in {"forget", "drain"},
                SendDisconnect(c, from, to)
         PROVE  TypeInv'
    <2>1. sid[c] \in Sessions
      BY <1>11 DEF SendDisconnect
    <2>2. commands' \in [Sessions -> Seq({"input", "disconnect"})]
      <3>1. Append(commands[sid[c]], "disconnect") \in Seq({"input", "disconnect"})
        BY <2>1
      <3> QED
        BY <1>11, <3>1 DEF SendDisconnect
    <2> QED
      BY <1>11, <2>1, <2>2 DEF SendDisconnect
  <1>12. ASSUME NEW c \in Clients, Forget(c) PROVE TypeInv'
    BY <1>12 DEF Forget
  <1>13. ASSUME NEW c \in Clients, Drain(c) PROVE TypeInv'
    BY <1>13 DEF Drain
  <1>14. ASSUME NEW c \in Clients, Tell(c) \/ DrainTell(c) PROVE TypeInv'
    BY <1>11, <1>14 DEF Tell, DrainTell
  <1>15. ASSUME NEW c \in Clients, ClearIndex(c) PROVE TypeInv'
    BY <1>15 DEF ClearIndex
  <1>16. ASSUME NEW c \in Clients, Send(c) PROVE TypeInv'
    BY <1>16 DEF Send
  <1>17. ASSUME NEW c \in Clients, SendFails(c) PROVE TypeInv'
    BY <1>17 DEF SendFails
  <1>18. ASSUME NEW c \in Clients, NEW s \in Sessions, BeginDisconnect(c, s) PROVE TypeInv'
    BY <1>18 DEF BeginDisconnect
  <1>19. ASSUME NEW c \in Clients, NEW s \in Sessions, BeginSend(c, s) PROVE TypeInv'
    BY <1>19 DEF BeginSend
  <1>20. ASSUME NEW c \in Clients, BeginDisconnectAll(c) PROVE TypeInv'
    BY <1>20 DEF BeginDisconnectAll
  <1>21. ASSUME NEW s \in Sessions, NEW state \in RunStates,
                NEW told \in Seq(Events), Task(s, state, told)
         PROVE  /\ run' \in [Sessions -> RunStates]
                /\ events' \in [Sessions -> Seq(Events)]
    BY <1>21 DEF Task
  <1>22. ASSUME NEW s \in Sessions, NEW results \in SUBSET {"ended", "failed"},
                RunReturns(s, results)
         PROVE  TypeInv'
    <2>1. <<>> \in Seq(Events)
      OBVIOUS
    <2>2. run' \in [Sessions -> RunStates] /\ events' \in [Sessions -> Seq(Events)]
      BY <1>21, <1>22, <2>1 DEF RunReturns, RunStates
    <2>3. commands' \in [Sessions -> Seq({"input", "disconnect"})]
      BY <1>22 DEF RunReturns
    <2> QED
      BY <1>22, <2>2, <2>3 DEF RunReturns
  <1>23. ASSUME NEW s \in Sessions, LicenseRetry(s) \/ ConnectSucceeds(s) \/ EmitFinal(s)
         PROVE  TypeInv'
    <2>1. <<"connecting">> \in Seq(Events) /\ <<"connected">> \in Seq(Events)
          /\ <<"disconnected">> \in Seq(Events) /\ <<"error_event", "error">> \in Seq(Events)
      BY DEF Events
    <2>2. run' \in [Sessions -> RunStates] /\ events' \in [Sessions -> Seq(Events)]
      BY <1>21, <1>23, <2>1 DEF LicenseRetry, ConnectSucceeds, EmitFinal, RunStates
    <2> QED
      BY <1>23, <2>2 DEF LicenseRetry, ConnectSucceeds, EmitFinal, Quiet
  <1>24. ASSUME NEW s \in Sessions,
                ConnectFails(s) \/ SeeCancelled(s) \/ ServerEnds(s)
         PROVE  TypeInv'
    BY <1>22, <1>24 DEF ConnectFails, SeeCancelled, ServerEnds
  <1>25. ASSUME NEW s \in Sessions, HandleInput(s) \/ HandleDisconnect(s) PROVE TypeInv'
    <2>1. <<>> \in Seq(Events)
      OBVIOUS
    <2>2. run' \in [Sessions -> RunStates] /\ events' \in [Sessions -> Seq(Events)]
      <3>1. PICK state \in {"active", "writing", "closing"} : Task(s, state, <<>>)
        BY <1>25 DEF HandleInput, HandleDisconnect
      <3> QED
        BY <1>21, <2>1, <3>1 DEF RunStates
    <2>3. commands' \in [Sessions -> Seq({"input", "disconnect"})]
      <3>1. commands[s] # <<>> /\ commands' = [commands EXCEPT ![s] = Tail(@)]
        BY <1>25 DEF HandleInput, HandleDisconnect
      <3>2. Tail(commands[s]) \in Seq({"input", "disconnect"})
        BY <3>1
      <3> QED
        BY <3>1, <3>2
    <2> QED
      BY <1>25, <2>2, <2>3 DEF HandleInput, HandleDisconnect
  <1>28. ASSUME NEW s \in Sessions, Respond(s) \/ Written(s) PROVE TypeInv'
    <2>1. <<>> \in Seq(Events)
      OBVIOUS
    <2>2. CASE run[s] = "closing" /\ RunReturns(s, {"ended", "failed"})
      BY <1>22, <2>2
    <2>3. CASE Respond(s) \/ (run[s] = "writing" /\ Task(s, "active", <<>>) /\ Quiet)
      <3>1. run' \in [Sessions -> RunStates] /\ events' \in [Sessions -> Seq(Events)]
        BY <1>21, <2>1, <2>3 DEF Respond, RunStates
      <3> QED
        BY <2>3, <3>1 DEF Respond, Quiet
    <2> QED
      BY <1>28, <2>2, <2>3 DEF Written
  <1>26. ASSUME NEW s \in Sessions, Unlist(s) \/ Unindex(s) PROVE TypeInv'
    <2>1. <<>> \in Seq(Events)
      OBVIOUS
    <2>2. run' \in [Sessions -> RunStates] /\ events' \in [Sessions -> Seq(Events)]
      BY <1>21, <1>26, <2>1 DEF Unlist, Unindex, RunStates
    <2> QED
      BY <1>26, <2>2 DEF Unlist, Unindex
  <1>27. CASE UNCHANGED vars
    BY <1>27 DEF vars
  <1> QED
    BY <1>1, <1>2, <1>3, <1>4, <1>5, <1>6, <1>7, <1>8, <1>9, <1>10, <1>12, <1>13,
       <1>14, <1>15, <1>16, <1>17, <1>18, <1>19, <1>20, <1>23, <1>24, <1>25, <1>26, <1>27, <1>28
       DEF Next, Begin, Proceed, Runtime

\* TypeInv is inductive.
LEMMA TypeInvCorrect == Spec => []TypeInv
  <1>1. Init => TypeInv
    BY DEF Init, TypeInv, TypeOK, HandsFull, InHand, RunStates, CallStates
  <1> QED
    BY <1>1, TypeStep, PTL DEF Spec

\* Type correctness: every variable keeps its type in every behaviour.
THEOREM TypeCorrect == Spec => []TypeOK
  <1>1. TypeInv => TypeOK
    BY DEF TypeInv
  <1> QED
    BY <1>1, TypeInvCorrect, PTL
-----------------------------------------------------------------------------
(* StatusTold.  What has been told of a session follows from where its task *)
(* is: only progress before the run has ended, and after EmitFinal the      *)
(* progress followed by one of the two endings.                             *)

Progress == Seq({"connecting", "connected"})
Endings == {<<"disconnected">>, <<"error_event", "error">>}

StoryOf(s) ==
    IF run[s] \in {"told", "unlisted", "done"}
    THEN \E q \in Progress, e \in Endings : events[s] = q \o e
    ELSE events[s] \in Progress

StoryInv == TypeInv /\ \A s \in Sessions : StoryOf(s)

\* Every step keeps every session's story in line with its task.
LEMMA StoryStep ==
    ASSUME StoryInv, [Next]_vars
    PROVE  \A s \in Sessions : StoryOf(s)'
  <1> SUFFICES ASSUME NEW s \in Sessions
               PROVE  StoryOf(s)'
    OBVIOUS
  <1>0. TypeInv /\ StoryOf(s)
    BY DEF StoryInv
  <1> USE DEF StoryOf
  <1>1. ASSUME run' = run, events' = events PROVE StoryOf(s)'
    BY <1>0, <1>1
  <1>2. ASSUME NEW r \in Sessions, NEW state, NEW told, Task(r, state, told),
               r = s => \/ /\ told \in Progress
                           /\ run[s] \notin {"told", "unlisted", "done"}
                           /\ state \notin {"told", "unlisted", "done"}
                        \/ /\ told \in Endings
                           /\ run[s] \notin {"told", "unlisted", "done"}
                           /\ state = "told"
                        \/ /\ told = <<>>
                           /\ run[s] \in {"told", "unlisted"}
                           /\ state \in {"unlisted", "done"}
        PROVE  StoryOf(s)'
    <2>1. CASE r # s
      BY <1>0, <1>2, <2>1 DEF Task, TypeInv, TypeOK
    <2>2. CASE r = s
      <3>1. run'[s] = state /\ events'[s] = events[s] \o told /\ events[s] \in Seq(Events)
        BY <1>0, <1>2, <2>2 DEF Task, TypeInv, TypeOK
      <3>2. told = <<>> => events'[s] = events[s]
        BY <3>1
      <3>3. events[s] \in Progress /\ told \in Progress => events'[s] \in Progress
        BY <3>1 DEF Progress
      <3> QED
        BY <1>0, <1>2, <2>2, <3>1, <3>2, <3>3
    <2> QED
      BY <2>1, <2>2
  <1>3. <<>> \in Progress /\ <<"connecting">> \in Progress /\ <<"connected">> \in Progress
    BY DEF Progress
  <1>4. ASSUME NEW r \in Sessions, NEW results \in SUBSET {"ended", "failed"},
               RunReturns(r, results), Receiving(r)
        PROVE  StoryOf(s)'
    BY <1>2, <1>3, <1>4 DEF RunReturns, Receiving
  <1>5. ASSUME NEW r \in Sessions, Runtime(r) \/ Respond(r) \/ Written(r) \/ ServerEnds(r)
        PROVE  StoryOf(s)'
    <2>1. CASE LicenseRetry(r) \/ ConnectSucceeds(r)
      BY <1>2, <1>3, <2>1 DEF LicenseRetry, ConnectSucceeds
    <2>2. CASE ConnectFails(r) \/ SeeCancelled(r) \/ ServerEnds(r)
      BY <1>4, <2>2 DEF ConnectFails, SeeCancelled, ServerEnds, Receiving
    <2>3. CASE HandleInput(r) \/ HandleDisconnect(r) \/ Respond(r)
      BY <1>2, <1>3, <2>3 DEF HandleInput, HandleDisconnect, Respond
    <2>6. CASE Written(r)
      BY <1>2, <1>3, <1>4, <2>6 DEF Written, Receiving
    <2>4. CASE EmitFinal(r)
      BY <1>2, <2>4 DEF EmitFinal, Endings
    <2>5. CASE Unlist(r) \/ Unindex(r)
      BY <1>2, <2>5 DEF Unlist, Unindex
    <2> QED
      BY <1>5, <2>1, <2>2, <2>3, <2>4, <2>5, <2>6 DEF Runtime
  <1>6. ASSUME NEW c \in Clients, Spawn(c) PROVE StoryOf(s)'
    <2>1. events' = events
      BY <1>6 DEF Spawn
    <2>2. (run'[s] \in {"told", "unlisted", "done"}) <=> (run[s] \in {"told", "unlisted", "done"})
      BY <1>0, <1>6 DEF Spawn, TypeInv, TypeOK
    <2> QED
      BY <1>0, <2>1, <2>2
  <1>7. ASSUME NEW c \in Clients, Begin(c) \/ Proceed(c), ~Spawn(c) PROVE StoryOf(s)'
    <2>1. run' = run /\ events' = events
      BY <1>7 DEF Begin, Proceed, BeginConnect, BeginDisconnect, BeginSend, BeginDisconnectAll,
         Reuse, FindStale, FindNone, RemoveStale, UnindexStale, InsertSession, InsertIndex,
         Cancel, Tell, SendDisconnect, Forget, Drain, DrainTell, ClearIndex, Send, SendFails,
         tasks
    <2> QED
      BY <1>1, <2>1
  <1>8. CASE UNCHANGED vars
    BY <1>1, <1>8 DEF vars, tasks
  <1> QED
    BY <1>5, <1>6, <1>7, <1>8 DEF Next

\* What an ended story says: one final status, last, and an error exactly when
\* an error event came before it.
LEMMA EndedStory ==
    ASSUME NEW q \in Progress, NEW e \in Endings, NEW t, t = q \o e
    PROVE  /\ \A i \in DOMAIN t : t[i] \in FinalEvents =>
                 /\ i = Len(t)
                 /\ (t[i] = "error") <=> ("error_event" \in Range(t))
           /\ Range(t) \cap FinalEvents # {}
  <1> DEFINE n == Len(q)
  <1>1. /\ n \in Nat
        /\ \A i \in 1 .. n : q[i] \in {"connecting", "connected"}
    BY DEF Progress
  <1>2. /\ Len(t) = n + Len(e)
        /\ DOMAIN t = 1 .. n + Len(e)
        /\ \A i \in 1 .. n : t[i] = q[i]
        /\ \A i \in n + 1 .. n + Len(e) : t[i] = e[i - n]
    BY DEF Progress, Endings
  <1> HIDE DEF n
  <1>3. CASE e = <<"disconnected">>
    <2>1. Len(e) = 1 /\ e[1] = "disconnected"
      BY <1>3
    <2>2. t[n + 1] = "disconnected" /\ n + 1 \in DOMAIN t /\ Len(t) = n + 1
      BY <1>1, <1>2, <2>1
    <2>3. \A i \in DOMAIN t : i = n + 1 \/ t[i] \in {"connecting", "connected"}
      BY <1>1, <1>2, <2>1
    <2>4. "error_event" \notin Range(t) /\ "disconnected" \in Range(t)
      BY <2>2, <2>3 DEF Range
    <2> QED
      BY <2>2, <2>3, <2>4 DEF FinalEvents
  <1>4. CASE e = <<"error_event", "error">>
    <2>1. Len(e) = 2 /\ e[1] = "error_event" /\ e[2] = "error"
      BY <1>4
    <2>2. /\ t[n + 1] = "error_event" /\ n + 1 \in DOMAIN t
          /\ t[n + 2] = "error" /\ n + 2 \in DOMAIN t /\ Len(t) = n + 2
      BY <1>1, <1>2, <2>1
    <2>3. \A i \in DOMAIN t : i = n + 2 \/ i = n + 1 \/ t[i] \in {"connecting", "connected"}
      BY <1>1, <1>2, <2>1
    <2>4. "error_event" \in Range(t) /\ "error" \in Range(t)
      BY <2>2 DEF Range
    <2> QED
      BY <2>2, <2>3, <2>4 DEF FinalEvents
  <1> QED
    BY <1>3, <1>4 DEF Endings

\* Each session tells one final status, last, that agrees with its error event,
\* and has told it before it leaves the maps: for every number of sessions,
\* whatever the clients and the servers do.
THEOREM StatusAlwaysTold == Spec => []StatusTold
  <1>1. Init => StoryInv
    <2> SUFFICES ASSUME Init PROVE StoryInv
      OBVIOUS
    <2>1. TypeInv
      BY DEF Init, TypeInv, TypeOK, HandsFull, InHand, RunStates, CallStates
    <2>2. ASSUME NEW s \in Sessions PROVE StoryOf(s)
      BY DEF Init, StoryOf, Progress
    <2> QED
      BY <2>1, <2>2 DEF StoryInv
  <1>2. StoryInv /\ [Next]_vars => StoryInv'
    BY TypeStep, StoryStep DEF StoryInv
  <1>3. StoryInv => StatusTold
    <2> SUFFICES ASSUME StoryInv, NEW s \in Sessions
                 PROVE  /\ \A i \in DOMAIN events[s] : events[s][i] \in FinalEvents =>
                             /\ i = Len(events[s])
                             /\ (events[s][i] = "error") <=> ("error_event" \in Range(events[s]))
                        /\ run[s] \in {"told", "unlisted", "done"} =>
                             Range(events[s]) \cap FinalEvents # {}
      BY DEF StatusTold
    <2>1. StoryOf(s)
      BY DEF StoryInv
    <2>2. CASE run[s] \in {"told", "unlisted", "done"}
      BY <2>1, <2>2, EndedStory DEF StoryOf
    <2>3. CASE run[s] \notin {"told", "unlisted", "done"}
      <3>1. \A i \in DOMAIN events[s] : events[s][i] \in {"connecting", "connected"}
        BY <2>1, <2>3 DEF StoryOf, Progress
      <3> QED
        BY <2>3, <3>1 DEF FinalEvents
    <2> QED
      BY <2>2, <2>3
  <1> QED
    BY <1>1, <1>2, <1>3, PTL DEF Spec
-----------------------------------------------------------------------------
(* NoOrphan and ReusedIsLive.  A session is entering the map (its connect   *)
(* is about to insert it), in it, or leaving it for good (its token is      *)
(* cancelled or a call has it in hand to cancel it), never two of these at  *)
(* once, and a session that receives commands is always one of the three.   *)

Entering(c, s) == pc[c] = "insert" /\ sid[c] = s

LeavingBy(c, s) == (pc[c] = "cancel" /\ sid[c] = s) \/ s \in todo[c]

Leaving(s) == s \in cancelled \/ \E c \in Clients : LeavingBy(c, s)

\* Only sessions that were spawned are anywhere.
Spawned ==
    \A s \in Sessions :
        s \in sessions \/ Leaving(s) \/ (\E c \in Clients : Entering(c, s))
            => run[s] # "none"

\* The stages exclude each other, and one call at most inserts a session.
OneStage ==
    /\ \A s \in Sessions : Leaving(s) => s \notin sessions
    /\ \A c \in Clients, s \in Sessions : Entering(c, s) =>
         /\ s \notin sessions
         /\ ~Leaving(s)
         /\ \A d \in Clients : Entering(d, s) => d = c

\* What connect removes as stale has ended for good.
StaleIsOver ==
    \A c \in Clients : pc[c] = "stale" => run[sid[c]] # "none" /\ ~Receiving(sid[c])

\* disconnect_all starts with nothing left to drain.
DrainOwns == \A c \in Clients : pc[c] \notin {"drain", "draining"} => todo[c] = {}

StageInv == TypeInv /\ NoOrphan /\ Spawned /\ OneStage /\ StaleIsOver /\ DrainOwns
\* A step of a call that neither registers nor cancels a session.
LEMMA CallAside ==
    ASSUME StageInv, NEW c \in Clients, NEW state \in CallStates,
           NEW x \in Sessions \cup {NoSession},
           pc[c] \notin {"insert", "cancel"},
           state \notin {"insert", "cancel", "stale"},
           Goto(c, state), sid' = [sid EXCEPT ![c] = x],
           state \in {"drain", "draining"} \/ todo[c] = {},
           UNCHANGED <<sessions, cancelled, todo, run>>
    PROVE  NoOrphan' /\ Spawned' /\ OneStage' /\ StaleIsOver' /\ DrainOwns'
  <1> USE DEF StageInv, TypeInv, TypeOK, Goto
  <1>1. ASSUME NEW d \in Clients
        PROVE  /\ pc'[d] = IF d = c THEN state ELSE pc[d]
               /\ sid'[d] = IF d = c THEN x ELSE sid[d]
    OBVIOUS
  <1>2. \A d \in Clients, s \in Sessions :
            /\ Entering(d, s)' <=> Entering(d, s)
            /\ LeavingBy(d, s)' <=> LeavingBy(d, s)
    BY <1>1 DEF Entering, LeavingBy
  <1>3. \A s \in Sessions : (Leaving(s)' <=> Leaving(s)) /\ (Receiving(s)' <=> Receiving(s))
    BY <1>2 DEF Leaving, Receiving
  <1>4. NoOrphan'
    BY <1>2, <1>3 DEF NoOrphan, Entering, Leaving, LeavingBy
  <1>5. Spawned' /\ OneStage'
    BY <1>2, <1>3 DEF Spawned, OneStage
  <1>6. StaleIsOver'
    BY <1>1 DEF StaleIsOver, Receiving
  <1>7. DrainOwns'
    BY <1>1 DEF DrainOwns
  <1> QED
    BY <1>4, <1>5, <1>6, <1>7

\* A step of a session's task, which never starts to receive again.
LEMMA TaskAside ==
    ASSUME StageInv, NEW s \in Sessions, NEW state \in RunStates,
           run[s] # "none", state # "none",
           state \in {"connecting", "retrying", "active", "writing", "closing"} => Receiving(s),
           run' = [run EXCEPT ![s] = state],
           UNCHANGED <<cancelled, calls>>,
           sessions' = sessions \/ (sessions' = sessions \ {s} /\ ~Receiving(s))
    PROVE  NoOrphan' /\ Spawned' /\ OneStage' /\ StaleIsOver' /\ DrainOwns'
  <1> USE DEF StageInv, TypeInv, TypeOK, calls
  <1>1. \A d \in Clients, r \in Sessions :
            /\ Entering(d, r)' <=> Entering(d, r)
            /\ LeavingBy(d, r)' <=> LeavingBy(d, r)
    BY DEF Entering, LeavingBy
  <1>2. \A r \in Sessions : /\ Leaving(r)' <=> Leaving(r)
                            /\ Receiving(r)' => Receiving(r) /\ (r \in sessions => r \in sessions')
                            /\ run[r] # "none" => run'[r] # "none"
    BY <1>1 DEF Leaving, Receiving
  <1>3. sessions' \subseteq sessions
    OBVIOUS
  <1>4. NoOrphan'
    BY <1>1, <1>2 DEF NoOrphan, Entering, Leaving, LeavingBy
  <1>5. Spawned' /\ OneStage'
    BY <1>1, <1>2, <1>3 DEF Spawned, OneStage
  <1>6. StaleIsOver'
    BY <1>2 DEF StaleIsOver, HandsFull, InHand
  <1>7. DrainOwns'
    BY DEF DrainOwns
  <1> QED
    BY <1>4, <1>5, <1>6, <1>7

\* StageInv is preserved by every step.
LEMMA StageStep == StageInv /\ [Next]_vars => StageInv'
  <1> SUFFICES ASSUME StageInv, [Next]_vars
               PROVE  NoOrphan' /\ Spawned' /\ OneStage' /\ StaleIsOver' /\ DrainOwns'
    BY TypeStep DEF StageInv
  <1> DEFINE Goal == NoOrphan' /\ Spawned' /\ OneStage' /\ StaleIsOver' /\ DrainOwns'
  <1>0. TypeInv
    BY DEF StageInv
  <1>1. ASSUME NEW c \in Clients, NEW p \in Profiles, BeginConnect(c, p) PROVE Goal
    <2>1. index[p] \in Sessions \cup {NoSession} /\ todo[c] = {}
      BY <1>0, <1>1 DEF TypeInv, TypeOK, StageInv, DrainOwns, BeginConnect, At
    <2> QED
      BY <1>1, <2>1, CallAside DEF BeginConnect, At, registry, tasks, CallStates
  <1>2. ASSUME NEW c \in Clients,
               \/ Reuse(c) \/ FindNone(c) \/ UnindexStale(c) \/ InsertIndex(c)
               \/ Tell(c) \/ Forget(c) \/ DrainTell(c) \/ ClearIndex(c)
               \/ Send(c) \/ SendFails(c) \/ RemoveStale(c)
        PROVE  Goal
    <2>1. sid[c] \in Sessions \cup {NoSession} /\ sid = [sid EXCEPT ![c] = sid[c]]
      BY <1>0 DEF TypeInv, TypeOK
    <2>2. pc[c] \in {"drain", "draining"} \/ todo[c] = {}
      BY DEF StageInv, DrainOwns
    <2>3. CASE Reuse(c) \/ FindNone(c)
      BY <2>1, <2>2, <2>3, CallAside DEF Reuse, FindNone, At, registry, tasks, CallStates
    <2>4. CASE UnindexStale(c) \/ InsertIndex(c)
      BY <2>1, <2>2, <2>4, CallAside DEF UnindexStale, InsertIndex, At, tasks, CallStates
    <2>5. CASE Tell(c) \/ DrainTell(c)
      BY <2>1, <2>2, <2>5, CallAside DEF Tell, DrainTell, SendDisconnect, At, registry, CallStates
    <2>6. CASE Forget(c) \/ ClearIndex(c)
      BY <2>1, <2>2, <2>6, CallAside DEF Forget, ClearIndex, At, tasks, CallStates
    <2>7. CASE Send(c) \/ SendFails(c)
      BY <2>1, <2>2, <2>7, CallAside DEF Send, SendFails, At, tasks, CallStates
    <2>8. CASE RemoveStale(c)
      <3> USE DEF StageInv, TypeInv, TypeOK
      <3>1. /\ pc[c] = "stale" /\ pc' = [pc EXCEPT ![c] = "unindex"]
            /\ sid[c] \in Sessions /\ ~Receiving(sid[c]) /\ sessions' = sessions \ {sid[c]}
            /\ UNCHANGED <<sid, cancelled, todo, run>>
        BY <2>8 DEF RemoveStale, At, Goto, tasks, StaleIsOver, HandsFull, InHand
      <3>2. \A d \in Clients, s \in Sessions :
                /\ Entering(d, s)' <=> Entering(d, s)
                /\ LeavingBy(d, s)' <=> LeavingBy(d, s)
        BY <3>1 DEF Entering, LeavingBy
      <3>3. \A s \in Sessions : (Leaving(s)' <=> Leaving(s)) /\ (Receiving(s)' <=> Receiving(s))
        BY <3>1, <3>2 DEF Leaving, Receiving
      <3>4. NoOrphan'
        BY <3>1, <3>2, <3>3 DEF NoOrphan, Entering, Leaving, LeavingBy
      <3>5. Spawned' /\ OneStage'
        BY <3>1, <3>2, <3>3 DEF Spawned, OneStage
      <3>6. StaleIsOver' /\ DrainOwns'
        BY <3>1 DEF StaleIsOver, DrainOwns, Receiving
      <3> QED
        BY <3>4, <3>5, <3>6
    <2> QED
      BY <1>2, <2>3, <2>4, <2>5, <2>6, <2>7, <2>8
  <1>3. ASSUME NEW c \in Clients, NEW s \in Sessions, BeginSend(c, s) PROVE Goal
    <2>1. todo[c] = {}
      BY <1>3 DEF StageInv, DrainOwns, BeginSend, At
    <2> QED
      BY <1>3, <2>1, CallAside DEF BeginSend, At, tasks, CallStates
  <1>4. ASSUME NEW c \in Clients, FindStale(c) PROVE Goal
    <2> USE DEF StageInv, TypeInv, TypeOK
    <2>1. /\ pc[c] = "check" /\ pc' = [pc EXCEPT ![c] = "stale"]
          /\ sid[c] \in sessions /\ ~Receiving(sid[c]) /\ run[sid[c]] # "none"
          /\ UNCHANGED <<sessions, sid, cancelled, todo, run>>
      BY <1>4 DEF FindStale, At, Goto, registry, tasks, Spawned
    <2>2. \A d \in Clients, s \in Sessions :
              /\ Entering(d, s)' <=> Entering(d, s)
              /\ LeavingBy(d, s)' <=> LeavingBy(d, s)
      BY <2>1 DEF Entering, LeavingBy
    <2>3. \A s \in Sessions : (Leaving(s)' <=> Leaving(s)) /\ (Receiving(s)' <=> Receiving(s))
      BY <2>1, <2>2 DEF Leaving, Receiving
    <2>4. NoOrphan'
      BY <2>1, <2>2, <2>3 DEF NoOrphan, Entering, Leaving, LeavingBy
    <2>5. Spawned' /\ OneStage'
      BY <2>1, <2>2, <2>3 DEF Spawned, OneStage
    <2>6. StaleIsOver' /\ DrainOwns'
      BY <2>1 DEF StaleIsOver, DrainOwns, Receiving
    <2> QED
      BY <2>4, <2>5, <2>6
  <1>5. ASSUME NEW c \in Clients, Spawn(c) PROVE Goal
    <2> USE DEF StageInv, TypeInv, TypeOK
    <2>1. PICK s \in Sessions : /\ run[s] = "none"
                                /\ run' = [run EXCEPT ![s] = "connecting"]
                                /\ sid' = [sid EXCEPT ![c] = s]
      BY <1>5 DEF Spawn
    <2>2. /\ pc[c] = "spawn" /\ pc' = [pc EXCEPT ![c] = "insert"]
          /\ UNCHANGED <<sessions, cancelled, todo>>
      BY <1>5 DEF Spawn, At, Goto, registry
    <2>3. s \notin sessions /\ ~Leaving(s) /\ \A d \in Clients : ~Entering(d, s)
      BY <2>1 DEF Spawned
    <2>4. \A d \in Clients, r \in Sessions :
              /\ Entering(d, r)' <=> (Entering(d, r) \/ (d = c /\ r = s))
              /\ LeavingBy(d, r)' <=> LeavingBy(d, r)
      BY <2>1, <2>2 DEF Entering, LeavingBy
    <2>5. \A r \in Sessions : /\ Leaving(r)' <=> Leaving(r)
                              /\ Receiving(r)' <=> (Receiving(r) \/ r = s)
                              /\ run[r] # "none" => run'[r] # "none"
      BY <2>1, <2>2, <2>4 DEF Leaving, Receiving
    <2>6. NoOrphan'
      BY <2>2, <2>4, <2>5 DEF NoOrphan, Entering, Leaving, LeavingBy
    <2>7. Spawned'
      BY <2>1, <2>2, <2>4, <2>5 DEF Spawned
    <2>8. OneStage'
      BY <2>2, <2>3, <2>4, <2>5 DEF OneStage
    <2>9. StaleIsOver' /\ DrainOwns'
      BY <2>1, <2>2 DEF StaleIsOver, DrainOwns, Receiving, HandsFull, InHand
    <2> QED
      BY <2>6, <2>7, <2>8, <2>9
  <1>6. ASSUME NEW c \in Clients, InsertSession(c) PROVE Goal
    <2> USE DEF StageInv, TypeInv, TypeOK
    <2>1. /\ pc[c] = "insert" /\ pc' = [pc EXCEPT ![c] = "index"]
          /\ sid[c] \in Sessions /\ sessions' = sessions \cup {sid[c]}
          /\ UNCHANGED <<sid, cancelled, todo, run>>
      BY <1>6 DEF InsertSession, At, Goto, tasks, HandsFull, InHand
    <2>2. \A d \in Clients, s \in Sessions :
              /\ Entering(d, s)' <=> (Entering(d, s) /\ d # c)
              /\ LeavingBy(d, s)' <=> LeavingBy(d, s)
      BY <2>1 DEF Entering, LeavingBy
    <2>3. \A s \in Sessions : (Leaving(s)' <=> Leaving(s)) /\ (Receiving(s)' <=> Receiving(s))
      BY <2>1, <2>2 DEF Leaving, Receiving
    <2>4. Entering(c, sid[c])
      BY <2>1 DEF Entering
    <2>5. NoOrphan'
      BY <2>1, <2>2, <2>3 DEF NoOrphan, Entering, Leaving, LeavingBy
    <2>6. Spawned'
      BY <2>1, <2>2, <2>3, <2>4 DEF Spawned
    <2>7. OneStage'
      BY <2>1, <2>2, <2>3, <2>4 DEF OneStage
    <2>8. StaleIsOver' /\ DrainOwns'
      BY <2>1 DEF StaleIsOver, DrainOwns, Receiving
    <2> QED
      BY <2>5, <2>6, <2>7, <2>8
  <1>7. ASSUME NEW c \in Clients, NEW s \in Sessions, BeginDisconnect(c, s) PROVE Goal
    <2> USE DEF StageInv, TypeInv, TypeOK
    <2>1. /\ pc[c] = "idle" /\ todo[c] = {}
          /\ sid' = [sid EXCEPT ![c] = s]
          /\ sessions' = sessions \ {s}
          /\ pc' = IF s \in sessions THEN [pc EXCEPT ![c] = "cancel"] ELSE pc
          /\ UNCHANGED <<cancelled, todo, run>>
      BY <1>7 DEF BeginDisconnect, At, Goto, tasks, DrainOwns
    <2>2. \A d \in Clients, r \in Sessions :
              /\ Entering(d, r)' <=> Entering(d, r)
              /\ LeavingBy(d, r)' <=> (LeavingBy(d, r) \/ (d = c /\ r = s /\ s \in sessions))
      BY <2>1 DEF Entering, LeavingBy
    <2>3. \A r \in Sessions : /\ Leaving(r)' <=> (Leaving(r) \/ (r = s /\ s \in sessions))
                              /\ Receiving(r)' <=> Receiving(r)
      BY <2>1, <2>2 DEF Leaving, Receiving
    <2>4. NoOrphan'
      BY <2>1, <2>2, <2>3 DEF NoOrphan, Entering, Leaving, LeavingBy
    <2>5. Spawned'
      BY <2>1, <2>2, <2>3 DEF Spawned
    <2>6. OneStage'
      BY <2>1, <2>2, <2>3 DEF OneStage
    <2>7. StaleIsOver' /\ DrainOwns'
      BY <2>1 DEF StaleIsOver, DrainOwns, Receiving
    <2> QED
      BY <2>4, <2>5, <2>6, <2>7
  <1>8. ASSUME NEW c \in Clients, Cancel(c) PROVE Goal
    <2> USE DEF StageInv, TypeInv, TypeOK
    <2>1. /\ pc[c] = "cancel" /\ pc' = [pc EXCEPT ![c] = "tell"]
          /\ sid[c] \in Sessions /\ cancelled' = cancelled \cup {sid[c]}
          /\ UNCHANGED <<sid, sessions, todo, run>>
      BY <1>8 DEF Cancel, At, Goto, registry, tasks, HandsFull, InHand
    <2>2. \A d \in Clients, s \in Sessions :
              /\ Entering(d, s)' <=> Entering(d, s)
              /\ LeavingBy(d, s)' => LeavingBy(d, s)
              /\ LeavingBy(d, s) => LeavingBy(d, s)' \/ s = sid[c]
      BY <2>1 DEF Entering, LeavingBy
    <2>3. LeavingBy(c, sid[c])
      BY <2>1 DEF LeavingBy
    <2>4. \A s \in Sessions : (Leaving(s)' <=> Leaving(s)) /\ (Receiving(s)' <=> Receiving(s))
      BY <2>1, <2>2, <2>3 DEF Leaving, Receiving
    <2>5. NoOrphan'
      BY <2>1, <2>2, <2>4 DEF NoOrphan, Entering, Leaving, LeavingBy
    <2>6. Spawned' /\ OneStage'
      BY <2>1, <2>2, <2>4 DEF Spawned, OneStage
    <2>7. StaleIsOver' /\ DrainOwns'
      BY <2>1 DEF StaleIsOver, DrainOwns, Receiving
    <2> QED
      BY <2>5, <2>6, <2>7
  <1>9. ASSUME NEW c \in Clients, BeginDisconnectAll(c) PROVE Goal
    <2> USE DEF StageInv, TypeInv, TypeOK
    <2>1. /\ pc[c] = "idle" /\ pc' = [pc EXCEPT ![c] = "drain"]
          /\ todo[c] = {} /\ todo' = [todo EXCEPT ![c] = sessions] /\ sessions' = {}
          /\ UNCHANGED <<sid, cancelled, run>>
      BY <1>9 DEF BeginDisconnectAll, At, Goto, tasks, DrainOwns
    <2>2. \A d \in Clients, s \in Sessions :
              /\ Entering(d, s)' <=> Entering(d, s)
              /\ LeavingBy(d, s)' <=> (LeavingBy(d, s) \/ (d = c /\ s \in sessions))
      BY <2>1 DEF Entering, LeavingBy
    <2>3. \A s \in Sessions : /\ Leaving(s)' <=> (Leaving(s) \/ s \in sessions)
                              /\ Receiving(s)' <=> Receiving(s)
      BY <2>1, <2>2 DEF Leaving, Receiving
    <2>4. NoOrphan'
      BY <2>1, <2>2, <2>3 DEF NoOrphan, Entering, Leaving, LeavingBy
    <2>5. Spawned'
      BY <2>1, <2>2, <2>3 DEF Spawned
    <2>6. OneStage'
      BY <2>1, <2>2, <2>3 DEF OneStage
    <2>7. StaleIsOver' /\ DrainOwns'
      BY <2>1 DEF StaleIsOver, DrainOwns, Receiving
    <2> QED
      BY <2>4, <2>5, <2>6, <2>7
  <1>10. ASSUME NEW c \in Clients, Drain(c) PROVE Goal
    <2> USE DEF StageInv, TypeInv, TypeOK
    <2>1. PICK s \in todo[c] : /\ cancelled' = cancelled \cup {s}
                               /\ sid' = [sid EXCEPT ![c] = s]
                               /\ todo' = [todo EXCEPT ![c] = @ \ {s}]
      BY <1>10 DEF Drain
    <2>2. /\ pc[c] = "drain" /\ pc' = [pc EXCEPT ![c] = "draining"]
          /\ UNCHANGED <<sessions, run>> /\ s \in Sessions
      BY <1>10, <2>1 DEF Drain, At, Goto, registry, tasks
    <2>3. \A d \in Clients, r \in Sessions :
              /\ Entering(d, r)' <=> Entering(d, r)
              /\ LeavingBy(d, r)' => LeavingBy(d, r)
              /\ LeavingBy(d, r) => LeavingBy(d, r)' \/ r = s
      BY <2>1, <2>2 DEF Entering, LeavingBy
    <2>4. LeavingBy(c, s)
      BY <2>1 DEF LeavingBy
    <2>5. \A r \in Sessions : (Leaving(r)' <=> Leaving(r)) /\ (Receiving(r)' <=> Receiving(r))
      BY <2>1, <2>2, <2>3, <2>4 DEF Leaving, Receiving
    <2>6. NoOrphan'
      BY <2>2, <2>3, <2>5 DEF NoOrphan, Entering, Leaving, LeavingBy
    <2>7. Spawned' /\ OneStage'
      BY <2>2, <2>3, <2>5 DEF Spawned, OneStage
    <2>8. StaleIsOver' /\ DrainOwns'
      BY <2>1, <2>2 DEF StaleIsOver, DrainOwns, Receiving
    <2> QED
      BY <2>6, <2>7, <2>8
  <1>11. ASSUME NEW s \in Sessions, Runtime(s) \/ Respond(s) \/ Written(s) \/ ServerEnds(s)
         PROVE  Goal
    <2>1. CASE LicenseRetry(s) \/ ConnectSucceeds(s) \/ EmitFinal(s)
      BY <2>1, TaskAside
         DEF LicenseRetry, ConnectSucceeds, EmitFinal, Task, Quiet, registry, Receiving, RunStates
    <2>2. ASSUME NEW results \in SUBSET {"ended", "failed"}, RunReturns(s, results), Receiving(s)
          PROVE  Goal
      BY <2>2, TaskAside DEF RunReturns, Task, registry, Receiving, RunStates
    <2>3. CASE ConnectFails(s) \/ SeeCancelled(s) \/ ServerEnds(s)
      BY <2>2, <2>3 DEF ConnectFails, SeeCancelled, ServerEnds, Receiving
    <2>4. CASE HandleInput(s) \/ HandleDisconnect(s) \/ Respond(s)
      BY <2>4, TaskAside
         DEF HandleInput, HandleDisconnect, Respond, Task, Quiet, registry, Receiving, RunStates
    <2>6. CASE Written(s)
      <3>1. CASE run[s] = "writing" /\ Task(s, "active", <<>>) /\ Quiet
        BY <3>1, TaskAside DEF Task, Quiet, registry, Receiving, RunStates
      <3> QED
        BY <2>2, <2>6, <3>1 DEF Written, Receiving
    <2>5. CASE Unlist(s) \/ Unindex(s)
      BY <2>5, TaskAside DEF Unlist, Unindex, Task, Receiving, RunStates
    <2> QED
      BY <1>11, <2>1, <2>3, <2>4, <2>5, <2>6 DEF Runtime
  <1>12. CASE UNCHANGED vars
    BY <1>12
       DEF vars, registry, tasks, calls, StageInv, NoOrphan, Spawned, OneStage, StaleIsOver,
           DrainOwns, Entering, Leaving, LeavingBy, Receiving
  <1> QED
    BY <1>1, <1>2, <1>3, <1>4, <1>5, <1>6, <1>7, <1>8, <1>9, <1>10, <1>11, <1>12
       DEF Next, Begin, Proceed

\* StageInv is inductive.
LEMMA StageCorrect == Spec => []StageInv
  <1>1. Init => StageInv
    <2> SUFFICES ASSUME Init PROVE StageInv
      OBVIOUS
    <2>1. TypeInv
      BY DEF Init, TypeInv, TypeOK, HandsFull, InHand, RunStates, CallStates
    <2>2. \A c \in Clients, s \in Sessions : ~Entering(c, s) /\ ~LeavingBy(c, s)
      BY DEF Init, Entering, LeavingBy
    <2>3. \A s \in Sessions : ~Leaving(s) /\ s \notin sessions /\ ~Receiving(s)
      BY <2>2 DEF Init, Leaving, Receiving
    <2> QED
      BY <2>1, <2>2, <2>3
         DEF Init, StageInv, NoOrphan, Spawned, OneStage, StaleIsOver, DrainOwns
  <1> QED
    BY <1>1, StageStep, PTL DEF Spec

\* No session runs out of reach, however the two locks are taken and whichever
\* calls overlap.
THEOREM NoSessionOrphaned == Spec => []NoOrphan
  <1>1. StageInv => NoOrphan
    BY DEF StageInv
  <1> QED
    BY <1>1, StageCorrect, PTL

\* The registered session connect finds and returns is one that nobody has
\* disconnected (a session it spawns is returned whatever has become of it).
THEOREM ReusedSessionsLive == Spec => ReusedIsLive
  <1>1. ASSUME StageInv, [Next]_vars, NEW c \in Clients, At(c, "check"), pc'[c] = "idle"
        PROVE  sid[c] \notin cancelled
    <2>1. pc \in [Clients -> CallStates] /\ sid[c] \in Sessions
      BY <1>1 DEF StageInv, TypeInv, TypeOK, HandsFull, InHand, At
    <2>2. pc' # pc
      BY <1>1 DEF At
    <2>3. ASSUME NEW d \in Clients, Begin(d) \/ Proceed(d) PROVE Reuse(c)
      <3>1. d = c
        BY <1>1, <2>1, <2>3
           DEF Begin, Proceed, BeginConnect, BeginDisconnect, BeginSend, BeginDisconnectAll,
               Reuse, FindStale, FindNone, RemoveStale, UnindexStale, Spawn, InsertSession,
               InsertIndex, Cancel, Tell, SendDisconnect, Forget, Drain, DrainTell, ClearIndex,
               Send, SendFails, At, Goto
      <3> QED
        BY <1>1, <2>1, <2>3, <3>1
           DEF Begin, Proceed, BeginConnect, BeginDisconnect, BeginSend, BeginDisconnectAll,
               FindStale, FindNone, RemoveStale, UnindexStale, Spawn, InsertSession,
               InsertIndex, Cancel, Tell, SendDisconnect, Forget, Drain, DrainTell, ClearIndex,
               Send, SendFails, At, Goto
    <2>4. ASSUME NEW s \in Sessions, Runtime(s) \/ Respond(s) \/ Written(s) \/ ServerEnds(s)
          PROVE  FALSE
      BY <2>2, <2>4
         DEF Runtime, Respond, Written, ServerEnds, LicenseRetry, ConnectSucceeds, ConnectFails, SeeCancelled,
             HandleInput, HandleDisconnect, EmitFinal, Unlist, Unindex, RunReturns, Quiet, calls
    <2>5. Reuse(c)
      BY <1>1, <2>2, <2>3, <2>4 DEF Next, vars, calls
    <2> QED
      BY <1>1, <2>1, <2>5 DEF Reuse, StageInv, OneStage, Leaving
  <1>2. StageInv /\ [Next]_vars =>
            [\A c \in Clients : At(c, "check") /\ pc'[c] = "idle" => sid[c] \notin cancelled]_vars
    BY <1>1
  <1> QED
    BY <1>2, StageCorrect, PTL DEF Spec, ReusedIsLive
=============================================================================
