-------------------------- MODULE RdpRuntime_proofs --------------------------
(***************************************************************************)
(* Proofs about RdpRuntime, for every set of profiles, files and texts and *)
(* any number of copies and screen updates.                                *)
(***************************************************************************)
EXTENDS RdpRuntime, TLAPS

-----------------------------------------------------------------------------
(* NlaNeverDropped.  The retry carries the security of the profile, and the *)
(* license bypass is set only once an attempt was made, so an attempt with  *)
(* the bypass is the second.                                                *)

Points == {"try", "tcp", "begin", "tls", "finalize", "active", "ended"}
AttemptType == [credssp : BOOLEAN, stub : BOOLEAN, bypass : BOOLEAN]

ConnType ==
    /\ profile.credssp \in BOOLEAN
    /\ pc \in Points
    /\ attempts \in Seq(AttemptType)
    /\ retry \in AttemptType
    /\ repaired \in BOOLEAN

\* How many attempts there are, by where run is.
Counted ==
    /\ Len(attempts) <= 2
    /\ pc = "try" => Len(attempts) <= 1
    /\ pc \in {"tcp", "begin", "tls", "finalize"} => Len(attempts) >= 1
    /\ retry.bypass => Len(attempts) >= 1

\* What security they had.
SameSecurity ==
    /\ retry.credssp = profile.credssp
    /\ \A i \in DOMAIN attempts :
          /\ attempts[i].credssp = profile.credssp
          /\ attempts[i].bypass => i = 2
    /\ repaired => ~profile.credssp /\ Len(attempts) = 2 /\ pc \in {"active", "ended"}

ConnInv == ConnType /\ Counted /\ SameSecurity

\* The stages follow each other.
LEMMA AfterStage ==
    /\ After("tcp") = "begin"
    /\ After("begin") = "tls"
    /\ After("tls") = "finalize"
  <1>1. \A i \in 1 .. 4 : /\ Stages[i] = "tcp" <=> i = 1
                          /\ Stages[i] = "begin" <=> i = 2
                          /\ Stages[i] = "tls" <=> i = 3
    BY DEF Stages
  <1>2. /\ (CHOOSE i \in 1 .. 4 : Stages[i] = "tcp") = 1
        /\ (CHOOSE i \in 1 .. 4 : Stages[i] = "begin") = 2
        /\ (CHOOSE i \in 1 .. 4 : Stages[i] = "tls") = 3
    BY <1>1
  <1> QED
    BY <1>2 DEF After, Stages

\* The profile the app makes of a file asks for CredSSP or does not.
LEMMA AppParseType ==
    ASSUME NEW f
    PROVE  AppParse(f).credssp \in BOOLEAN
  BY DEF AppParse, Profile

\* A step that leaves the connection alone keeps its invariant.
LEMMA ConnKept == ConnInv /\ UNCHANGED connVars => ConnInv'
  BY DEF ConnInv, ConnType, Counted, SameSecurity, connVars

\* The invariant holds at first.
LEMMA ConnInit == Init => ConnInv
  <1> SUFFICES ASSUME Init PROVE ConnInv
    OBVIOUS
  <1>1. profile.credssp \in BOOLEAN
    BY InputsAssumption, AppParseType DEF Init
  <1>2. retry = [credssp |-> profile.credssp, stub |-> IsCyberarkPam(profile), bypass |-> FALSE]
    BY DEF Init
  <1>3. retry \in AttemptType /\ retry.credssp = profile.credssp /\ ~retry.bypass
    BY <1>1, <1>2 DEF AttemptType, IsCyberarkPam
  <1>4. attempts = <<>> /\ pc = "try" /\ repaired = FALSE
    BY DEF Init
  <1>5. attempts \in Seq(AttemptType) /\ Len(attempts) = 0 /\ DOMAIN attempts = {}
    BY <1>4
  <1>6. ConnType
    BY <1>1, <1>3, <1>4, <1>5 DEF ConnType, Points
  <1>7. Counted /\ SameSecurity
    BY <1>3, <1>4, <1>5 DEF Counted, SameSecurity
  <1> QED
    BY <1>6, <1>7 DEF ConnInv

\* An attempt begins.
LEMMA TryStep == ConnInv /\ TryConnect => ConnInv'
  <1> SUFFICES ASSUME ConnInv, TryConnect PROVE ConnInv'
    OBVIOUS
  <1> USE DEF ConnInv
  <1>1. CASE cancelled
    BY <1>1 DEF TryConnect, Return, ConnType, Counted, SameSecurity, Points
  <1>2. CASE ~cancelled
    <2>1. /\ attempts' = Append(attempts, retry) /\ pc = "try" /\ pc' = "tcp"
          /\ UNCHANGED <<profile, retry, repaired>>
      BY <1>2 DEF TryConnect
    <2>2. /\ attempts \in Seq(AttemptType) /\ retry \in AttemptType
          /\ Len(attempts) \in Nat /\ Len(attempts) <= 1
      BY <2>1 DEF ConnType, Counted
    <2>3. /\ attempts' \in Seq(AttemptType) /\ Len(attempts') = Len(attempts) + 1
          /\ DOMAIN attempts' = 1 .. Len(attempts) + 1 /\ DOMAIN attempts = 1 .. Len(attempts)
          /\ \A i \in 1 .. Len(attempts) : attempts'[i] = attempts[i]
          /\ attempts'[Len(attempts) + 1] = retry
      BY <2>1, <2>2
    <2>4. ConnType'
      BY <2>1, <2>3 DEF ConnType, Points
    <2>5. Counted'
      BY <2>1, <2>2, <2>3 DEF Counted
    <2>6. ~repaired
      BY <2>1 DEF SameSecurity
    <2>7. ASSUME NEW i \in DOMAIN attempts'
          PROVE  attempts'[i].credssp = profile.credssp /\ (attempts'[i].bypass => i = 2)
      <3>1. CASE i \in 1 .. Len(attempts)
        BY <2>3, <3>1 DEF SameSecurity
      <3>2. CASE i = Len(attempts) + 1
        BY <2>2, <2>3, <3>2 DEF SameSecurity, Counted
      <3> QED
        BY <2>2, <2>3, <3>1, <3>2
    <2>8. SameSecurity'
      BY <2>1, <2>6, <2>7 DEF SameSecurity
    <2> QED
      BY <2>4, <2>5, <2>8
  <1> QED
    BY <1>1, <1>2

\* Nothing about the attempts changes but where run is.
LEMMA StageStep ==
    ASSUME ConnInv, StageDone \/ StageFails \/ SeeCancelled \/ ServerEnds
    PROVE  ConnInv'
  <1>1. UNCHANGED <<profile, attempts, retry, repaired>>
    BY DEF StageDone, StageFails, SeeCancelled, ServerEnds
  <1>2. \/ pc \in {"tcp", "begin", "tls"} /\ pc' \in {"begin", "tls", "finalize"}
        \/ pc' = "ended"
    BY AfterStage DEF StageDone, StageFails, SeeCancelled, ServerEnds, Return
  <1> QED
    BY <1>1, <1>2 DEF ConnInv, ConnType, Counted, SameSecurity, Points

\* A repair is made only for an attempt with the bypass and without CredSSP,
\* which is the second attempt of a profile without it.
LEMMA FinalizeStep ==
    ASSUME ConnInv, NEW license, Finalize(license)
    PROVE  ConnInv'
  <1>1. /\ UNCHANGED <<profile, attempts, retry>> /\ pc = "finalize" /\ pc' = "active"
        /\ repaired' = (license # "good") /\ (license = "good" \/ Repairs(license))
    BY DEF Finalize
  <1>2. /\ attempts \in Seq(AttemptType) /\ Len(attempts) \in 1 .. 2
        /\ Len(attempts) \in DOMAIN attempts
    <2>1. attempts \in Seq(AttemptType) /\ Len(attempts) <= 2 /\ Len(attempts) >= 1
      BY <1>1 DEF ConnInv, ConnType, Counted
    <2>2. Len(attempts) \in Nat /\ DOMAIN attempts = 1 .. Len(attempts)
      BY <2>1
    <2> QED
      BY <2>1, <2>2
  <1>3. repaired' => ~profile.credssp /\ Len(attempts) = 2
    BY <1>1, <1>2 DEF Repairs, Attempt, ConnInv, SameSecurity
  <1> QED
    BY <1>1, <1>2, <1>3 DEF ConnInv, ConnType, Counted, SameSecurity, Points

\* The retry after a license error keeps the security of the profile.
LEMMA LicenseStep ==
    ASSUME ConnInv, NEW license, LicenseFails(license)
    PROVE  ConnInv'
  <1>1. UNCHANGED <<profile, attempts, repaired>> /\ pc = "finalize"
    BY DEF LicenseFails
  <1>2. CASE Len(attempts) = 1
    <2>1. pc' = "try" /\ retry' = [credssp |-> profile.credssp, stub |-> TRUE, bypass |-> TRUE]
      BY <1>2 DEF LicenseFails
    <2>2. retry' \in AttemptType /\ retry'.credssp = profile.credssp
      BY <2>1 DEF ConnInv, ConnType, AttemptType
    <2> QED
      BY <1>1, <1>2, <2>1, <2>2 DEF ConnInv, ConnType, Counted, SameSecurity, Points
  <1>3. CASE Len(attempts) # 1
    BY <1>1, <1>3 DEF LicenseFails, Return, ConnInv, ConnType, Counted, SameSecurity, Points
  <1> QED
    BY <1>2, <1>3

\* The invariant is kept by every step.
LEMMA ConnStep == ConnInv /\ [Next]_vars => ConnInv'
  <1> SUFFICES ASSUME ConnInv, [Next]_vars PROVE ConnInv'
    OBVIOUS
  <1>1. CASE Connecting
    BY <1>1, TryStep, StageStep, FinalizeStep, LicenseStep DEF Connecting
  <1>2. CASE SeeCancelled \/ ServerEnds
    BY <1>2, StageStep
  <1>3. CASE Cancel \/ GraphicsUpdate \/ FrameTick
    BY <1>3, ConnKept DEF Cancel, GraphicsUpdate, FrameTick
  <1>4. CASE ClipboardTick \/ ClipboardPdu \/ ServerTakes \/ RemotePaste
    BY <1>4, ConnKept DEF ClipboardTick, ClipboardPdu, ServerTakes, RemotePaste
  <1>5. ASSUME NEW t, RemoteCopy(t) \/ LocalCopy(t) PROVE ConnInv'
    BY <1>5, ConnKept DEF RemoteCopy, LocalCopy
  <1>6. CASE UNCHANGED vars
    BY <1>6, ConnKept DEF vars
  <1> QED
    BY <1>1, <1>2, <1>3, <1>4, <1>5, <1>6 DEF Next

\* No failure makes a session weaker than its profile, whatever the server
\* answers and in whatever order, wherever the profile comes from.
THEOREM SecurityKept == Spec => []NlaNeverDropped
  <1>1. ConnInv => NlaNeverDropped
    BY DEF ConnInv, Counted, SameSecurity, NlaNeverDropped
  <1> QED
    BY <1>1, ConnInit, ConnStep, PTL DEF Spec

-----------------------------------------------------------------------------
(* The safety half of CancelRespected.                                      *)

\* Once the session is cancelled run dials no more, not for the retry either:
\* an attempt is only ever added while the token is not cancelled.
THEOREM NoDialAfterCancel == Spec => [][Len(attempts') > Len(attempts) => ~cancelled]_vars
  <1>1. ASSUME ConnInv, [Next]_vars, Len(attempts') > Len(attempts), cancelled PROVE FALSE
    <2>1. Len(attempts) \in Nat
      BY <1>1 DEF ConnInv, ConnType
    <2>2. attempts' # attempts
      BY <1>1, <2>1
    <2>3. TryConnect
      BY <1>1, <2>2 DEF Next, Connecting, StageDone, StageFails, Finalize, LicenseFails, Cancel,
                        SeeCancelled, ServerEnds, GraphicsUpdate, FrameTick, ClipboardTick,
                        ClipboardPdu, ServerTakes, RemotePaste, RemoteCopy, LocalCopy,
                        connVars, vars
    <2> QED
      BY <1>1, <2>2, <2>3 DEF TryConnect
  <1>2. ConnInv /\ [Next]_vars => [Len(attempts') > Len(attempts) => ~cancelled]_vars
    BY <1>1
  <1> QED
    BY <1>2, ConnInit, ConnStep, PTL DEF Spec

-----------------------------------------------------------------------------
(* NoBounce.  A text on the local clipboard that came from the server is    *)
(* the one last_text remembers, so the poll does not take it for a new one; *)
(* and the one announcement made without that test answers the server's     *)
(* first message, before anything came from it.                             *)

Text == Texts \cup {NoText}
Message == [type : {"announce", "request", "send"}, text : Text]
Event == [type : {"format_list", "copied", "data_request", "text", "error"}, text : Text]

ClipType ==
    /\ last \in Text
    /\ local \in [text : Text, from : {"user", "remote"}]
    /\ remote \in [text : Text, from : {"user", "local"}]
    /\ toServer \in Seq(Message)
    /\ fromServer \in Seq(Event)
    /\ writeFailed \in BOOLEAN
    /\ unsent \in BOOLEAN

\* The server asks for the first announcement once, before anything else, when
\* no text of its own can have arrived.
AskedFirst ==
    \A i \in DOMAIN fromServer :
        fromServer[i].type = "format_list" => i = 1 /\ local.from = "user"

\* A text that came from the server is the last one that crossed.
Remembered == local.from = "remote" /\ ~writeFailed => last = local.text

ClipInv == ClipType /\ AskedFirst /\ Remembered

\* The fields of what the clipboard sync returns.
LEMMA SyncFields ==
    ASSUME NEW l, NEW a, NEW type, NEW text
    PROVE  /\ Sync(l, a).last = l /\ Sync(l, a).action = a
           /\ Act(type, text).type = type /\ Act(type, text).text = text
           /\ Nothing = Act("nothing", NoText)
  BY DEF Sync, Act, Nothing

\* What the poll decides: nothing, or to announce a text that is not the last.
LEMMA PollDecides ==
    ASSUME NEW l \in Text, NEW t \in Text
    PROVE  \/ OnLocalText(l, t) = Sync(l, Nothing)
           \/ t \notin {NoText, l} /\ OnLocalText(l, t) = Sync(t, Act("announce", t))
  BY DEF OnLocalText

\* What is decided on an event: the first announcement; an answer that leaves
\* the last text as it was; or a write of a text, which becomes the last.
LEMMA EventDecides ==
    ASSUME NEW l \in Text, NEW t \in Text, NEW e \in Event
    PROVE  \/ /\ e.type = "format_list"
              /\ OnRemoteEvent(l, e, t) = Sync(t, Act("announce", t))
           \/ OnRemoteEvent(l, e, t) = Sync(l, Nothing)
           \/ OnRemoteEvent(l, e, t) = Sync(l, Act("request", NoText))
           \/ OnRemoteEvent(l, e, t) = Sync(l, Act("send", t))
           \/ /\ e.type = "text"
              /\ OnRemoteEvent(l, e, t) = Sync(e.text, Act("write", e.text))
  <1>1. e.type \in {"format_list", "copied", "data_request", "text", "error"}
    BY DEF Event
  <1>2. CASE e.type = "format_list"
    BY <1>2 DEF OnRemoteEvent
  <1>3. CASE e.type = "copied"
    BY <1>3 DEF OnRemoteEvent
  <1>4. CASE e.type = "data_request"
    BY <1>4 DEF OnRemoteEvent
  <1>5. CASE e.type = "text"
    BY <1>5 DEF OnRemoteEvent
  <1>6. CASE e.type = "error"
    BY <1>6 DEF OnRemoteEvent
  <1> QED
    BY <1>1, <1>2, <1>3, <1>4, <1>5, <1>6

\* Nothing is not a message.
LEMMA ActionTypes ==
    ASSUME NEW type \in {"announce", "request", "send", "write"}, NEW t
    PROVE  Act(type, t).type = type /\ Act(type, t).text = t /\ Act(type, t) # Nothing
  <1>1. Act(type, t).type = type /\ Act(type, t).text = t
    BY DEF Act
  <1>2. Nothing.type = "nothing"
    BY DEF Nothing, Act
  <1> QED
    BY <1>1, <1>2

\* What each kind of action does to the clipboard and to the channel.
LEMMA ApplyNothing ==
    ASSUME Apply(Nothing)
    PROVE  UNCHANGED <<local, writeFailed, unsent, toServer>>
  <1>1. Nothing.type = "nothing"
    BY DEF Nothing, Act
  <1> QED
    BY <1>1 DEF Apply

\* A message is put on the channel, or dropped.
LEMMA ApplySends ==
    ASSUME NEW type \in {"announce", "request", "send"}, NEW t \in Text, ClipType,
           Apply(Act(type, t))
    PROVE  /\ local' = local
           /\ writeFailed' = (type # "announce" /\ writeFailed)
           /\ unsent' \in BOOLEAN
           /\ toServer' \in Seq(Message)
           /\ Len(toServer') > Len(toServer) => toServer'[Len(toServer')].type = type
  <1>1. Act(type, t).type = type /\ Act(type, t) \in Message
    BY DEF Act, Message
  <1>2. SendMessage(Act(type, t))
    BY <1>1, ActionTypes DEF Apply
  <1>3. toServer \in Seq(Message) /\ unsent \in BOOLEAN
    BY DEF ClipType
  <1>4. \/ toServer' = Append(toServer, Act(type, t))
        \/ toServer' = toServer
    BY <1>2 DEF SendMessage
  <1>5. unsent' \in BOOLEAN
    BY <1>2 DEF SendMessage
  <1>6. local' = local /\ writeFailed' = (type # "announce" /\ writeFailed)
    BY <1>1, <1>2 DEF SendMessage
  <1> QED
    BY <1>1, <1>3, <1>4, <1>5, <1>6

\* The local clipboard is written, or the write fails.
LEMMA ApplyWrites ==
    ASSUME NEW t \in Text, Apply(Act("write", t))
    PROVE  /\ UNCHANGED <<toServer, unsent>>
           /\ \/ local' = [text |-> t, from |-> "remote"] /\ writeFailed' = FALSE
              \/ local' = local /\ writeFailed' = TRUE
  BY ActionTypes DEF Apply, WriteLocal

\* A message appended to the channel from the server that does not ask for the
\* first announcement.
LEMMA TellKeeps ==
    ASSUME ClipInv, NEW type \in {"copied", "data_request", "text", "error"}, NEW t \in Text,
           Tell(type, t)
    PROVE  /\ fromServer' \in Seq(Event)
           /\ \A i \in DOMAIN fromServer' :
                 fromServer'[i].type = "format_list" => i = 1 /\ local.from = "user"
  <1>1. fromServer \in Seq(Event) /\ AskedFirst
    BY DEF ClipInv, ClipType
  <1>2. Act(type, t) \in Event /\ Act(type, t).type # "format_list"
    BY DEF Act, Event
  <1>3. fromServer' = Append(fromServer, Act(type, t))
    BY DEF Tell
  <1>4. /\ fromServer' \in Seq(Event)
        /\ DOMAIN fromServer' = 1 .. Len(fromServer) + 1 /\ DOMAIN fromServer = 1 .. Len(fromServer)
        /\ Len(fromServer) \in Nat
        /\ \A i \in 1 .. Len(fromServer) : fromServer'[i] = fromServer[i]
        /\ fromServer'[Len(fromServer) + 1] = Act(type, t)
    BY <1>1, <1>2, <1>3
  <1>5. ASSUME NEW i \in DOMAIN fromServer', fromServer'[i].type = "format_list"
        PROVE  i = 1 /\ local.from = "user"
    <2>1. i # Len(fromServer) + 1
      BY <1>2, <1>4, <1>5
    <2>2. i \in DOMAIN fromServer /\ fromServer'[i] = fromServer[i]
      BY <1>4, <2>1
    <2> QED
      BY <1>1, <1>5, <2>2 DEF AskedFirst
  <1> QED
    BY <1>4, <1>5

\* Taking the head of the channel leaves no request for the first announcement.
LEMMA TakeKeeps ==
    ASSUME ClipInv, fromServer # <<>>, fromServer' = Tail(fromServer)
    PROVE  /\ fromServer' \in Seq(Event)
           /\ Head(fromServer) \in Event
           /\ Head(fromServer).type = "format_list" => local.from = "user"
           /\ \A i \in DOMAIN fromServer' : fromServer'[i].type # "format_list"
  <1>1. fromServer \in Seq(Event) /\ AskedFirst
    BY DEF ClipInv, ClipType
  <1>2. /\ fromServer' \in Seq(Event) /\ Head(fromServer) \in Event
        /\ Len(fromServer) \in Nat /\ Len(fromServer) > 0
        /\ Head(fromServer) = fromServer[1] /\ 1 \in DOMAIN fromServer
        /\ DOMAIN fromServer = 1 .. Len(fromServer)
        /\ DOMAIN fromServer' = 1 .. Len(fromServer) - 1
        /\ \A i \in 1 .. Len(fromServer) - 1 : fromServer'[i] = fromServer[i + 1]
    BY <1>1
  <1>3. ASSUME NEW i \in DOMAIN fromServer' PROVE fromServer'[i].type # "format_list"
    <2>1. i + 1 \in DOMAIN fromServer /\ i + 1 # 1 /\ fromServer'[i] = fromServer[i + 1]
      BY <1>2
    <2> QED
      BY <1>1, <2>1 DEF AskedFirst
  <1>4. Head(fromServer).type = "format_list" => local.from = "user"
    BY <1>1, <1>2 DEF AskedFirst
  <1> QED
    BY <1>2, <1>3, <1>4

\* What NoBounce forbids of a step.
Quiet ==
    Len(toServer') > Len(toServer) /\ toServer'[Len(toServer')].type = "announce" =>
        local.from # "remote" \/ writeFailed

\* A channel that does not grow announces nothing.
LEMMA NoMessage == ASSUME ClipType, toServer' = toServer PROVE Quiet
  <1>1. Len(toServer) \in Nat
    BY DEF ClipType
  <1> QED
    BY <1>1 DEF Quiet

\* What the local clipboard reads as.
LEMMA ReadingType == ASSUME ClipType, NEW t \in Readings PROVE t \in Text
  BY DEF ClipType, Readings, Text

\* The poll.
LEMMA PollStep == ASSUME ClipInv, ClipboardTick PROVE ClipInv' /\ Quiet
  <1>1. ClipType /\ AskedFirst /\ Remembered /\ last \in Text /\ local.text \in Text
    BY DEF ClipInv, ClipType
  <1>2. UNCHANGED <<remote, fromServer>>
    BY DEF ClipboardTick
  <1>3. PICK t \in Readings : /\ last' = OnLocalText(last, t).last
                              /\ Apply(OnLocalText(last, t).action)
    BY DEF ClipboardTick
  <1>4. CASE OnLocalText(last, t) = Sync(last, Nothing)
    <2>1. last' = last /\ Apply(Nothing)
      BY <1>3, <1>4, SyncFields
    <2>2. UNCHANGED <<local, writeFailed, unsent, toServer>>
      BY <2>1, ApplyNothing
    <2>3. Quiet
      BY <1>1, <2>2, NoMessage
    <2> QED
      BY <1>1, <1>2, <2>1, <2>2, <2>3 DEF ClipInv, ClipType, AskedFirst, Remembered
  <1>5. CASE t \notin {NoText, last} /\ OnLocalText(last, t) = Sync(t, Act("announce", t))
    <2>1. t = local.text
      BY <1>5 DEF Readings
    <2>2. last' = local.text /\ Apply(Act("announce", local.text))
      BY <1>3, <1>5, <2>1, SyncFields
    <2>3. /\ local' = local /\ writeFailed' = FALSE /\ unsent' \in BOOLEAN
          /\ toServer' \in Seq(Message)
      BY <1>1, <2>2, ApplySends
    <2>4. Quiet
      BY <1>1, <1>5, <2>1 DEF Quiet, Remembered
    <2> QED
      BY <1>1, <1>2, <2>2, <2>3, <2>4 DEF ClipInv, ClipType, AskedFirst, Remembered
  <1> QED
    BY <1>1, <1>4, <1>5, ReadingType, PollDecides

\* An event of the clipboard channel.
LEMMA EventStep == ASSUME ClipInv, ClipboardPdu PROVE ClipInv' /\ Quiet
  <1> DEFINE e == Head(fromServer)
  <1>1. ClipType /\ AskedFirst /\ Remembered /\ last \in Text /\ writeFailed \in BOOLEAN
    BY DEF ClipInv, ClipType
  <1>2. remote' = remote /\ fromServer # <<>> /\ fromServer' = Tail(fromServer)
    BY DEF ClipboardPdu
  <1>3. /\ fromServer' \in Seq(Event) /\ e \in Event
        /\ e.type = "format_list" => local.from = "user"
        /\ \A i \in DOMAIN fromServer' : fromServer'[i].type # "format_list"
    BY <1>2, TakeKeeps
  <1>4. PICK t \in Readings : /\ last' = OnRemoteEvent(last, e, t).last
                              /\ Apply(OnRemoteEvent(last, e, t).action)
    BY DEF ClipboardPdu
  <1> HIDE DEF e
  <1>5. AskedFirst'
    BY <1>3 DEF AskedFirst
  <1>6. e.text \in Text /\ t \in Text
    BY <1>1, <1>3, ReadingType DEF Event
  <1>7. CASE /\ e.type = "format_list"
             /\ OnRemoteEvent(last, e, t) = Sync(t, Act("announce", t))
    <2>1. last' = t /\ Apply(Act("announce", t)) /\ local.from = "user"
      BY <1>3, <1>4, <1>7, SyncFields
    <2>2. /\ local' = local /\ writeFailed' = FALSE /\ unsent' \in BOOLEAN
          /\ toServer' \in Seq(Message)
      BY <1>1, <1>6, <2>1, ApplySends
    <2>3. Quiet
      BY <2>1 DEF Quiet
    <2> QED
      BY <1>1, <1>2, <1>3, <1>5, <1>6, <2>1, <2>2, <2>3 DEF ClipInv, ClipType, Remembered
  <1>8. CASE OnRemoteEvent(last, e, t) = Sync(last, Nothing)
    <2>1. last' = last /\ Apply(Nothing)
      BY <1>4, <1>8, SyncFields
    <2>2. UNCHANGED <<local, writeFailed, unsent, toServer>>
      BY <2>1, ApplyNothing
    <2>3. Quiet
      BY <1>1, <2>2, NoMessage
    <2> QED
      BY <1>1, <1>2, <1>3, <1>5, <2>1, <2>2, <2>3 DEF ClipInv, ClipType, Remembered
  <1>9. ASSUME NEW type \in {"request", "send"}, NEW u \in Text,
               OnRemoteEvent(last, e, t) = Sync(last, Act(type, u))
        PROVE  ClipInv' /\ Quiet
    <2>1. last' = last /\ Apply(Act(type, u))
      BY <1>4, <1>9, SyncFields
    <2>2. /\ local' = local /\ writeFailed' = writeFailed /\ unsent' \in BOOLEAN
          /\ toServer' \in Seq(Message)
          /\ Len(toServer') > Len(toServer) => toServer'[Len(toServer')].type = type
      BY <1>1, <2>1, ApplySends
    <2>3. Quiet
      BY <2>2 DEF Quiet
    <2> QED
      BY <1>1, <1>2, <1>3, <1>5, <2>1, <2>2, <2>3 DEF ClipInv, ClipType, Remembered
  <1>10. CASE OnRemoteEvent(last, e, t) = Sync(e.text, Act("write", e.text))
    <2>1. last' = e.text /\ Apply(Act("write", e.text))
      BY <1>4, <1>10, SyncFields
    <2>2. /\ UNCHANGED <<toServer, unsent>>
          /\ \/ local' = [text |-> e.text, from |-> "remote"] /\ writeFailed' = FALSE
             \/ local' = local /\ writeFailed' = TRUE
      BY <1>6, <2>1, ApplyWrites
    <2>3. Quiet
      BY <1>1, <2>2, NoMessage
    <2>4. local' \in [text : Text, from : {"user", "remote"}] /\ writeFailed' \in BOOLEAN
      <3>1. [text |-> e.text, from |-> "remote"] \in [text : Text, from : {"user", "remote"}]
        BY <1>6
      <3>2. local \in [text : Text, from : {"user", "remote"}]
        BY <1>1 DEF ClipType
      <3>3. local' \in [text : Text, from : {"user", "remote"}]
        BY <2>2, <3>1, <3>2, Zenon
      <3>4. writeFailed' \in BOOLEAN
        BY <2>2, Zenon
      <3> QED
        BY <3>3, <3>4
    <2>5. Remembered'
      BY <2>1, <2>2 DEF Remembered
    <2> QED
      BY <1>1, <1>2, <1>3, <1>5, <1>6, <2>1, <2>2, <2>3, <2>4, <2>5 DEF ClipInv, ClipType
  <1>11. NoText \in Text
    BY DEF Text
  <1> QED
    BY <1>1, <1>3, <1>6, <1>7, <1>8, <1>9, <1>10, <1>11, EventDecides

\* The server takes a message and may answer it.
LEMMA ServerStep == ASSUME ClipInv, ServerTakes PROVE ClipInv' /\ Quiet
  <1>1. ClipType /\ AskedFirst /\ Remembered /\ toServer \in Seq(Message)
    BY DEF ClipInv, ClipType
  <1>2. toServer # <<>> /\ toServer' = Tail(toServer) /\ UNCHANGED <<local, last, writeFailed, unsent>>
    BY DEF ServerTakes
  <1>3. toServer' \in Seq(Message) /\ Len(toServer') = Len(toServer) - 1 /\ Len(toServer) \in Nat
    BY <1>1, <1>2
  <1>4. Quiet
    BY <1>3 DEF Quiet
  <1>5. remote' \in [text : Text, from : {"user", "local"}]
    BY <1>1 DEF ServerTakes, ClipType, Text
  <1>6. /\ fromServer' \in Seq(Event)
        /\ \A i \in DOMAIN fromServer' :
              fromServer'[i].type = "format_list" => i = 1 /\ local.from = "user"
    <2>1. CASE Head(toServer).type = "request"
      <3>1. PICK type \in {"text", "error"} : Tell(type, remote.text)
        BY <2>1 DEF ServerTakes
      <3>2. remote.text \in Text
        BY <1>1 DEF ClipType
      <3> QED
        BY <3>1, <3>2, TellKeeps
    <2>2. CASE Head(toServer).type # "request"
      BY <1>1, <2>2 DEF ServerTakes, ClipType, AskedFirst
    <2> QED
      BY <2>1, <2>2
  <1> QED
    BY <1>1, <1>2, <1>3, <1>4, <1>5, <1>6 DEF ClipInv, ClipType, AskedFirst, Remembered

\* The two users.
LEMMA UserStep ==
    ASSUME ClipInv, NEW t \in Text, RemotePaste \/ RemoteCopy(t) \/ LocalCopy(t)
    PROVE  ClipInv' /\ Quiet
  <1>1. ClipType /\ AskedFirst /\ Remembered
    BY DEF ClipInv
  <1>2. toServer' = toServer /\ UNCHANGED <<last, writeFailed, unsent>>
    BY DEF RemotePaste, RemoteCopy, LocalCopy
  <1>3. Quiet
    BY <1>1, <1>2, NoMessage
  <1>4. CASE LocalCopy(t)
    <2>1. local' = [text |-> t, from |-> "user"] /\ UNCHANGED <<remote, fromServer>>
      BY <1>4 DEF LocalCopy
    <2> QED
      BY <1>1, <1>2, <1>3, <2>1 DEF ClipInv, ClipType, AskedFirst, Remembered
  <1>5. CASE RemotePaste \/ RemoteCopy(t)
    <2>1. local' = local
      BY <1>5 DEF RemotePaste, RemoteCopy
    <2>2. remote' \in [text : Text, from : {"user", "local"}]
      BY <1>1, <1>5 DEF RemotePaste, RemoteCopy, ClipType
    <2>3. NoText \in Text
      BY DEF Text
    <2>4. PICK type \in {"copied", "data_request"}, u \in Text : Tell(type, u)
      BY <1>5, <2>3 DEF RemotePaste, RemoteCopy
    <2>5. /\ fromServer' \in Seq(Event)
          /\ \A i \in DOMAIN fromServer' :
                fromServer'[i].type = "format_list" => i = 1 /\ local.from = "user"
      BY <2>4, TellKeeps
    <2> QED
      BY <1>1, <1>2, <1>3, <2>1, <2>2, <2>5 DEF ClipInv, ClipType, AskedFirst, Remembered
  <1> QED
    BY <1>4, <1>5

\* Every step keeps the invariant and does not bounce.
LEMMA ClipStep == ASSUME ClipInv, [Next]_vars PROVE ClipInv' /\ Quiet
  <1>1. UNCHANGED clipVars => ClipInv' /\ Quiet
    <2> SUFFICES ASSUME UNCHANGED clipVars PROVE ClipInv' /\ Quiet
      OBVIOUS
    <2>1. Quiet
      BY NoMessage DEF ClipInv, clipVars
    <2> QED
      BY <2>1 DEF ClipInv, ClipType, AskedFirst, Remembered, clipVars
  <1>2. CASE Connecting
    BY <1>1, <1>2 DEF Connecting, TryConnect, StageDone, StageFails, Finalize, LicenseFails
  <1>3. CASE SeeCancelled \/ ServerEnds \/ Cancel \/ GraphicsUpdate \/ FrameTick
    BY <1>1, <1>3 DEF SeeCancelled, ServerEnds, Cancel, GraphicsUpdate, FrameTick
  <1>4. CASE ClipboardTick \/ ClipboardPdu \/ ServerTakes
    BY <1>4, PollStep, EventStep, ServerStep
  <1>5. ASSUME NEW t \in Text, RemotePaste \/ RemoteCopy(t) \/ LocalCopy(t)
        PROVE  ClipInv' /\ Quiet
    BY <1>5, UserStep
  <1>6. CASE RemotePaste
    <2>1. NoText \in Text
      BY DEF Text
    <2> QED
      BY <1>5, <1>6, <2>1
  <1>7. CASE \E t \in Texts \cup {NoText} : RemoteCopy(t) \/ LocalCopy(t)
    BY <1>5, <1>7 DEF Text
  <1>8. CASE UNCHANGED vars
    BY <1>1, <1>8 DEF vars
  <1> QED
    BY <1>2, <1>3, <1>4, <1>6, <1>7, <1>8 DEF Next

\* A text never bounces back, except from a text that could not be written to
\* the next that crosses, for any texts, any number of copies on the two sides
\* and any order of polls, copies and messages.
THEOREM TextsDoNotBounce == Spec => NoBounce
  <1>1. Init => ClipInv
    <2> SUFFICES ASSUME Init PROVE ClipInv
      OBVIOUS
    <2>1. Act("format_list", NoText) \in Event /\ NoText \in Text
      BY DEF Act, Event, Text
    <2>2. fromServer = << Act("format_list", NoText) >> /\ local.from = "user"
      BY DEF Init
    <2>3. fromServer \in Seq(Event) /\ DOMAIN fromServer = {1}
      BY <2>1, <2>2
    <2>4. ClipType
      <3>1. local \in [text : Text, from : {"user", "remote"}]
        BY DEF Init, Text
      <3>2. remote \in [text : Text, from : {"user", "local"}]
        BY DEF Init, Text
      <3>3. toServer \in Seq(Message) /\ last = NoText /\ writeFailed = FALSE
            /\ unsent = FALSE
        BY DEF Init
      <3> QED
        BY <2>1, <2>3, <3>1, <3>2, <3>3 DEF ClipType
    <2> QED
      BY <2>2, <2>3, <2>4 DEF ClipInv, AskedFirst, Remembered
  <1>2. ClipInv /\ [Next]_vars => ClipInv'
    BY ClipStep
  <1>3. ClipInv /\ [Next]_vars =>
            [Len(toServer') > Len(toServer) /\ toServer'[Len(toServer')].type = "announce" =>
                local.from # "remote" \/ writeFailed]_vars
    BY ClipStep DEF Quiet
  <1> QED
    BY <1>1, <1>2, <1>3, PTL DEF Spec, NoBounce
=============================================================================
