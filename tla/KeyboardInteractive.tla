-------------------------- MODULE KeyboardInteractive --------------------------
(***************************************************************************)
(* Keyboard-interactive authentication without a callback into the user    *)
(* interface.                                                              *)
(*                                                                         *)
(* An attempt that meets a round of prompts it has no answer for leaves    *)
(* the round in PENDING, with the answers to the rounds before it, and     *)
(* fails.  The dialog of a failed attempt reads the pending round, and     *)
(* answer_pending turns it into ANSWERS, which the next connect takes and  *)
(* replays.  PENDING and ANSWERS have a lock each, so that answer_pending  *)
(* and take_answers are two steps, and they are keyed by host only: tabs,  *)
(* tunnels and panels that connect to the same host share them.            *)
(*                                                                         *)
(* A round the program answers by itself (no prompts, or a lone password   *)
(* prompt and a saved password) touches neither map nor the answers in     *)
(* hand, so it is a stuttering step here.  No name is one of HostKeys, so  *)
(* that the two can be checked in one run.                                 *)
(***************************************************************************)
EXTENDS Logins, Functions

CONSTANTS
    MaxLogins,  \* bound: connects per attempt
    MaxTyped    \* bound: rounds the user answers

VARIABLES
    openRounds,  \* PENDING: the unanswered round of each host, or NoRound
    answers,     \* ANSWERS: the answers the next connect to each host replays
    stage,       \* where each attempt is
    route,       \* the hosts it goes through
    at,          \* the one it is at
    mine,        \* the taken answers it has not sent yet
    answered,    \* the taken answers it has sent in this login
    asked,       \* the number of the round in its dialog
    rounds,      \* the answers answer_pending is about to store
    logins,      \* connects so far
    typed        \* how many rounds the user has answered

stores == <<openRounds, answers>>
place == <<stage, route, at>>
hands == <<mine, answered, asked, rounds>>
keyboardVars == <<stores, place, hands, logins, typed>>

\* What the user typed for one round: a serial number, the host that asked and
\* the number of the round in the dialog.
Answer == [n : Nat \ {0}, host : Hosts, round : Nat \ {0}]

\* What PENDING knows of a host: whether a round waits for the user, and the
\* answers to the rounds before it.
Round == [open : BOOLEAN, answered : Seq(Answer)]
NoRound == [open |-> FALSE, answered |-> <<>>]

HostAt(a) == route[a][at[a]]
Target(a) == route[a][Len(route[a])]

Stages == {"idle", "dialing", "primary", "agent", "taking", "exchanging", "failed",
           "asking", "storing"}

KeyboardTypes ==
    /\ openRounds \in [Hosts -> Round]
    /\ answers \in [Hosts -> Seq(Answer)]
    /\ stage \in [Attempts -> Stages]
    /\ route \in [Attempts -> Chains]
    /\ at \in [Attempts -> Nat \ {0}]
    /\ \A a \in Attempts : at[a] <= Len(route[a])
    /\ mine \in [Attempts -> Seq(Answer)]
    /\ answered \in [Attempts -> Seq(Answer)]
    /\ asked \in [Attempts -> Nat]
    /\ rounds \in [Attempts -> Seq(Answer)]
    /\ logins \in [Attempts -> Nat]
    /\ typed \in Nat

\* An attempt has answers in hand only in the login that took them and in the
\* dialog that is storing them: when authenticate returns, whatever its result,
\* nothing of them is left with the attempt, which goes on to another host or
\* to another login.
EmptyHands ==
    \A a \in Attempts :
        /\ stage[a] # "exchanging" => mine[a] = <<>> /\ answered[a] = <<>>
        /\ stage[a] # "storing" => rounds[a] = <<>>

\* Every variable has its type, and nobody keeps answers in hand.
KeyboardTypeOK == KeyboardTypes /\ EmptyHands

KeyboardInit ==
    /\ openRounds = [h \in Hosts |-> NoRound]
    /\ answers = [h \in Hosts |-> <<>>]
    /\ stage = [a \in Attempts |-> "idle"]
    /\ route \in [Attempts -> Chains]
    /\ at = [a \in Attempts |-> 1]
    /\ mine = [a \in Attempts |-> <<>>]
    /\ answered = [a \in Attempts |-> <<>>]
    /\ asked = [a \in Attempts |-> 0]
    /\ rounds = [a \in Attempts |-> <<>>]
    /\ logins = [a \in Attempts |-> 0]
    /\ typed = 0

Enter(a, state) == stage' = [stage EXCEPT ![a] = state]

\* The attempt moves on along its chain, or to state when this was the last hop.
NextHop(a, more, state) ==
    IF at[a] < Len(route[a])
    THEN at' = [at EXCEPT ![a] = @ + 1] /\ Enter(a, more)
    ELSE at' = [at EXCEPT ![a] = 1] /\ Enter(a, state)

\* authenticate returns: its local answers are dropped.
DropAnswers(a) ==
    /\ mine' = [mine EXCEPT ![a] = <<>>]
    /\ answered' = [answered EXCEPT ![a] = <<>>]

-----------------------------------------------------------------------------
(* The connection attempt.                                                  *)

StartLogin(a) ==
    /\ stage[a] = "idle"
    /\ logins[a] < MaxLogins
    /\ logins' = [logins EXCEPT ![a] = @ + 1]
    /\ at' = [at EXCEPT ![a] = 1]
    /\ Enter(a, "dialing")
    /\ UNCHANGED <<stores, route, hands, typed>>

\* connect_forwarding_to returns an error.
Fails(a, from) ==
    /\ stage[a] \in from
    /\ at' = [at EXCEPT ![a] = 1]
    /\ Enter(a, "failed")
    /\ UNCHANGED <<stores, route, hands, logins, typed>>

\* Timeout, refused connection or host key.
DialFails(a) == Fails(a, {"dialing"})

\* The transport is up; then the primary method is the key, the password or,
\* for a profile with neither, the agent.
Dialled(a) ==
    /\ stage[a] = "dialing"
    /\ Enter(a, "primary")
    /\ UNCHANGED <<stores, route, at, hands, logins, typed>>

\* load_private_key: missing, encrypted, or the wrong passphrase.
KeyUnreadable(a) == Fails(a, {"primary"})

\* connect_agent, and the keys it holds, tried one after the other.
AskAgent(a) ==
    /\ stage[a] = "primary"
    /\ Enter(a, "agent")
    /\ UNCHANGED <<stores, route, at, hands, logins, typed>>

\* The server does not answer in time, or the connection breaks; an agent's
\* failure is no such error.
PrimaryFails(a) == Fails(a, {"primary", "agent"})

\* The key, the password or one of the agent's keys is enough:
\* keyboard-interactive is never entered, and nothing is taken.
PrimaryAccepted(a) ==
    /\ stage[a] \in {"primary", "agent"}
    /\ NextHop(a, "dialing", "idle")
    /\ UNCHANGED <<stores, route, hands, logins, typed>>

\* The primary method is refused, or there is no agent or no key in it:
\* authenticate begins with take_answers, which drops the pending round ...
TakePending(a) ==
    /\ stage[a] \in {"primary", "agent"}
    /\ openRounds' = [openRounds EXCEPT ![HostAt(a)] = NoRound]
    /\ Enter(a, "taking")
    /\ UNCHANGED <<answers, route, at, hands, logins, typed>>

\* Mutant: the answers are read and left where they are.
TakeAnswers_Copy(a) ==
    /\ stage[a] = "taking"
    /\ mine' = [mine EXCEPT ![a] = answers[HostAt(a)]]
    /\ Enter(a, "exchanging")
    /\ UNCHANGED <<stores, route, at, answered, asked, rounds,
                   logins, typed>>

\* ... and then takes the answers.
TakeAnswers(a) ==
    /\ stage[a] = "taking"
    /\ mine' = [mine EXCEPT ![a] = answers[HostAt(a)]]
    /\ answers' = [answers EXCEPT ![HostAt(a)] = <<>>]
    /\ Enter(a, "exchanging")
    /\ UNCHANGED <<openRounds, route, at, answered, asked, rounds,
                   logins, typed>>

\* A round of prompts, and an answer left to send.
Reply(a) ==
    /\ stage[a] = "exchanging"
    /\ mine[a] # <<>>
    /\ answered' = [answered EXCEPT ![a] = Append(@, Head(mine[a]))]
    /\ mine' = [mine EXCEPT ![a] = Tail(@)]
    /\ UNCHANGED <<stores, place, asked, rounds, logins, typed>>

\* A round of prompts, and none: the round is recorded and the connect fails
\* with KeyboardInteractiveRequired.
AskUser(a) ==
    /\ stage[a] = "exchanging"
    /\ mine[a] = <<>>
    /\ openRounds' = [openRounds EXCEPT ![HostAt(a)] = [open |-> TRUE, answered |-> answered[a]]]
    /\ DropAnswers(a)
    /\ at' = [at EXCEPT ![a] = 1]
    /\ Enter(a, "failed")
    /\ UNCHANGED <<answers, route, asked, rounds, logins, typed>>

\* The server is satisfied, with or without the answers not sent yet.
Success(a) ==
    /\ stage[a] = "exchanging"
    /\ DropAnswers(a)
    /\ NextHop(a, "dialing", "idle")
    /\ UNCHANGED <<stores, route, asked, rounds, logins, typed>>

\* Mutant: the answers are kept in hand for another try.
Failure_KeepsAnswers(a) ==
    /\ stage[a] = "exchanging"
    /\ at' = [at EXCEPT ![a] = 1]
    /\ Enter(a, "failed")
    /\ UNCHANGED <<stores, route, hands, logins, typed>>

\* The server refuses, or does not answer within the step timeout.
Failure(a) ==
    /\ stage[a] = "exchanging"
    /\ DropAnswers(a)
    /\ at' = [at EXCEPT ![a] = 1]
    /\ Enter(a, "failed")
    /\ UNCHANGED <<stores, route, asked, rounds, logins, typed>>

-----------------------------------------------------------------------------
(* The dialog of the failed attempt, resolveAuthPrompts.                    *)

\* One pending_prompts call per hop, until one has a pending round.
PromptsFound(a) ==
    /\ stage[a] = "failed"
    /\ openRounds[HostAt(a)].open
    /\ asked' = [asked EXCEPT ![a] = Len(openRounds[HostAt(a)].answered) + 1]
    /\ Enter(a, "asking")
    /\ UNCHANGED <<stores, route, at, mine, answered, rounds,
                   logins, typed>>

PromptsMissing(a) ==
    /\ stage[a] = "failed"
    /\ ~openRounds[HostAt(a)].open
    /\ NextHop(a, "failed", "idle")
    /\ UNCHANGED <<stores, route, hands, logins, typed>>

Cancel(a) ==
    /\ stage[a] = "asking"
    /\ Enter(a, "idle")
    /\ UNCHANGED <<stores, route, at, hands, logins, typed>>

\* The answers to the rounds before the pending one, none if it has gone.
EarlierRounds(h) == openRounds[h].answered

\* Mutant: the new round goes in front of the earlier ones.
AnswerPending_Front(a) ==
    /\ stage[a] = "asking"
    /\ typed < MaxTyped
    /\ typed' = typed + 1
    /\ rounds' = [rounds EXCEPT ![a] =
                    <<[n |-> typed + 1, host |-> HostAt(a), round |-> asked[a]]>>
                    \o EarlierRounds(HostAt(a))]
    /\ openRounds' = [openRounds EXCEPT ![HostAt(a)] = NoRound]
    /\ Enter(a, "storing")
    /\ UNCHANGED <<answers, route, at, mine, answered, asked, logins>>

\* The user answers: answer_pending removes the pending round, whichever it is
\* by now, and appends the answer ...
AnswerPending(a) ==
    /\ stage[a] = "asking"
    /\ typed < MaxTyped
    /\ typed' = typed + 1
    /\ rounds' = [rounds EXCEPT ![a] =
                    Append(EarlierRounds(HostAt(a)),
                           [n |-> typed + 1, host |-> HostAt(a), round |-> asked[a]])]
    /\ openRounds' = [openRounds EXCEPT ![HostAt(a)] = NoRound]
    /\ Enter(a, "storing")
    /\ UNCHANGED <<answers, route, at, mine, answered, asked, logins>>

\* Mutant: the answer is stored for the profile's own host, not for the hop.
StoreAnswers_Target(a) ==
    /\ stage[a] = "storing"
    /\ answers' = [answers EXCEPT ![Target(a)] = rounds[a]]
    /\ rounds' = [rounds EXCEPT ![a] = <<>>]
    /\ Enter(a, "idle")
    /\ UNCHANGED <<openRounds, route, at, mine, answered, asked,
                   logins, typed>>

\* ... and stores the lot, over answers another dialog stored in between; the
\* tab connects again.
StoreAnswers(a) ==
    /\ stage[a] = "storing"
    /\ answers' = [answers EXCEPT ![HostAt(a)] = rounds[a]]
    /\ rounds' = [rounds EXCEPT ![a] = <<>>]
    /\ Enter(a, "idle")
    /\ UNCHANGED <<openRounds, route, at, mine, answered, asked,
                   logins, typed>>

-----------------------------------------------------------------------------
LoggingIn(a) ==
    \/ StartLogin(a) \/ DialFails(a) \/ Dialled(a) \/ KeyUnreadable(a) \/ AskAgent(a)
    \/ PrimaryFails(a) \/ PrimaryAccepted(a) \/ TakePending(a)
    \/ TakeAnswers(a) \/ Reply(a) \/ AskUser(a) \/ Success(a) \/ Failure(a)

Answering(a) ==
    \/ PromptsFound(a) \/ PromptsMissing(a) \/ Cancel(a) \/ AnswerPending(a)
    \/ StoreAnswers(a)

KeyboardNext == \E a \in Attempts : LoggingIn(a) \/ Answering(a)

KeyboardSpec == KeyboardInit /\ [][KeyboardNext]_keyboardVars

-----------------------------------------------------------------------------
(* Properties.                                                              *)

\* Every place an answer can be: the two maps and the attempts' hands.
Places == ({"pending", "answers"} \X Hosts) \cup ({"login", "storing"} \X Attempts)

Held(p) ==
    CASE p[1] = "pending" -> EarlierRounds(p[2])
      [] p[1] = "answers" -> answers[p[2]]
      [] p[1] = "login"   -> answered[p[2]] \o mine[p[2]]
      [] p[1] = "storing" -> rounds[p[2]]

\* What the user typed is in one place at a time: two logins of the same host that
\* run at the same time never have the same one-time code to send, and none has
\* one that a dialog is still storing (take_answers removes, answer_pending moves).
\* A code can be sent again by a later login: a login that meets one more round
\* puts what it has sent back into PENDING, to be replayed.
AnswersInOnePlace ==
    \A p, q \in Places : p # q => Range(Held(p)) \cap Range(Held(q)) = {}

\* Wherever they are, answers are replayed in the order they were typed, though
\* the round can be dropped and another recorded while a dialog is open.
ReplayedInOrder ==
    \A p \in Places : \A i, j \in DOMAIN Held(p) :
        i < j => Held(p)[i].n < Held(p)[j].n

\* An answer never reaches a host other than the one that asked, jump hosts
\* included (resolveAuthPrompts answers for the hop, not for the profile).
AnswersStayWithHost ==
    /\ \A h \in Hosts : \A x \in Range(EarlierRounds(h)) \cup Range(answers[h]) :
         x.host = h
    /\ \A a \in Attempts : stage[a] = "exchanging" =>
         \A x \in Range(mine[a]) \cup Range(answered[a]) : x.host = HostAt(a)
=============================================================================
