---------------------- MODULE KeyboardInteractive_proofs ----------------------
(***************************************************************************)
(* Proofs about KeyboardInteractive, for every set of attempts, hosts and  *)
(* chains, any number of connects and any number of answered rounds.       *)
(***************************************************************************)
EXTENDS KeyboardInteractive, SequenceTheorems, TLAPS

\* A dialog that is open shows a round.
AskedRound == \A a \in Attempts : stage[a] = "asking" => asked[a] # 0

TypeInv == KeyboardTypes /\ AskedRound

\* The hop of an attempt is a host.
LEMMA HopIsHost ==
    ASSUME KeyboardTypes, NEW a \in Attempts
    PROVE  /\ HostAt(a) \in Hosts
           /\ Len(route[a]) \in Nat /\ at[a] \in Nat
           /\ 1 <= at[a] /\ at[a] <= Len(route[a])
  <1>1. route[a] \in Seq(Hosts)
    BY ChainsAssumption DEF KeyboardTypes
  <1>2. Len(route[a]) \in Nat /\ DOMAIN route[a] = 1 .. Len(route[a])
    BY <1>1
  <1>3. at[a] \in Nat /\ 1 <= at[a] /\ at[a] <= Len(route[a])
    BY <1>2 DEF KeyboardTypes
  <1> QED
    BY <1>1, <1>2, <1>3 DEF HostAt

\* What moving along the chain does to the attempt and leaves of the others.
LEMMA NextHopType ==
    ASSUME KeyboardTypes, NEW a \in Attempts, NEW more \in Stages, NEW state \in Stages,
           NextHop(a, more, state), route' = route
    PROVE  /\ stage' \in [Attempts -> Stages]
           /\ at' \in [Attempts -> Nat \ {0}]
           /\ \A b \in Attempts : at'[b] <= Len(route'[b])
           /\ \A b \in Attempts : b # a => stage'[b] = stage[b] /\ at'[b] = at[b]
           /\ stage'[a] \in {more, state}
  <1>1. /\ Len(route[a]) \in Nat /\ at[a] \in Nat
        /\ 1 <= at[a] /\ at[a] <= Len(route[a])
    BY HopIsHost
  <1>2. /\ stage \in [Attempts -> Stages] /\ at \in [Attempts -> Nat \ {0}]
        /\ \A b \in Attempts : at[b] <= Len(route[b])
    BY DEF KeyboardTypes
  <1>3. PICK h \in Nat \ {0} : h <= Len(route[a]) /\ at' = [at EXCEPT ![a] = h]
    BY <1>1 DEF NextHop
  <1>4. PICK st \in {more, state} : stage' = [stage EXCEPT ![a] = st]
    BY DEF NextHop, Enter
  <1>5. stage' \in [Attempts -> Stages] /\ stage'[a] \in {more, state}
    BY <1>2, <1>4
  <1>6. at' \in [Attempts -> Nat \ {0}] /\ at'[a] = h
    BY <1>2, <1>3
  <1>7. \A b \in Attempts : b # a => stage'[b] = stage[b] /\ at'[b] = at[b]
    BY <1>2, <1>3, <1>4
  <1> QED
    BY <1>2, <1>3, <1>5, <1>6, <1>7

\* The attempt starts over at the first hop.
LEMMA FirstHopType ==
    ASSUME KeyboardTypes, NEW a \in Attempts, at' = [at EXCEPT ![a] = 1], route' = route
    PROVE  /\ at' \in [Attempts -> Nat \ {0}]
           /\ \A b \in Attempts : at'[b] <= Len(route'[b])
  <1>1. /\ Len(route[a]) \in Nat /\ at[a] \in Nat
        /\ 1 <= at[a] /\ at[a] <= Len(route[a])
    BY HopIsHost
  <1> QED
    BY <1>1 DEF KeyboardTypes

-----------------------------------------------------------------------------
\* The types of the variables are preserved by every step.
LEMMA TypeStep == TypeInv /\ [KeyboardNext]_keyboardVars => TypeInv'
  <1> SUFFICES ASSUME TypeInv, [KeyboardNext]_keyboardVars
               PROVE  TypeInv'
    OBVIOUS
  <1>0. KeyboardTypes /\ <<>> \in Seq(Answer)
    BY DEF TypeInv
  <1> USE DEF TypeInv, KeyboardTypes, AskedRound, Enter, stores, place, hands
  <1>1. ASSUME NEW a \in Attempts, StartLogin(a) PROVE TypeInv'
    <2>1. /\ at' \in [Attempts -> Nat \ {0}]
          /\ \A b \in Attempts : at'[b] <= Len(route'[b])
      BY <1>0, <1>1, FirstHopType DEF StartLogin
    <2>2. logins' \in [Attempts -> Nat]
      BY <1>1 DEF StartLogin
    <2> QED
      BY <1>1, <2>1, <2>2 DEF StartLogin, Stages
  <1>2. ASSUME NEW a \in Attempts, NEW from, Fails(a, from) PROVE TypeInv'
    <2>1. /\ at' \in [Attempts -> Nat \ {0}]
          /\ \A b \in Attempts : at'[b] <= Len(route'[b])
      BY <1>0, <1>2, FirstHopType DEF Fails
    <2> QED
      BY <1>2, <2>1 DEF Fails, Stages
  <1>3. ASSUME NEW a \in Attempts, Dialled(a) \/ AskAgent(a) PROVE TypeInv'
    BY <1>3 DEF Dialled, AskAgent, Stages
  <1>4. ASSUME NEW a \in Attempts, PrimaryAccepted(a) PROVE TypeInv'
    <2>1. /\ stage' \in [Attempts -> Stages]
          /\ at' \in [Attempts -> Nat \ {0}]
          /\ \A b \in Attempts : at'[b] <= Len(route'[b])
          /\ \A b \in Attempts : b # a => stage'[b] = stage[b] /\ at'[b] = at[b]
          /\ stage'[a] \in {"dialing", "idle"}
      BY <1>0, <1>4, NextHopType DEF PrimaryAccepted, Stages
    <2> QED
      BY <1>4, <2>1 DEF PrimaryAccepted
  <1>5. ASSUME NEW a \in Attempts, TakePending(a) PROVE TypeInv'
    <2>1. NoRound \in Round
      BY DEF NoRound, Round
    <2> QED
      BY <1>5, <2>1 DEF TakePending, Stages
  <1>6. ASSUME NEW a \in Attempts, TakeAnswers(a) PROVE TypeInv'
    <2>1. HostAt(a) \in Hosts
      BY <1>0, HopIsHost
    <2> QED
      BY <1>6, <2>1 DEF TakeAnswers, Stages
  <1>7. ASSUME NEW a \in Attempts, Reply(a) PROVE TypeInv'
    <2>1. /\ Append(answered[a], Head(mine[a])) \in Seq(Answer)
          /\ Tail(mine[a]) \in Seq(Answer)
      BY <1>7 DEF Reply
    <2> QED
      BY <1>7, <2>1 DEF Reply
  <1>8. ASSUME NEW a \in Attempts, AskUser(a) PROVE TypeInv'
    <2>1. /\ at' \in [Attempts -> Nat \ {0}]
          /\ \A b \in Attempts : at'[b] <= Len(route'[b])
      BY <1>0, <1>8, FirstHopType DEF AskUser
    <2>2. [open |-> TRUE, answered |-> answered[a]] \in Round
      BY DEF Round
    <2> QED
      BY <1>8, <2>1, <2>2 DEF AskUser, DropAnswers, Stages
  <1>9. ASSUME NEW a \in Attempts, Success(a) PROVE TypeInv'
    <2>1. /\ stage' \in [Attempts -> Stages]
          /\ at' \in [Attempts -> Nat \ {0}]
          /\ \A b \in Attempts : at'[b] <= Len(route'[b])
          /\ \A b \in Attempts : b # a => stage'[b] = stage[b] /\ at'[b] = at[b]
          /\ stage'[a] \in {"dialing", "idle"}
      BY <1>0, <1>9, NextHopType DEF Success, Stages
    <2>2. mine' \in [Attempts -> Seq(Answer)] /\ answered' \in [Attempts -> Seq(Answer)]
      BY <1>9 DEF Success, DropAnswers
    <2> QED
      BY <1>9, <2>1, <2>2 DEF Success
  <1>10. ASSUME NEW a \in Attempts, Failure(a) PROVE TypeInv'
    <2>1. /\ at' \in [Attempts -> Nat \ {0}]
          /\ \A b \in Attempts : at'[b] <= Len(route'[b])
      BY <1>0, <1>10, FirstHopType DEF Failure
    <2> QED
      BY <1>10, <2>1 DEF Failure, DropAnswers, Stages
  <1>11. ASSUME NEW a \in Attempts, PromptsFound(a) PROVE TypeInv'
    <2>1. Len(openRounds[HostAt(a)].answered) \in Nat
      BY <1>0, HopIsHost DEF Round
    <2>2. asked' \in [Attempts -> Nat] /\ asked'[a] # 0
          /\ \A b \in Attempts : b # a => asked'[b] = asked[b]
      BY <1>11, <2>1 DEF PromptsFound
    <2>3. stage' \in [Attempts -> Stages] /\ \A b \in Attempts : b # a => stage'[b] = stage[b]
      BY <1>11 DEF PromptsFound, Stages
    <2> QED
      BY <1>11, <2>2, <2>3 DEF PromptsFound
  <1>12. ASSUME NEW a \in Attempts, PromptsMissing(a) PROVE TypeInv'
    <2>1. /\ stage' \in [Attempts -> Stages]
          /\ at' \in [Attempts -> Nat \ {0}]
          /\ \A b \in Attempts : at'[b] <= Len(route'[b])
          /\ \A b \in Attempts : b # a => stage'[b] = stage[b] /\ at'[b] = at[b]
          /\ stage'[a] \in {"failed", "idle"}
      BY <1>0, <1>12, NextHopType DEF PromptsMissing, Stages
    <2> QED
      BY <1>12, <2>1 DEF PromptsMissing
  <1>13. ASSUME NEW a \in Attempts, Cancel(a) PROVE TypeInv'
    BY <1>13 DEF Cancel, Stages
  <1>14. ASSUME NEW a \in Attempts, AnswerPending(a) PROVE TypeInv'
    <2>1. HostAt(a) \in Hosts
      BY <1>0, HopIsHost
    <2>2. typed' \in Nat /\ typed + 1 \in Nat \ {0}
      BY <1>14 DEF AnswerPending
    <2>3. [n |-> typed + 1, host |-> HostAt(a), round |-> asked[a]] \in Answer
      BY <1>14, <2>1, <2>2 DEF AnswerPending, Answer
    <2>4. EarlierRounds(HostAt(a)) \in Seq(Answer)
      BY <2>1 DEF EarlierRounds, Round
    <2>5. Append(EarlierRounds(HostAt(a)), [n |-> typed + 1, host |-> HostAt(a), round |-> asked[a]])
            \in Seq(Answer)
      BY <2>3, <2>4
    <2>6. NoRound \in Round
      BY DEF NoRound, Round
    <2> QED
      BY <1>14, <2>2, <2>5, <2>6 DEF AnswerPending, Stages
  <1>15. ASSUME NEW a \in Attempts, StoreAnswers(a) PROVE TypeInv'
    <2>1. rounds[a] \in Seq(Answer)
      OBVIOUS
    <2>2. answers' \in [Hosts -> Seq(Answer)]
      BY <1>15, <2>1 DEF StoreAnswers
    <2>3. rounds' \in [Attempts -> Seq(Answer)]
      BY <1>15 DEF StoreAnswers
    <2> QED
      BY <1>15, <2>2, <2>3 DEF StoreAnswers, Stages
  <1>16. CASE UNCHANGED keyboardVars
    BY <1>16 DEF keyboardVars
  <1> QED
    BY <1>1, <1>2, <1>3, <1>4, <1>5, <1>6, <1>7, <1>8, <1>9, <1>10, <1>11, <1>12, <1>13,
       <1>14, <1>15, <1>16
       DEF KeyboardNext, LoggingIn, Answering, DialFails, KeyUnreadable, PrimaryFails

\* KeyboardInit establishes the types.
LEMMA TypeInit == KeyboardInit => TypeInv
  <1> SUFFICES ASSUME KeyboardInit PROVE TypeInv
    OBVIOUS
  <1>1. ASSUME NEW a \in Attempts PROVE Len(route[a]) \in Nat /\ 1 <= Len(route[a])
    <2>1. route[a] \in Seq(Hosts) /\ route[a] # <<>>
      BY ChainsAssumption DEF KeyboardInit
    <2> QED
      BY <2>1
  <1>2. NoRound \in Round /\ <<>> \in Seq(Answer)
    BY DEF NoRound, Round
  <1> QED
    BY <1>1, <1>2, ChainsAssumption DEF KeyboardInit, TypeInv, KeyboardTypes, AskedRound, Stages

-----------------------------------------------------------------------------
(* The answers.  An answer is in one place; it is older than the user's     *)
(* next one, which is why a new one is nowhere yet; it belongs to the host  *)
(* of its place; and an attempt has answers in hand only in the login that  *)
(* took them and in the dialog that is storing them, so that nothing in     *)
(* hand is left over when the attempt moves to another host.                *)

\* The host a place stands for.
HostOf(p) == IF p[1] \in {"pending", "answers"} THEN p[2] ELSE HostAt(p[2])

InOrder(q) == \A i, j \in DOMAIN q : i < j => q[i].n < q[j].n

\* What is true of the answers in each place.
GoodPlace(p) ==
    /\ Held(p) \in Seq(Answer)
    /\ InOrder(Held(p))
    /\ \A x \in Range(Held(p)) : x.n <= typed /\ x.host = HostOf(p)

PlaceInv ==
    /\ TypeInv
    /\ EmptyHands
    /\ AnswersInOnePlace
    /\ \A p \in Places : GoodPlace(p)
\* The four kinds of places, and what is in each, before and after a step.
LEMMA PlaceKinds ==
    /\ \A p \in Places : \/ \E h \in Hosts : p \in {<<"pending", h>>, <<"answers", h>>}
                         \/ \E a \in Attempts : p \in {<<"login", a>>, <<"storing", a>>}
    /\ \A h \in Hosts : <<"pending", h>> \in Places /\ <<"answers", h>> \in Places
    /\ \A a \in Attempts : <<"login", a>> \in Places /\ <<"storing", a>> \in Places
  BY DEF Places

\* The answers of a login, sent or not.
InLogin(a) == answered[a] \o mine[a]

\* What each place holds, now and after a step.
LEMMA HeldAt ==
    /\ \A h : /\ Held(<<"pending", h>>) = openRounds[h].answered
              /\ Held(<<"answers", h>>) = answers[h]
              /\ HostOf(<<"pending", h>>) = h /\ HostOf(<<"answers", h>>) = h
              /\ Held(<<"pending", h>>)' = openRounds'[h].answered
              /\ Held(<<"answers", h>>)' = answers'[h]
              /\ HostOf(<<"pending", h>>)' = h /\ HostOf(<<"answers", h>>)' = h
    /\ \A a : /\ Held(<<"login", a>>) = InLogin(a)
              /\ Held(<<"storing", a>>) = rounds[a]
              /\ HostOf(<<"login", a>>) = HostAt(a) /\ HostOf(<<"storing", a>>) = HostAt(a)
              /\ Held(<<"login", a>>)' = InLogin(a)'
              /\ Held(<<"storing", a>>)' = rounds'[a]
              /\ HostOf(<<"login", a>>)' = HostAt(a)' /\ HostOf(<<"storing", a>>)' = HostAt(a)'
  BY DEF Held, HostOf, EarlierRounds, InLogin

\* An attempt that is not touched holds the same answers at the same hop.
LEMMA Untouched ==
    ASSUME NEW a, route'[a] = route[a], at'[a] = at[a]
    PROVE  /\ HostAt(a)' = HostAt(a)
           /\ mine'[a] = mine[a] /\ answered'[a] = answered[a] => InLogin(a)' = InLogin(a)
  BY DEF HostAt, InLogin

\* A step that empties places, and carries what was in one of them to another,
\* perhaps with an answer just typed, keeps what is true of the answers.
LEMMA Carried ==
    ASSUME PlaceInv, NEW from \in Places, NEW to \in Places, NEW fresh,
           typed' \in Nat, typed <= typed',
           \A p \in Places : p # to =>
               \/ Held(p)' = <<>>
               \/ p # from /\ Held(p)' = Held(p) /\ HostOf(p)' = HostOf(p),
           Held(to)' \in Seq(Answer),
           InOrder(Held(to)'),
           Range(Held(to)') \subseteq Range(Held(from)) \cup fresh,
           \A x \in Range(Held(to)') : x.n <= typed' /\ x.host = HostOf(to)',
           \A x \in fresh : x.n > typed
    PROVE  AnswersInOnePlace' /\ \A p \in Places : GoodPlace(p)'
  <1>1. ASSUME NEW p \in Places
        PROVE  Held(p) \in Seq(Answer) /\ \A x \in Range(Held(p)) : x.n \in Nat
    <2>1. Held(p) \in Seq(Answer)
      BY DEF PlaceInv, GoodPlace
    <2>2. Range(Held(p)) \subseteq Answer
      BY <2>1 DEF Range
    <2> QED
      BY <2>1, <2>2 DEF Answer
  <1>2. typed \in Nat
    BY DEF PlaceInv, TypeInv, KeyboardTypes
  <1>3. Range(<<>>) = {} /\ <<>> \in Seq(Answer) /\ InOrder(<<>>)
    BY DEF Range, InOrder
  <1>4. ASSUME NEW p \in Places PROVE GoodPlace(p)'
    <2>1. CASE p = to
      BY <2>1 DEF GoodPlace, InOrder, Range
    <2>2. CASE p # to /\ Held(p)' = <<>>
      BY <1>3, <2>2 DEF GoodPlace, InOrder, Range
    <2>3. CASE p # to /\ Held(p)' = Held(p) /\ HostOf(p)' = HostOf(p)
      <3>1. GoodPlace(p)
        BY DEF PlaceInv
      <3> QED
        BY <1>1, <1>2, <2>3, <3>1 DEF GoodPlace, InOrder, Range
    <2> QED
      BY <2>1, <2>2, <2>3
  <1>5. ASSUME NEW p \in Places, NEW q \in Places, p # q
        PROVE  Range(Held(p)') \cap Range(Held(q)') = {}
    <2>1. \A r \in Places : r # from => Range(Held(r)) \cap Range(Held(from)) = {}
      BY DEF PlaceInv, AnswersInOnePlace
    <2>2. \A r \in Places : Range(Held(r)) \cap fresh = {}
      BY <1>1, <1>2 DEF PlaceInv, GoodPlace
    <2>3. \A r \in Places : r # to => Range(Held(r)') \cap Range(Held(to)') = {}
      BY <1>3, <2>1, <2>2
    <2>4. \A r \in Places : r # to => Range(Held(r)') \subseteq Range(Held(r))
      BY <1>3
    <2>5. Range(Held(p)) \cap Range(Held(q)) = {}
      BY <1>5 DEF PlaceInv, AnswersInOnePlace
    <2> QED
      BY <1>5, <2>3, <2>4, <2>5
  <1>6. AnswersInOnePlace'
    BY <1>5 DEF AnswersInOnePlace, Range
  <1> QED
    BY <1>4, <1>6

\* Nothing is carried anywhere.
LEMMA Kept ==
    ASSUME PlaceInv, NEW a \in Attempts, typed' = typed,
           \A p \in Places :
               Held(p)' = <<>> \/ (Held(p)' = Held(p) /\ HostOf(p)' = HostOf(p))
    PROVE  AnswersInOnePlace' /\ \A p \in Places : GoodPlace(p)'
  <1> DEFINE to == <<"login", a>>
  <1>1. to \in Places
    BY PlaceKinds
  <1>2. typed \in Nat
    BY DEF PlaceInv, TypeInv, KeyboardTypes
  <1>3. GoodPlace(to)
    BY <1>1 DEF PlaceInv
  <1>4. Range(<<>>) = {} /\ <<>> \in Seq(Answer) /\ InOrder(<<>>)
    BY DEF Range, InOrder
  <1> HIDE DEF to
  <1>5. /\ Held(to)' \in Seq(Answer)
        /\ InOrder(Held(to)')
        /\ Range(Held(to)') \subseteq Range(Held(to))
        /\ \A x \in Range(Held(to)') : x.n <= typed' /\ x.host = HostOf(to)'
    BY <1>1, <1>3, <1>4 DEF GoodPlace
  <1> DEFINE none == {}
  <1>6. /\ typed' \in Nat /\ typed <= typed'
        /\ Range(Held(to)') \subseteq Range(Held(to)) \cup none
        /\ \A x \in none : x.n > typed
        /\ \A p \in Places : p # to =>
              \/ Held(p)' = <<>>
              \/ p # to /\ Held(p)' = Held(p) /\ HostOf(p)' = HostOf(p)
    BY <1>2, <1>5
  <1> HIDE DEF none
  <1> QED
    BY <1>1, <1>5, <1>6, Carried, SMTT(60)
\* The elements of two sequences are among those of their concatenation.
LEMMA ConcatElements ==
    ASSUME NEW S, NEW q \in Seq(S), NEW m \in Seq(S), NEW x \in Range(m) \cup Range(q)
    PROVE  x \in Range(q \o m)
  <1>1. /\ Len(q) \in Nat /\ Len(m) \in Nat
        /\ DOMAIN q = 1 .. Len(q) /\ DOMAIN m = 1 .. Len(m)
        /\ DOMAIN (q \o m) = 1 .. Len(q) + Len(m)
        /\ \A i \in 1 .. Len(q) : (q \o m)[i] = q[i]
        /\ \A i \in 1 .. Len(m) : (q \o m)[Len(q) + i] = m[i]
    OBVIOUS
  <1>2. CASE x \in Range(q)
    BY <1>1, <1>2 DEF Range
  <1>3. CASE x \in Range(m)
    <2>1. PICK i \in 1 .. Len(m) : m[i] = x
      BY <1>1, <1>3 DEF Range
    <2>2. Len(q) + i \in 1 .. Len(q) + Len(m)
      BY <1>1
    <2> QED
      BY <1>1, <2>1, <2>2 DEF Range
  <1> QED
    BY <1>2, <1>3

\* Appending a newer answer for the same host keeps order, age and host.
LEMMA AppendNewer ==
    ASSUME NEW q \in Seq(Answer), NEW x, NEW k \in Nat,
           x.n = k + 1, InOrder(q),
           \A y \in Range(q) : y.n <= k /\ y.host = x.host
    PROVE  /\ InOrder(Append(q, x))
           /\ Range(Append(q, x)) \subseteq Range(q) \cup {x}
           /\ \A y \in Range(Append(q, x)) : y.n <= k + 1 /\ y.host = x.host
  <1> DEFINE t == Append(q, x)
  <1>1. /\ Len(q) \in Nat
        /\ DOMAIN q = 1 .. Len(q) /\ DOMAIN t = 1 .. Len(q) + 1
        /\ \A i \in 1 .. Len(q) : t[i] = q[i]
        /\ t[Len(q) + 1] = x
    OBVIOUS
  <1> HIDE DEF t
  <1>2. ASSUME NEW i \in 1 .. Len(q) PROVE q[i] \in Range(q) /\ q[i].n \in Nat
    <2>1. q[i] \in Answer
      BY <1>1
    <2>2. q[i].n \in Nat
      BY <2>1 DEF Answer
    <2> QED
      BY <1>1, <2>2 DEF Range
  <1>3. Range(t) \subseteq Range(q) \cup {x}
    BY <1>1 DEF Range
  <1>4. \A y \in Range(q) : y.n \in Nat
    BY <1>1, <1>2 DEF Range
  <1>5. \A y \in Range(t) : y.n <= k + 1 /\ y.host = x.host
    BY <1>3, <1>4
  <1>6. ASSUME NEW i \in DOMAIN t, NEW j \in DOMAIN t, i < j PROVE t[i].n < t[j].n
    <2>1. i \in 1 .. Len(q) /\ t[i] = q[i]
      BY <1>1, <1>6
    <2>2. CASE j = Len(q) + 1
      BY <1>1, <1>2, <2>1, <2>2
    <2>3. CASE j # Len(q) + 1
      <3>1. j \in 1 .. Len(q) /\ t[j] = q[j]
        BY <1>1, <2>3
      <3> QED
        BY <1>1, <1>6, <2>1, <3>1 DEF InOrder
    <2> QED
      BY <2>2, <2>3
  <1> QED
    BY <1>3, <1>5, <1>6 DEF InOrder, t

\* What was in one place is in another, unchanged.
LEMMA CarriedWhole ==
    ASSUME PlaceInv, NEW from \in Places, NEW to \in Places,
           typed' = typed,
           \A p \in Places : p # to =>
               \/ Held(p)' = <<>>
               \/ p # from /\ Held(p)' = Held(p) /\ HostOf(p)' = HostOf(p),
           Held(to)' = Held(from), HostOf(to)' = HostOf(from)
    PROVE  AnswersInOnePlace' /\ \A p \in Places : GoodPlace(p)'
  <1>1. typed \in Nat
    BY DEF PlaceInv, TypeInv, KeyboardTypes
  <1>2. GoodPlace(from)
    BY DEF PlaceInv
  <1>3. /\ Held(to)' \in Seq(Answer)
        /\ InOrder(Held(to)')
        /\ \A x \in Range(Held(to)') : x.n <= typed' /\ x.host = HostOf(to)'
    BY <1>2 DEF GoodPlace
  <1> DEFINE none == {}
  <1>4. /\ typed' \in Nat /\ typed <= typed'
        /\ Range(Held(to)') \subseteq Range(Held(from)) \cup none
        /\ \A x \in none : x.n > typed
    BY <1>1, <1>3
  <1> HIDE DEF none
  <1> QED
    BY <1>3, <1>4, Carried, SMTT(60)

\* Sending the next answer moves it from one half of the login's answers to the
\* other.
LEMMA ReplyKeeps ==
    ASSUME NEW S, NEW q \in Seq(S), NEW m \in Seq(S), m # <<>>
    PROVE  Append(q, Head(m)) \o Tail(m) = q \o m
  <1> DEFINE l == Append(q, Head(m)) \o Tail(m)
             r == q \o m
  <1>1. /\ Len(q) \in Nat /\ Len(m) \in Nat /\ Len(m) > 0
        /\ Head(m) = m[1] /\ Head(m) \in S
        /\ Tail(m) \in Seq(S) /\ Len(Tail(m)) = Len(m) - 1
        /\ \A i \in 1 .. Len(m) - 1 : Tail(m)[i] = m[i + 1]
    OBVIOUS
  <1>2. /\ Append(q, Head(m)) \in Seq(S) /\ Len(Append(q, Head(m))) = Len(q) + 1
        /\ \A i \in 1 .. Len(q) : Append(q, Head(m))[i] = q[i]
        /\ Append(q, Head(m))[Len(q) + 1] = m[1]
    BY <1>1
  <1>3. /\ l \in Seq(S) /\ r \in Seq(S)
        /\ Len(l) = Len(q) + Len(m) /\ Len(r) = Len(q) + Len(m)
    BY <1>1, <1>2
  <1>4. ASSUME NEW i \in 1 .. Len(q) + Len(m) PROVE l[i] = r[i]
    <2>1. CASE i <= Len(q)
      BY <1>1, <1>2, <2>1
    <2>2. CASE i = Len(q) + 1
      <3>1. l[i] = m[1]
        BY <1>1, <1>2, <2>2
      <3>2. r[i] = m[1]
        BY <1>1, <2>2
      <3> QED
        BY <3>1, <3>2
    <2>3. CASE i > Len(q) + 1
      <3>1. l[i] = Tail(m)[i - (Len(q) + 1)]
        BY <1>1, <1>2, <2>3
      <3>2. i - (Len(q) + 1) \in 1 .. Len(m) - 1
        BY <1>1, <2>3
      <3>3. Tail(m)[i - (Len(q) + 1)] = m[i - Len(q)]
        BY <1>1, <3>2
      <3>4. r[i] = m[i - Len(q)]
        BY <1>1, <2>3
      <3> QED
        BY <3>1, <3>3, <3>4
    <2> QED
      BY <1>1, <2>1, <2>2, <2>3
  <1> HIDE DEF l, r
  <1>5. l = r
    BY <1>3, <1>4, SeqEqual
  <1> QED
    BY <1>5 DEF l, r

\* The answers in hand are those of a login or of a dialog.
LEMMA HandsStep == TypeInv /\ EmptyHands /\ [KeyboardNext]_keyboardVars => EmptyHands'
  <1> SUFFICES ASSUME TypeInv, EmptyHands, [KeyboardNext]_keyboardVars
               PROVE  EmptyHands'
    OBVIOUS
  <1>0. KeyboardTypes
    BY DEF TypeInv
  <1> USE DEF EmptyHands, Enter, stores, place, hands
  <1>1. ASSUME NEW a \in Attempts,
               \/ StartLogin(a) \/ Dialled(a) \/ AskAgent(a) \/ TakePending(a)
               \/ PromptsFound(a) \/ Cancel(a)
        PROVE  EmptyHands'
    BY <1>0, <1>1 DEF KeyboardTypes, StartLogin, Dialled, AskAgent, TakePending, PromptsFound, Cancel
  <1>2. ASSUME NEW a \in Attempts, NEW from \in SUBSET {"dialing", "primary", "agent"},
               Fails(a, from)
        PROVE  EmptyHands'
    BY <1>0, <1>2 DEF KeyboardTypes, Fails
  <1>3. ASSUME NEW a \in Attempts, NEW more \in {"dialing", "failed"}, NextHop(a, more, "idle"),
               route' = route
        PROVE  \A b \in Attempts : /\ b # a => stage'[b] = stage[b]
                                   /\ stage'[a] \notin {"exchanging", "storing"}
    BY <1>0, <1>3, NextHopType DEF Stages
  <1>4. ASSUME NEW a \in Attempts, PrimaryAccepted(a) \/ PromptsMissing(a) PROVE EmptyHands'
    BY <1>3, <1>4 DEF PrimaryAccepted, PromptsMissing
  <1>5. ASSUME NEW a \in Attempts, TakeAnswers(a) PROVE EmptyHands'
    BY <1>0, <1>5 DEF KeyboardTypes, TakeAnswers
  <1>6. ASSUME NEW a \in Attempts, Reply(a) PROVE EmptyHands'
    BY <1>0, <1>6 DEF KeyboardTypes, Reply
  <1>7. ASSUME NEW a \in Attempts, AskUser(a) \/ Failure(a) PROVE EmptyHands'
    BY <1>0, <1>7 DEF KeyboardTypes, AskUser, Failure, DropAnswers
  <1>8. ASSUME NEW a \in Attempts, Success(a) PROVE EmptyHands'
    <2>1. /\ mine' = [mine EXCEPT ![a] = <<>>] /\ answered' = [answered EXCEPT ![a] = <<>>]
          /\ rounds' = rounds /\ stage[a] = "exchanging"
      BY <1>8 DEF Success, DropAnswers
    <2>2. mine \in [Attempts -> Seq(Answer)] /\ answered \in [Attempts -> Seq(Answer)]
      BY <1>0 DEF KeyboardTypes
    <2>3. \A b \in Attempts : /\ b # a => stage'[b] = stage[b]
                              /\ stage'[a] \notin {"exchanging", "storing"}
      BY <1>3, <1>8 DEF Success
    <2> QED
      BY <2>1, <2>2, <2>3
  <1>9. ASSUME NEW a \in Attempts, AnswerPending(a) PROVE EmptyHands'
    BY <1>0, <1>9 DEF KeyboardTypes, AnswerPending
  <1>10. ASSUME NEW a \in Attempts, StoreAnswers(a) PROVE EmptyHands'
    BY <1>0, <1>10 DEF KeyboardTypes, StoreAnswers
  <1>11. CASE UNCHANGED keyboardVars
    BY <1>11 DEF keyboardVars
  <1> QED
    BY <1>1, <1>2, <1>4, <1>5, <1>6, <1>7, <1>8, <1>9, <1>10, <1>11
       DEF KeyboardNext, LoggingIn, Answering, DialFails, KeyUnreadable, PrimaryFails
\* A step of one attempt after which every place holds what it held or nothing.
KeptBy(a) ==
    /\ route' = route /\ typed' = typed
    /\ \A b \in Attempts \ {a} :
         /\ at'[b] = at[b] /\ rounds'[b] = rounds[b]
         /\ mine'[b] = mine[b] /\ answered'[b] = answered[b]
    /\ \A h \in Hosts :
         /\ openRounds'[h].answered = <<>> \/ openRounds'[h].answered = openRounds[h].answered
         /\ answers'[h] = answers[h]
    /\ \/ mine'[a] = <<>> /\ answered'[a] = <<>>
       \/ at'[a] = at[a] /\ answered'[a] \o mine'[a] = answered[a] \o mine[a]
    /\ \/ rounds'[a] = <<>>
       \/ at'[a] = at[a] /\ rounds'[a] = rounds[a]

\* Answers that stay or go, and do not move, stay good.
LEMMA KeptStep ==
    ASSUME PlaceInv, NEW a \in Attempts, KeptBy(a)
    PROVE  AnswersInOnePlace' /\ \A p \in Places : GoodPlace(p)'
  <1>1. ASSUME NEW p \in Places
        PROVE  Held(p)' = <<>> \/ (Held(p)' = Held(p) /\ HostOf(p)' = HostOf(p))
    <2>1. ASSUME NEW h \in Hosts, p \in {<<"pending", h>>, <<"answers", h>>}
          PROVE  Held(p)' = <<>> \/ (Held(p)' = Held(p) /\ HostOf(p)' = HostOf(p))
      BY <2>1, HeldAt DEF KeptBy
    <2>2. ASSUME NEW b \in Attempts, p \in {<<"login", b>>, <<"storing", b>>}
          PROVE  Held(p)' = <<>> \/ (Held(p)' = Held(p) /\ HostOf(p)' = HostOf(p))
      <3>1. <<>> \o <<>> = <<>>
        OBVIOUS
      <3>2. CASE p = <<"login", b>>
        <4>1. CASE b = a
          <5>1. mine'[a] = <<>> /\ answered'[a] = <<>> => InLogin(a)' = <<>>
            BY <3>1 DEF InLogin
          <5>2. answered'[a] \o mine'[a] = answered[a] \o mine[a] => InLogin(a)' = InLogin(a)
            BY DEF InLogin
          <5>3. at'[a] = at[a] => HostAt(a)' = HostAt(a)
            BY DEF HostAt, KeptBy
          <5>4. InLogin(a)' = <<>> \/ (InLogin(a)' = InLogin(a) /\ HostAt(a)' = HostAt(a))
            BY <5>1, <5>2, <5>3, Zenon DEF KeptBy
          <5> QED
            BY <3>2, <4>1, <5>4, HeldAt
        <4>2. CASE b # a
          <5>1. HostAt(b)' = HostAt(b) /\ InLogin(b)' = InLogin(b)
            BY <4>2, Untouched DEF KeptBy
          <5> QED
            BY <3>2, <5>1, HeldAt
        <4> QED
          BY <4>1, <4>2
      <3>3. CASE p = <<"storing", b>>
        BY <3>3, HeldAt DEF KeptBy, HostAt
      <3> QED
        BY <2>2, <3>2, <3>3
    <2> QED
      BY <2>1, <2>2, PlaceKinds
  <1>2. typed' = typed
    BY DEF KeptBy
  <1> QED
    BY <1>1, <1>2, Kept

\* PlaceInv is preserved by every step.
LEMMA PlaceStep == PlaceInv /\ [KeyboardNext]_keyboardVars => PlaceInv'
  <1> SUFFICES ASSUME PlaceInv, [KeyboardNext]_keyboardVars
               PROVE  AnswersInOnePlace' /\ \A p \in Places : GoodPlace(p)'
    BY TypeStep, HandsStep DEF PlaceInv
  <1> DEFINE Goal == AnswersInOnePlace' /\ \A p \in Places : GoodPlace(p)'
  <1>0. KeyboardTypes /\ EmptyHands /\ TypeInv'
    BY TypeStep DEF PlaceInv, TypeInv
  <1>a. ASSUME NEW a \in Attempts
        PROVE  /\ HostAt(a) \in Hosts
               /\ <<"pending", HostAt(a)>> \in Places /\ <<"answers", HostAt(a)>> \in Places
               /\ <<"login", a>> \in Places /\ <<"storing", a>> \in Places
    BY <1>0, HopIsHost, PlaceKinds
  <1>1. ASSUME NEW a \in Attempts,
               \/ StartLogin(a) \/ Dialled(a) \/ AskAgent(a) \/ PromptsFound(a) \/ Cancel(a)
        PROVE  Goal
    <2>1. KeptBy(a)
      BY <1>0, <1>1
         DEF KeyboardTypes, EmptyHands, KeptBy, StartLogin, Dialled, AskAgent, PromptsFound, Cancel,
             stores, hands
    <2> QED
      BY <2>1, KeptStep
  <1>2. ASSUME NEW a \in Attempts, NEW from \in SUBSET {"dialing", "primary", "agent"},
               Fails(a, from)
        PROVE  Goal
    <2>1. KeptBy(a)
      BY <1>0, <1>2 DEF KeyboardTypes, EmptyHands, KeptBy, Fails, stores, hands
    <2> QED
      BY <2>1, KeptStep
  <1>3. ASSUME NEW a \in Attempts, PrimaryAccepted(a) \/ PromptsMissing(a) PROVE Goal
    <2>1. \A b \in Attempts : b # a => at'[b] = at[b]
      BY <1>0, <1>3, NextHopType DEF PrimaryAccepted, PromptsMissing, Stages
    <2>2. KeptBy(a)
      BY <1>0, <1>3, <2>1
         DEF EmptyHands, KeptBy, PrimaryAccepted, PromptsMissing, stores, hands
    <2> QED
      BY <2>2, KeptStep
  <1>4. ASSUME NEW a \in Attempts, TakePending(a) PROVE Goal
    <2>1. NoRound.answered = <<>>
      BY DEF NoRound
    <2>2. KeptBy(a)
      BY <1>0, <1>4, <2>1 DEF KeyboardTypes, KeptBy, TakePending, hands
    <2> QED
      BY <2>2, KeptStep
  <1>5. ASSUME NEW a \in Attempts, Reply(a) PROVE Goal
    <2>1. /\ answered[a] \in Seq(Answer) /\ mine[a] \in Seq(Answer) /\ mine[a] # <<>>
          /\ answered'[a] = Append(answered[a], Head(mine[a])) /\ mine'[a] = Tail(mine[a])
      BY <1>0, <1>5 DEF KeyboardTypes, Reply
    <2>2. answered'[a] \o mine'[a] = answered[a] \o mine[a]
      BY <2>1, ReplyKeeps
    <2>3. KeptBy(a)
      BY <1>0, <1>5, <2>2 DEF KeyboardTypes, KeptBy, Reply, stores, place
    <2> QED
      BY <2>3, KeptStep
  <1>6. ASSUME NEW a \in Attempts, Success(a) \/ Failure(a) PROVE Goal
    <2>1. \A b \in Attempts : b # a => at'[b] = at[b]
      <3>1. CASE Success(a)
        BY <1>0, <3>1, NextHopType DEF Success, Stages
      <3>2. CASE Failure(a)
        BY <1>0, <3>2 DEF Failure, KeyboardTypes
      <3> QED
        BY <1>6, <3>1, <3>2
    <2>2. KeptBy(a)
      BY <1>0, <1>6, <2>1 DEF KeyboardTypes, EmptyHands, KeptBy, Success, Failure, DropAnswers, stores
    <2> QED
      BY <2>2, KeptStep
  <1>7. ASSUME NEW a \in Attempts, TakeAnswers(a) PROVE Goal
    <2>0. PICK g \in Hosts : g = HostAt(a)
      BY <1>a
    <2> DEFINE from == <<"answers", g>>
               to == <<"login", a>>
    <2>1. /\ answered[a] = <<>> /\ mine[a] = <<>>
          /\ mine' = [mine EXCEPT ![a] = answers[g]]
          /\ answers' = [answers EXCEPT ![g] = <<>>]
          /\ UNCHANGED <<openRounds, route, at, answered, rounds, typed>>
      BY <1>0, <1>7, <2>0 DEF TakeAnswers, EmptyHands
    <2>2. mine \in [Attempts -> Seq(Answer)] /\ answers \in [Hosts -> Seq(Answer)] /\ typed \in Nat
      BY <1>0 DEF KeyboardTypes
    <2>3. Held(to)' = Held(from) /\ HostOf(to)' = HostOf(from)
      <3>1. answered'[a] = <<>> /\ mine'[a] = answers[g] /\ answers[g] \in Seq(Answer)
        BY <2>0, <2>1, <2>2
      <3>2. \A q \in Seq(Answer) : <<>> \o q = q
        OBVIOUS
      <3>3. InLogin(a)' = answers[g]
        BY <3>1, <3>2 DEF InLogin
      <3>4. HostAt(a)' = HostAt(a)
        BY <2>1 DEF HostAt
      <3> QED
        BY <2>0, <3>3, <3>4, HeldAt
    <2>4. ASSUME NEW p \in Places, p # to
          PROVE  \/ Held(p)' = <<>>
                 \/ p # from /\ Held(p)' = Held(p) /\ HostOf(p)' = HostOf(p)
      <3>1. ASSUME NEW h \in Hosts, p = <<"pending", h>>
            PROVE  p # from /\ Held(p)' = Held(p) /\ HostOf(p)' = HostOf(p)
        BY <2>1, <3>1, HeldAt
      <3>2. ASSUME NEW h \in Hosts, p = <<"answers", h>>, h # g
            PROVE  p # from /\ Held(p)' = Held(p) /\ HostOf(p)' = HostOf(p)
        BY <2>1, <2>2, <3>2, HeldAt
      <3>3. p = from => Held(p)' = <<>>
        BY <2>0, <2>1, <2>2, HeldAt
      <3>4. ASSUME NEW b \in Attempts, p = <<"login", b>>, b # a
            PROVE  p # from /\ Held(p)' = Held(p) /\ HostOf(p)' = HostOf(p)
        <4>1. mine'[b] = mine[b] /\ answered'[b] = answered[b]
          BY <2>1, <2>2, <3>4
        <4>2. HostAt(b)' = HostAt(b) /\ InLogin(b)' = InLogin(b)
          BY <2>1, <4>1, Untouched
        <4> QED
          BY <3>4, <4>2, HeldAt
      <3>5. ASSUME NEW b \in Attempts, p = <<"storing", b>>
            PROVE  p # from /\ Held(p)' = Held(p) /\ HostOf(p)' = HostOf(p)
        <4>1. HostAt(b)' = HostAt(b)
          BY <2>1, Untouched
        <4> QED
          BY <2>1, <3>5, <4>1, HeldAt
      <3> QED
        BY <2>4, <3>1, <3>2, <3>3, <3>4, <3>5, PlaceKinds
    <2>5. from \in Places /\ to \in Places
      BY PlaceKinds
    <2>6. typed' = typed
      BY <2>1
    <2> HIDE DEF from, to
    <2> QED
      BY <2>3, <2>4, <2>5, <2>6, CarriedWhole
  <1>8. ASSUME NEW a \in Attempts, AskUser(a) PROVE Goal
    <2>0. PICK g \in Hosts : g = HostAt(a)
      BY <1>a
    <2> DEFINE from == <<"login", a>>
               to == <<"pending", g>>
    <2>1. /\ mine[a] = <<>>
          /\ mine' = [mine EXCEPT ![a] = <<>>]
          /\ answered' = [answered EXCEPT ![a] = <<>>]
          /\ openRounds' = [openRounds EXCEPT ![g] = [open |-> TRUE, answered |-> answered[a]]]
          /\ at' = [at EXCEPT ![a] = 1]
          /\ rounds[a] = <<>>
          /\ UNCHANGED <<answers, route, rounds, typed>>
      BY <1>0, <1>8, <2>0 DEF AskUser, DropAnswers, EmptyHands
    <2>2. /\ mine \in [Attempts -> Seq(Answer)] /\ answered \in [Attempts -> Seq(Answer)]
          /\ openRounds \in [Hosts -> Round] /\ typed \in Nat /\ at \in [Attempts -> Nat \ {0}]
      BY <1>0 DEF KeyboardTypes
    <2>3. Held(to)' = Held(from) /\ HostOf(to)' = HostOf(from)
      <3>1. InLogin(a) = answered[a]
        BY <2>1, <2>2 DEF InLogin
      <3>2. openRounds'[g].answered = answered[a]
        BY <2>0, <2>1, <2>2
      <3> QED
        BY <2>0, <3>1, <3>2, HeldAt
    <2>4. ASSUME NEW p \in Places, p # to
          PROVE  \/ Held(p)' = <<>>
                 \/ p # from /\ Held(p)' = Held(p) /\ HostOf(p)' = HostOf(p)
      <3>1. ASSUME NEW h \in Hosts, p = <<"pending", h>>, h # g
            PROVE  p # from /\ Held(p)' = Held(p) /\ HostOf(p)' = HostOf(p)
        BY <2>1, <2>2, <3>1, HeldAt
      <3>2. ASSUME NEW h \in Hosts, p = <<"answers", h>>
            PROVE  p # from /\ Held(p)' = Held(p) /\ HostOf(p)' = HostOf(p)
        BY <2>1, <3>2, HeldAt
      <3>3. p = from => Held(p)' = <<>>
        <4>1. mine'[a] = <<>> /\ answered'[a] = <<>> /\ <<>> \o <<>> = <<>>
          BY <2>1, <2>2
        <4>2. InLogin(a)' = <<>>
          BY <4>1 DEF InLogin
        <4> QED
          BY <4>2, HeldAt
      <3>4. ASSUME NEW b \in Attempts, p \in {<<"login", b>>, <<"storing", b>>}, b # a
            PROVE  p # from /\ Held(p)' = Held(p) /\ HostOf(p)' = HostOf(p)
        <4>1. /\ mine'[b] = mine[b] /\ answered'[b] = answered[b] /\ at'[b] = at[b]
              /\ rounds'[b] = rounds[b] /\ route'[b] = route[b]
          BY <2>1, <2>2, <3>4
        <4>2. HostAt(b)' = HostAt(b) /\ InLogin(b)' = InLogin(b)
          BY <4>1, Untouched
        <4> QED
          BY <3>4, <4>1, <4>2, HeldAt
      <3>5. p = <<"storing", a>> => Held(p)' = <<>>
        BY <2>1, HeldAt
      <3> QED
        BY <2>4, <3>1, <3>2, <3>3, <3>4, <3>5, PlaceKinds
    <2>5. from \in Places /\ to \in Places
      BY PlaceKinds
    <2>6. typed' = typed
      BY <2>1
    <2> HIDE DEF from, to
    <2> QED
      BY <2>3, <2>4, <2>5, <2>6, CarriedWhole
  <1>9. ASSUME NEW a \in Attempts, StoreAnswers(a) PROVE Goal
    <2>0. PICK g \in Hosts : g = HostAt(a)
      BY <1>a
    <2> DEFINE from == <<"storing", a>>
               to == <<"answers", g>>
    <2>1. /\ answers' = [answers EXCEPT ![g] = rounds[a]]
          /\ rounds' = [rounds EXCEPT ![a] = <<>>]
          /\ UNCHANGED <<openRounds, route, at, mine, answered, typed>>
      BY <1>9, <2>0 DEF StoreAnswers
    <2>2. rounds \in [Attempts -> Seq(Answer)] /\ answers \in [Hosts -> Seq(Answer)] /\ typed \in Nat
      BY <1>0 DEF KeyboardTypes
    <2>3. Held(to)' = Held(from) /\ HostOf(to)' = HostOf(from)
      <3>1. answers'[g] = rounds[a]
        BY <2>0, <2>1, <2>2
      <3> QED
        BY <2>0, <3>1, HeldAt
    <2>4. ASSUME NEW p \in Places, p # to
          PROVE  \/ Held(p)' = <<>>
                 \/ p # from /\ Held(p)' = Held(p) /\ HostOf(p)' = HostOf(p)
      <3>1. ASSUME NEW h \in Hosts, p = <<"pending", h>>
            PROVE  p # from /\ Held(p)' = Held(p) /\ HostOf(p)' = HostOf(p)
        BY <2>1, <3>1, HeldAt
      <3>2. ASSUME NEW h \in Hosts, p = <<"answers", h>>, h # g
            PROVE  p # from /\ Held(p)' = Held(p) /\ HostOf(p)' = HostOf(p)
        BY <2>1, <2>2, <3>2, HeldAt
      <3>3. p = from => Held(p)' = <<>>
        BY <2>1, <2>2, HeldAt
      <3>4. ASSUME NEW b \in Attempts, p = <<"login", b>>
            PROVE  p # from /\ Held(p)' = Held(p) /\ HostOf(p)' = HostOf(p)
        <4>1. HostAt(b)' = HostAt(b) /\ InLogin(b)' = InLogin(b)
          BY <2>1, Untouched
        <4> QED
          BY <3>4, <4>1, HeldAt
      <3>5. ASSUME NEW b \in Attempts, p = <<"storing", b>>, b # a
            PROVE  p # from /\ Held(p)' = Held(p) /\ HostOf(p)' = HostOf(p)
        <4>1. HostAt(b)' = HostAt(b) /\ rounds'[b] = rounds[b]
          BY <2>1, <2>2, <3>5, Untouched
        <4> QED
          BY <3>5, <4>1, HeldAt
      <3> QED
        BY <2>4, <3>1, <3>2, <3>3, <3>4, <3>5, PlaceKinds
    <2>5. from \in Places /\ to \in Places
      BY PlaceKinds
    <2>6. typed' = typed
      BY <2>1
    <2> HIDE DEF from, to
    <2> QED
      BY <2>3, <2>4, <2>5, <2>6, CarriedWhole
  <1>10. ASSUME NEW a \in Attempts, AnswerPending(a) PROVE Goal
    <2>0. PICK g \in Hosts : g = HostAt(a)
      BY <1>a
    <2>a. PICK x : x = [n |-> typed + 1, host |-> g, round |-> asked[a]]
      OBVIOUS
    <2> DEFINE from == <<"pending", g>>
               to == <<"storing", a>>
               fresh == {x}
    <2>1. /\ rounds' = [rounds EXCEPT ![a] = Append(openRounds[g].answered, x)]
          /\ openRounds' = [openRounds EXCEPT ![g] = NoRound]
          /\ typed' = typed + 1
          /\ UNCHANGED <<answers, route, at, mine, answered>>
      BY <1>10, <2>0, <2>a DEF AnswerPending, EarlierRounds
    <2>2. rounds \in [Attempts -> Seq(Answer)] /\ openRounds \in [Hosts -> Round] /\ typed \in Nat
      BY <1>0 DEF KeyboardTypes
    <2>3. Held(to)' = Append(Held(from), x) /\ HostOf(to)' = HostOf(from)
      <3>1. rounds'[a] = Append(openRounds[g].answered, x)
        BY <2>1, <2>2
      <3>2. HostAt(a)' = HostAt(a)
        BY <2>1, Untouched
      <3> QED
        BY <2>0, <3>1, <3>2, HeldAt
    <2>4. ASSUME NEW p \in Places, p # to
          PROVE  \/ Held(p)' = <<>>
                 \/ p # from /\ Held(p)' = Held(p) /\ HostOf(p)' = HostOf(p)
      <3>1. ASSUME NEW h \in Hosts, p = <<"pending", h>>, h # g
            PROVE  p # from /\ Held(p)' = Held(p) /\ HostOf(p)' = HostOf(p)
        BY <2>1, <2>2, <3>1, HeldAt
      <3>2. ASSUME NEW h \in Hosts, p = <<"answers", h>>
            PROVE  p # from /\ Held(p)' = Held(p) /\ HostOf(p)' = HostOf(p)
        BY <2>1, <3>2, HeldAt
      <3>3. p = from => Held(p)' = <<>>
        <4>1. openRounds'[g].answered = <<>>
          BY <2>0, <2>1, <2>2 DEF NoRound
        <4> QED
          BY <4>1, HeldAt
      <3>4. ASSUME NEW b \in Attempts, p = <<"login", b>>
            PROVE  p # from /\ Held(p)' = Held(p) /\ HostOf(p)' = HostOf(p)
        <4>1. HostAt(b)' = HostAt(b) /\ InLogin(b)' = InLogin(b)
          BY <2>1, Untouched
        <4> QED
          BY <3>4, <4>1, HeldAt
      <3>5. ASSUME NEW b \in Attempts, p = <<"storing", b>>, b # a
            PROVE  p # from /\ Held(p)' = Held(p) /\ HostOf(p)' = HostOf(p)
        <4>1. HostAt(b)' = HostAt(b) /\ rounds'[b] = rounds[b]
          BY <2>1, <2>2, <3>5, Untouched
        <4> QED
          BY <3>5, <4>1, HeldAt
      <3> QED
        BY <2>4, <3>1, <3>2, <3>3, <3>4, <3>5, PlaceKinds
    <2>5. from \in Places /\ to \in Places
      BY PlaceKinds
    <2>6. x.n = typed + 1 /\ x.host = HostOf(from)
      BY <2>a, HeldAt
    <2>7. Held(to)' \in Seq(Answer)
      <3>1. rounds'[a] \in Seq(Answer)
        BY <1>0 DEF TypeInv, KeyboardTypes
      <3> QED
        BY <3>1, HeldAt
    <2> HIDE DEF from, to
    <2>8. GoodPlace(from)
      BY <2>5 DEF PlaceInv
    <2>9. /\ InOrder(Held(to)')
          /\ Range(Held(to)') \subseteq Range(Held(from)) \cup fresh
          /\ \A y \in Range(Held(to)') : y.n <= typed' /\ y.host = HostOf(to)'
      <3>1. typed' = typed + 1
        BY <2>1
      <3>2. /\ Held(from) \in Seq(Answer) /\ InOrder(Held(from))
            /\ \A y \in Range(Held(from)) : y.n <= typed /\ y.host = HostOf(from)
        BY <2>8 DEF GoodPlace
      <3>3. /\ InOrder(Append(Held(from), x))
            /\ Range(Append(Held(from), x)) \subseteq Range(Held(from)) \cup {x}
            /\ \A y \in Range(Append(Held(from), x)) : y.n <= typed + 1 /\ y.host = HostOf(from)
        <4>1. PICK q \in Seq(Answer) : q = Held(from)
          BY <3>2
        <4>2. PICK k \in Nat : k = typed
          BY <2>2
        <4>3. x.n = k + 1 /\ InOrder(q) /\ \A y \in Range(q) : y.n <= k /\ y.host = x.host
          BY <2>6, <3>2, <4>1, <4>2
        <4>4. /\ InOrder(Append(q, x))
              /\ Range(Append(q, x)) \subseteq Range(q) \cup {x}
              /\ \A y \in Range(Append(q, x)) : y.n <= k + 1 /\ y.host = x.host
          BY <4>3, AppendNewer
        <4> QED
          BY <2>6, <4>1, <4>2, <4>4
      <3> QED
        BY <2>3, <3>1, <3>3
    <2>10. typed' \in Nat /\ typed <= typed' /\ \A y \in fresh : y.n > typed
      BY <2>1, <2>2, <2>6
    <2> HIDE DEF fresh
    <2> QED
      BY <2>4, <2>5, <2>7, <2>9, <2>10, Carried
  <1>11. CASE UNCHANGED keyboardVars
    BY <1>11
       DEF keyboardVars, stores, place, hands, PlaceInv, AnswersInOnePlace, GoodPlace, Held,
           EarlierRounds, HostOf, HostAt
  <1> QED
    BY <1>1, <1>2, <1>3, <1>4, <1>5, <1>6, <1>7, <1>8, <1>9, <1>10, <1>11
       DEF KeyboardNext, LoggingIn, Answering, DialFails, KeyUnreadable, PrimaryFails

\* PlaceInv is inductive.
LEMMA PlaceCorrect == KeyboardSpec => []PlaceInv
  <1>1. KeyboardInit => PlaceInv
    <2> SUFFICES ASSUME KeyboardInit PROVE PlaceInv
      OBVIOUS
    <2>1. TypeInv
      BY TypeInit
    <2>2. EmptyHands
      BY DEF KeyboardInit, EmptyHands
    <2>3. ASSUME NEW p \in Places PROVE Held(p) = <<>>
      <3>1. ASSUME NEW h \in Hosts
            PROVE  Held(<<"pending", h>>) = <<>> /\ Held(<<"answers", h>>) = <<>>
        BY HeldAt DEF KeyboardInit, NoRound
      <3>2. ASSUME NEW a \in Attempts
            PROVE  Held(<<"login", a>>) = <<>> /\ Held(<<"storing", a>>) = <<>>
        <4>1. answered[a] = <<>> /\ mine[a] = <<>> /\ rounds[a] = <<>> /\ <<>> \o <<>> = <<>>
          BY DEF KeyboardInit
        <4>2. InLogin(a) = <<>>
          BY <4>1 DEF InLogin
        <4> QED
          BY <4>1, <4>2, HeldAt
      <3> QED
        BY <3>1, <3>2, PlaceKinds
    <2>4. Range(<<>>) = {} /\ <<>> \in Seq(Answer) /\ InOrder(<<>>)
      BY DEF Range, InOrder
    <2> QED
      BY <2>1, <2>2, <2>3, <2>4 DEF PlaceInv, AnswersInOnePlace, GoodPlace
  <1> QED
    BY <1>1, PlaceStep, PTL DEF KeyboardSpec

\* Type correctness: every variable keeps its type in every behaviour, and no
\* attempt has answers in hand outside its login or its dialog.
THEOREM TypeCorrect == KeyboardSpec => []KeyboardTypeOK
  <1>1. PlaceInv => KeyboardTypeOK
    BY DEF PlaceInv, TypeInv, KeyboardTypeOK
  <1> QED
    BY <1>1, PlaceCorrect, PTL

\* What the user typed is in one place at a time, however many attempts share a
\* host: no two running logins have the same code to send.
THEOREM AnswersKeptApart == KeyboardSpec => []AnswersInOnePlace
  <1>1. PlaceInv => AnswersInOnePlace
    BY DEF PlaceInv
  <1> QED
    BY <1>1, PlaceCorrect, PTL

\* The answers in every place are in the order they were typed.
THEOREM AnswersInOrder == KeyboardSpec => []ReplayedInOrder
  <1>1. PlaceInv => ReplayedInOrder
    BY DEF PlaceInv, GoodPlace, InOrder, ReplayedInOrder
  <1> QED
    BY <1>1, PlaceCorrect, PTL

\* No answer reaches a host other than the one that asked, along every chain of
\* jump hosts.
THEOREM AnswersReachTheirHost == KeyboardSpec => []AnswersStayWithHost
  <1>1. PlaceInv => AnswersStayWithHost
    <2> SUFFICES ASSUME PlaceInv PROVE AnswersStayWithHost
      OBVIOUS
    <2>1. ASSUME NEW h \in Hosts, NEW x \in Range(EarlierRounds(h)) \cup Range(answers[h])
          PROVE  x.host = h
      <3>1. GoodPlace(<<"pending", h>>) /\ GoodPlace(<<"answers", h>>)
        BY PlaceKinds DEF PlaceInv
      <3> QED
        BY <2>1, <3>1, HeldAt DEF GoodPlace, EarlierRounds
    <2>2. ASSUME NEW a \in Attempts, NEW x \in Range(mine[a]) \cup Range(answered[a])
          PROVE  x.host = HostAt(a)
      <3>1. GoodPlace(<<"login", a>>)
        BY PlaceKinds DEF PlaceInv
      <3>2. answered[a] \in Seq(Answer) /\ mine[a] \in Seq(Answer)
        BY DEF PlaceInv, TypeInv, KeyboardTypes
      <3>3. x \in Range(InLogin(a))
        BY <2>2, <3>2, ConcatElements DEF InLogin
      <3> QED
        BY <3>1, <3>3, HeldAt DEF GoodPlace
    <2> QED
      BY <2>1, <2>2 DEF AnswersStayWithHost
  <1> QED
    BY <1>1, PlaceCorrect, PTL
=============================================================================
