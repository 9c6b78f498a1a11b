--------------------------- MODULE HostKeys_proofs ---------------------------
(***************************************************************************)
(* Proofs about HostKeys, for every set of hosts, keys, profiles and       *)
(* concurrent attempts.                                                    *)
(***************************************************************************)
EXTENDS HostKeys, TLAPS

\* The hop an attempt is at is a host.
LEMMA HopIsHost ==
    ASSUME Types, NEW a \in Attempts
    PROVE  Hop(a) \in Hosts
  <1>1. chain[a] \in Seq(Hosts) /\ hop[a] \in 1 .. Len(chain[a])
    BY ChainsAssumption, HostKeysAssumption DEF Types
  <1> QED
    BY <1>1 DEF Hop

\* Moving to the next hop, or back to the first, stays on the chain.
LEMMA HopsInRange ==
    ASSUME Types, NEW a \in Attempts, chain' = chain,
           \/ hop' = hop
           \/ hop' = [hop EXCEPT ![a] = 1]
           \/ hop[a] < Len(chain[a]) /\ hop' = [hop EXCEPT ![a] = @ + 1]
    PROVE  hop' \in [Attempts -> Nat \ {0}] /\ \A b \in Attempts : hop'[b] <= Len(chain'[b])
  <1>1. \A b \in Attempts : chain[b] \in Seq(Hosts) \ {<<>>}
    BY ChainsAssumption, HostKeysAssumption DEF Types
  <1>2. \A b \in Attempts : Len(chain[b]) \in Nat /\ Len(chain[b]) >= 1
    BY <1>1
  <1>3. \A b \in Attempts : hop[b] \in Nat \ {0} /\ hop[b] <= Len(chain[b])
    BY DEF Types
  <1>4. hop \in [Attempts -> Nat \ {0}]
    BY DEF Types
  <1>5. CASE hop' = hop
    BY <1>3, <1>4, <1>5
  <1>6. CASE hop' = [hop EXCEPT ![a] = 1]
    BY <1>2, <1>3, <1>4, <1>6
  <1>7. CASE hop[a] < Len(chain[a]) /\ hop' = [hop EXCEPT ![a] = @ + 1]
    BY <1>2, <1>3, <1>4, <1>7
  <1> QED
    BY <1>5, <1>6, <1>7

\* Every step preserves the types.
LEMMA TypeStep == Types /\ KeysInHand /\ [Next]_vars => Types'
  <1> SUFFICES ASSUME Types, KeysInHand, [Next]_vars
               PROVE  Types'
    OBVIOUS
  <1>0. ASSUME NEW a \in Attempts PROVE Hop(a) \in Hosts
    BY <1>0, HopIsHost
  <1> USE DEF Goto, States
  <1>1. ASSUME NEW a \in Attempts, Start(a) PROVE Types'
    <2>1. /\ hop' \in [Attempts -> Nat \ {0}]
          /\ \A b \in Attempts : hop'[b] <= Len(chain'[b])
      BY <1>1, HopsInRange DEF Start
    <2>2. tries' \in [Attempts -> 0 .. MaxTries]
      BY <1>1, HostKeysAssumption DEF Start, Types
    <2>3. pending' \in [Hosts -> PendingHostKey \cup {NoPending}]
      BY <1>1 DEF Start, Types
    <2> QED
      BY <1>1, <2>1, <2>2, <2>3 DEF Start, Types
  <1>2. ASSUME NEW a \in Attempts, Fail(a) PROVE Types'
    BY <1>2, HopsInRange DEF Fail, historyVars, Types
  <1>3. ASSUME NEW a \in Attempts, VerifyAccepts(a) PROVE Types'
    <2>1. PICK k \in known[Hop(a)] : /\ offered' = [offered EXCEPT ![a] = k]
                                     /\ accepted' = accepted \cup {<<Hop(a), k>>}
      BY <1>3 DEF VerifyAccepts
    <2>2. k \in Keys
      BY <1>0, <2>1 DEF Types
    <2>3. offered' \in [Attempts -> Keys \cup {NoKey}]
      BY <2>1, <2>2 DEF Types
    <2>4. accepted' \in SUBSET (Hosts \X Keys)
      BY <1>0, <2>1, <2>2 DEF Types
    <2>5. /\ hop' \in [Attempts -> Nat \ {0}]
          /\ \A b \in Attempts : hop'[b] <= Len(chain'[b])
      BY <1>3, HopsInRange DEF VerifyAccepts
    <2>6. pc' \in [Attempts -> States]
      BY <1>3 DEF VerifyAccepts, Types
    <2> QED
      BY <1>3, <2>3, <2>4, <2>5, <2>6 DEF VerifyAccepts, Types
  <1>4. ASSUME NEW a \in Attempts, VerifyRefuses(a) PROVE Types'
    <2>1. offered' \in [Attempts -> Keys \cup {NoKey}]
      BY <1>4 DEF VerifyRefuses, Types
    <2>2. seen' \in [Attempts -> SUBSET Keys]
      BY <1>0, <1>4 DEF VerifyRefuses, Types
    <2> QED
      BY <1>4, <2>1, <2>2 DEF VerifyRefuses, historyVars, Types
  <1>5. ASSUME NEW a \in Attempts, Remember(a) PROVE Types'
    <2>1. [key |-> offered[a], changed |-> seen[a] # {}] \in PendingHostKey
      BY <1>5 DEF Remember, KeysInHand, PendingHostKey
    <2>2. pending' \in [Hosts -> PendingHostKey \cup {NoPending}]
      BY <1>0, <1>5, <2>1 DEF Remember, Types
    <2>3. /\ hop' \in [Attempts -> Nat \ {0}]
          /\ \A b \in Attempts : hop'[b] <= Len(chain'[b])
      BY <1>5, HopsInRange DEF Remember
    <2> QED
      BY <1>5, <2>2, <2>3 DEF Remember, historyVars, Types
  <1>6. ASSUME NEW a \in Attempts, LookFinds(a) PROVE Types'
    BY <1>0, <1>6 DEF LookFinds, historyVars, Types
  <1>7. ASSUME NEW a \in Attempts, LookMisses(a) PROVE Types'
    <2>1. /\ hop' \in [Attempts -> Nat \ {0}]
          /\ \A b \in Attempts : hop'[b] <= Len(chain'[b])
      BY <1>7, HopsInRange DEF LookMisses
    <2>2. pc' \in [Attempts -> States]
      BY <1>7 DEF LookMisses, Types
    <2> QED
      BY <1>7, <2>1, <2>2 DEF LookMisses, historyVars, Types
  <1>8. ASSUME NEW a \in Attempts, Dismiss(a) \/ TrustFails(a) PROVE Types'
    BY <1>8 DEF Dismiss, TrustFails, historyVars, Types
  <1>9. ASSUME NEW a \in Attempts, Confirm(a) PROVE Types'
    <2>1. shown[a].key \in Keys
      BY <1>9 DEF Confirm, KeysInHand, PendingHostKey
    <2>2. confirmed' \in SUBSET (Hosts \X Keys)
      BY <1>0, <1>9, <2>1 DEF Confirm, Types
    <2> QED
      BY <1>9, <2>2 DEF Confirm, Types
  <1>10. ASSUME NEW a \in Attempts, TrustLearns(a) PROVE Types'
    <2>1. pending[Hop(a)].key \in Keys
      BY <1>0, <1>10 DEF TrustLearns, Types, PendingHostKey
    <2>2. known' \in [Hosts -> SUBSET Keys]
      BY <1>0, <1>10, <2>1 DEF TrustLearns, Types
    <2>3. pending' \in [Hosts -> PendingHostKey \cup {NoPending}]
      BY <1>0, <1>10 DEF TrustLearns, Types
    <2> QED
      BY <1>10, <2>2, <2>3 DEF TrustLearns, historyVars, Types
  <1>11. ASSUME NEW h \in Hosts, RemoveEntry(h) PROVE Types'
    BY <1>11 DEF RemoveEntry, attemptVars, historyVars, Types
  <1>12. CASE UNCHANGED vars
    BY <1>12 DEF vars, attemptVars, historyVars, Types
  <1> QED
    BY <1>1, <1>2, <1>3, <1>4, <1>5, <1>6, <1>7, <1>8, <1>9, <1>10, <1>11, <1>12
       DEF Next, Connecting, Dialog

-----------------------------------------------------------------------------
(* The safety argument: a key reaches known_hosts only through TrustLearns, *)
(* which compares the pending key with the one shown, and that one the user *)
(* has confirmed for the host the attempt is at.                            *)

KeyInv ==
    /\ Types
    /\ KeysInHand
    /\ ConfirmedInHand
    /\ OnlyConfirmedLearned
    /\ NothingTrustedSilently

\* The two facts about what an attempt has in hand are preserved.
LEMMA InHandStep ==
    ASSUME KeyInv, [Next]_vars
    PROVE  KeysInHand' /\ ConfirmedInHand'
  <1> USE DEF KeyInv, KeysInHand, ConfirmedInHand, Goto, Hop
  <1>0. ASSUME NEW a \in Attempts PROVE Hop(a) \in Hosts
    BY <1>0, HopIsHost
  <1>1. ASSUME NEW a \in Attempts, Start(a) PROVE KeysInHand' /\ ConfirmedInHand'
    BY <1>1 DEF Start, Types
  <1>2. ASSUME NEW a \in Attempts, Fail(a) PROVE KeysInHand' /\ ConfirmedInHand'
    BY <1>2 DEF Fail, historyVars, Types
  <1>3. ASSUME NEW a \in Attempts, VerifyAccepts(a) PROVE KeysInHand' /\ ConfirmedInHand'
    <2>1. \A b \in Attempts \ {a} : /\ pc'[b] = pc[b] /\ hop'[b] = hop[b]
                                   /\ offered'[b] = offered[b]
      BY <1>3 DEF VerifyAccepts, Types
    <2>2. pc'[a] \in {"dialing", "idle", "failed"}
      BY <1>3 DEF VerifyAccepts, Types
    <2>3. UNCHANGED <<chain, shown, confirmed>>
      BY <1>3 DEF VerifyAccepts
    <2> QED
      BY <2>1, <2>2, <2>3
  <1>4. ASSUME NEW a \in Attempts, VerifyRefuses(a) PROVE KeysInHand' /\ ConfirmedInHand'
    BY <1>4 DEF VerifyRefuses, historyVars, Types
  <1>5. ASSUME NEW a \in Attempts, Remember(a) PROVE KeysInHand' /\ ConfirmedInHand'
    BY <1>5 DEF Remember, historyVars, Types
  <1>6. ASSUME NEW a \in Attempts, LookFinds(a) PROVE KeysInHand' /\ ConfirmedInHand'
    <2>1. pending[Hop(a)] \in PendingHostKey
      BY <1>0, <1>6 DEF LookFinds, Types
    <2> QED
      BY <1>6, <2>1 DEF LookFinds, historyVars, Types
  <1>7. ASSUME NEW a \in Attempts, LookMisses(a) PROVE KeysInHand' /\ ConfirmedInHand'
    BY <1>7 DEF LookMisses, historyVars, Types
  <1>8. ASSUME NEW a \in Attempts, Dismiss(a) \/ TrustFails(a)
        PROVE  KeysInHand' /\ ConfirmedInHand'
    BY <1>8 DEF Dismiss, TrustFails, historyVars, Types
  <1>9. ASSUME NEW a \in Attempts, Confirm(a) PROVE KeysInHand' /\ ConfirmedInHand'
    BY <1>9 DEF Confirm, Types
  <1>10. ASSUME NEW a \in Attempts, TrustLearns(a) PROVE KeysInHand' /\ ConfirmedInHand'
    BY <1>10 DEF TrustLearns, historyVars, Types
  <1>11. ASSUME NEW h \in Hosts, RemoveEntry(h) PROVE KeysInHand' /\ ConfirmedInHand'
    BY <1>11 DEF RemoveEntry, attemptVars, historyVars
  <1>12. CASE UNCHANGED vars
    BY <1>12 DEF vars, attemptVars, historyVars
  <1> QED
    BY <1>1, <1>2, <1>3, <1>4, <1>5, <1>6, <1>7, <1>8, <1>9, <1>10, <1>11, <1>12
       DEF Next, Connecting, Dialog

\* What is recorded and what is let through stay confirmed.
LEMMA TrustStep ==
    ASSUME KeyInv, [Next]_vars
    PROVE  OnlyConfirmedLearned' /\ NothingTrustedSilently'
  <1> USE DEF KeyInv, OnlyConfirmedLearned, NothingTrustedSilently
  <1>0. ASSUME NEW a \in Attempts PROVE Hop(a) \in Hosts
    BY <1>0, HopIsHost
  <1>1. CASE UNCHANGED <<known, confirmed, accepted>>
    BY <1>1
  <1>2. ASSUME NEW a \in Attempts, VerifyAccepts(a)
        PROVE  OnlyConfirmedLearned' /\ NothingTrustedSilently'
    <2>1. PICK k \in known[Hop(a)] : accepted' = accepted \cup {<<Hop(a), k>>}
      BY <1>2 DEF VerifyAccepts
    <2>2. k \in InitialKnown[Hop(a)] \/ <<Hop(a), k>> \in confirmed
      BY <1>0, <2>1
    <2> QED
      BY <1>2, <2>1, <2>2 DEF VerifyAccepts
  <1>3. ASSUME NEW a \in Attempts, Confirm(a)
        PROVE  OnlyConfirmedLearned' /\ NothingTrustedSilently'
    BY <1>3 DEF Confirm
  <1>4. ASSUME NEW a \in Attempts, TrustLearns(a)
        PROVE  OnlyConfirmedLearned' /\ NothingTrustedSilently'
    <2>1. <<Hop(a), pending[Hop(a)].key>> \in confirmed
      BY <1>4 DEF TrustLearns, ConfirmedInHand
    <2> QED
      BY <1>0, <1>4, <2>1 DEF TrustLearns, historyVars, Types
  <1>5. ASSUME NEW h \in Hosts, RemoveEntry(h)
        PROVE  OnlyConfirmedLearned' /\ NothingTrustedSilently'
    BY <1>5 DEF RemoveEntry, historyVars, Types
  <1>6. ASSUME NEW a \in Attempts,
               \/ Start(a) \/ Fail(a) \/ VerifyRefuses(a) \/ Remember(a)
               \/ LookFinds(a) \/ LookMisses(a) \/ Dismiss(a) \/ TrustFails(a)
        PROVE  OnlyConfirmedLearned' /\ NothingTrustedSilently'
    BY <1>1, <1>6 DEF Start, Fail, VerifyRefuses, Remember, LookFinds, LookMisses,
                      Dismiss, TrustFails, historyVars
  <1>7. CASE UNCHANGED vars
    BY <1>1, <1>7 DEF vars, historyVars
  <1> QED
    BY <1>2, <1>3, <1>4, <1>5, <1>6, <1>7 DEF Next, Connecting, Dialog

\* KeyInv is inductive.
LEMMA KeyInvariant == Spec => []KeyInv
  <1>1. Init => KeyInv
    <2> SUFFICES ASSUME Init PROVE KeyInv
      OBVIOUS
    <2>1. \A a \in Attempts : chain[a] \in Seq(Hosts) \ {<<>>}
      BY ChainsAssumption, HostKeysAssumption DEF Init
    <2>2. \A a \in Attempts : Len(chain[a]) \in Nat /\ Len(chain[a]) >= 1
      <3>1. ASSUME NEW q \in Seq(Hosts), q # <<>> PROVE Len(q) \in Nat /\ Len(q) >= 1
        BY <3>1
      <3> QED
        BY <2>1, <3>1
    <2>3. Types
      BY <2>2, ChainsAssumption, HostKeysAssumption DEF Init, Types, States
    <2> QED
      BY <2>3 DEF Init, KeyInv, KeysInHand, ConfirmedInHand, OnlyConfirmedLearned,
                  NothingTrustedSilently
  <1>2. KeyInv /\ [Next]_vars => KeyInv'
    BY TypeStep, InHandStep, TrustStep DEF KeyInv
  <1> QED
    BY <1>1, <1>2, PTL DEF Spec

\* Type correctness of the host key model; only a key the user was shown as new
\* and has confirmed is ever asked to be trusted.
THEOREM TypeCorrect == Spec => []TypeOK
  <1>1. KeyInv => TypeOK
    BY DEF KeyInv, TypeOK
  <1> QED
    BY <1>1, KeyInvariant, PTL

\* known_hosts only ever gains keys that the user was shown for that host and
\* confirmed, whatever other attempts do to the pending key meanwhile.
THEOREM LearnedKeysConfirmed == Spec => []OnlyConfirmedLearned
  <1>1. KeyInv => OnlyConfirmedLearned
    BY DEF KeyInv
  <1> QED
    BY <1>1, KeyInvariant, PTL

\* No server key is let through that was not recorded from the start or
\* confirmed by the user.
THEOREM NoSilentTrust == Spec => []NothingTrustedSilently
  <1>1. KeyInv => NothingTrustedSilently
    BY DEF KeyInv
  <1> QED
    BY <1>1, KeyInvariant, PTL

-----------------------------------------------------------------------------
(* A key refused as new was refused when nothing was recorded for its host, *)
(* and from then on everything recorded there is confirmed.  (The check of  *)
(* known_hosts is not repeated when the key is learned, so that "nothing is *)
(* recorded" would not be preserved: another dialog may get there first.)   *)

AllConfirmed(h) == \A k \in known[h] : <<h, k>> \in confirmed

NewInHand ==
    /\ \A a \in Attempts : pc[a] = "refusing" /\ seen[a] = {} => AllConfirmed(Hop(a))
    /\ \A h \in Hosts : pending[h] # NoPending /\ ~pending[h].changed => AllConfirmed(h)

JoinInv == KeyInv /\ NewInHand /\ RecordedNeverJoined

\* A host whose entries are all confirmed stays one: known_hosts gains only
\* confirmed keys, and confirmations are not taken back.
LEMMA ConfirmedStays ==
    ASSUME KeyInv, [Next]_vars, NEW h \in Hosts, AllConfirmed(h)
    PROVE  AllConfirmed(h)'
  <1> USE DEF KeyInv, AllConfirmed
  <1>0. ASSUME NEW a \in Attempts PROVE Hop(a) \in Hosts
    BY <1>0, HopIsHost
  <1>1. CASE UNCHANGED known /\ confirmed \subseteq confirmed'
    BY <1>1
  <1>2. ASSUME NEW a \in Attempts, TrustLearns(a) PROVE AllConfirmed(h)'
    <2>1. <<Hop(a), pending[Hop(a)].key>> \in confirmed
      BY <1>2 DEF TrustLearns, ConfirmedInHand
    <2> QED
      BY <1>0, <1>2, <2>1 DEF TrustLearns, historyVars, Types
  <1>3. ASSUME NEW g \in Hosts, RemoveEntry(g) PROVE AllConfirmed(h)'
    BY <1>3 DEF RemoveEntry, historyVars, Types
  <1>4. ASSUME NEW a \in Attempts, Connecting(a) \/ (Dialog(a) /\ ~TrustLearns(a))
        PROVE  AllConfirmed(h)'
    BY <1>1, <1>4 DEF Connecting, Dialog, Start, Fail, VerifyAccepts, VerifyRefuses, Remember,
                      LookFinds, LookMisses, Dismiss, Confirm, TrustFails, historyVars
  <1>5. CASE UNCHANGED vars
    BY <1>1, <1>5 DEF vars, historyVars
  <1> QED
    BY <1>2, <1>3, <1>4, <1>5 DEF Next

\* Which keys count as new is preserved.
LEMMA NewStep ==
    ASSUME JoinInv, [Next]_vars
    PROVE  NewInHand'
  <1> USE DEF JoinInv, KeyInv
  <1>0. ASSUME NEW a \in Attempts PROVE Hop(a) \in Hosts
    BY <1>0, HopIsHost
  <1>c. ASSUME NEW h \in Hosts, AllConfirmed(h) PROVE AllConfirmed(h)'
    BY <1>c, ConfirmedStays
  \* What a step must show: whoever is refusing a new key was, or found
  \* nothing recorded; and a new pending key was pending, or in hand.
  <1>1. SUFFICES
          /\ \A a \in Attempts : pc'[a] = "refusing" /\ seen'[a] = {} =>
               \/ pc[a] = "refusing" /\ seen[a] = {} /\ Hop(a)' = Hop(a)
               \/ known[Hop(a)] = {} /\ Hop(a)' = Hop(a)
          /\ \A h \in Hosts : pending'[h] # NoPending /\ ~pending'[h].changed =>
               \/ pending'[h] = pending[h]
               \/ \E a \in Attempts : pc[a] = "refusing" /\ seen[a] = {} /\ h = Hop(a)
    BY <1>0, <1>c, <1>1 DEF NewInHand, AllConfirmed
  <1> USE DEF Goto, Hop
  <1>2. ASSUME NEW a \in Attempts, Start(a) PROVE <1>1!1
    BY <1>2 DEF Start, Types, NoPending
  <1>3. ASSUME NEW a \in Attempts, VerifyRefuses(a) PROVE <1>1!1
    BY <1>3 DEF VerifyRefuses, Types
  <1>4. ASSUME NEW a \in Attempts, Fail(a) PROVE <1>1!1
    BY <1>4 DEF Fail, Types
  <1>5. ASSUME NEW a \in Attempts, VerifyAccepts(a) PROVE <1>1!1
    <2>1. \A b \in Attempts \ {a} : pc'[b] = pc[b] /\ hop'[b] = hop[b]
      BY <1>5 DEF VerifyAccepts, Types
    <2>2. pc'[a] \in {"dialing", "idle", "failed"}
      BY <1>5 DEF VerifyAccepts, Types
    <2> QED
      BY <1>5, <2>1, <2>2 DEF VerifyAccepts
  <1>6. ASSUME NEW a \in Attempts, Remember(a) PROVE <1>1!1
    <2>1. /\ pc'[a] = "failed"
          /\ \A b \in Attempts \ {a} : pc'[b] = pc[b] /\ hop'[b] = hop[b]
      BY <1>6 DEF Remember, Types
    <2>2. ASSUME NEW h \in Hosts, h # Hop(a) PROVE pending'[h] = pending[h]
      BY <1>6, <2>2 DEF Remember, Types
    <2>3. pending'[Hop(a)].changed = (seen[a] # {})
      BY <1>0, <1>6 DEF Remember, Types
    <2> QED
      BY <1>6, <2>1, <2>2, <2>3 DEF Remember
  <1>7. ASSUME NEW a \in Attempts, LookFinds(a) \/ Dismiss(a) \/ Confirm(a) \/ TrustFails(a)
        PROVE  <1>1!1
    BY <1>7 DEF LookFinds, Dismiss, Confirm, TrustFails, historyVars, Types
  <1>8. ASSUME NEW a \in Attempts, LookMisses(a) PROVE <1>1!1
    BY <1>8 DEF LookMisses, Types
  <1>9. ASSUME NEW a \in Attempts, TrustLearns(a) PROVE <1>1!1
    BY <1>9 DEF TrustLearns, NoPending, Types
  <1>10. ASSUME NEW h \in Hosts, RemoveEntry(h) PROVE <1>1!1
    BY <1>10 DEF RemoveEntry, attemptVars
  <1>11. CASE UNCHANGED vars
    BY <1>11 DEF vars, attemptVars
  <1> QED
    BY <1>2, <1>3, <1>4, <1>5, <1>6, <1>7, <1>8, <1>9, <1>10, <1>11
       DEF Next, Connecting, Dialog

\* known_hosts grows only where everything is confirmed.
LEMMA JoinStep ==
    ASSUME JoinInv, [Next]_vars
    PROVE  RecordedNeverJoined'
  <1> SUFFICES ASSUME NEW h \in Hosts
               PROVE  known'[h] \subseteq InitialKnown[h] \/ AllConfirmed(h)'
    BY DEF RecordedNeverJoined, AllConfirmed
  <1>1. CASE AllConfirmed(h)
    BY <1>1, ConfirmedStays DEF JoinInv
  <1>2. CASE ~AllConfirmed(h)
    <2>1. known[h] \subseteq InitialKnown[h]
      BY <1>2 DEF JoinInv, RecordedNeverJoined, AllConfirmed
    <2>2. ASSUME NEW a \in Attempts, TrustLearns(a) PROVE known'[h] = known[h]
      <3>1. Hop(a) \in Hosts
        BY HopIsHost DEF JoinInv, KeyInv
      <3>2. AllConfirmed(Hop(a))
        BY <2>2, <3>1 DEF TrustLearns, JoinInv, NewInHand
      <3> QED
        BY <1>2, <2>2, <3>1, <3>2 DEF TrustLearns, JoinInv, KeyInv, Types
    <2>3. ASSUME NEW g \in Hosts, RemoveEntry(g) PROVE known'[h] \subseteq known[h]
      BY <2>3 DEF RemoveEntry, JoinInv, KeyInv, Types
    <2>4. ASSUME NEW a \in Attempts, Connecting(a) \/ (Dialog(a) /\ ~TrustLearns(a))
          PROVE  known' = known
      BY <2>4 DEF Connecting, Dialog, Start, Fail, VerifyAccepts, VerifyRefuses, Remember,
                  LookFinds, LookMisses, Dismiss, Confirm, TrustFails
    <2>5. CASE UNCHANGED vars
      BY <2>1, <2>5 DEF vars
    <2> QED
      BY <2>1, <2>2, <2>3, <2>4, <2>5 DEF Next
  <1> QED
    BY <1>1, <1>2

\* However attempts, dialogs and removals overlap, a key recorded from the start
\* and not confirmed is never joined by another.
THEOREM RecordedKeysNeverJoined == Spec => []RecordedNeverJoined
  <1>1. Init => NewInHand /\ RecordedNeverJoined
    BY DEF Init, NewInHand, RecordedNeverJoined
  <1>2. JoinInv /\ KeyInv' /\ [Next]_vars => JoinInv'
    BY NewStep, JoinStep DEF JoinInv
  <1>3. JoinInv => RecordedNeverJoined
    BY DEF JoinInv
  <1>4. Init /\ KeyInv => JoinInv
    BY <1>1 DEF JoinInv
  <1> QED
    BY <1>2, <1>3, <1>4, KeyInvariant, PTL DEF Spec
=============================================================================
