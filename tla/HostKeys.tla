------------------------------- MODULE HostKeys -------------------------------
(***************************************************************************)
(* Host key verification and the dialog that lets the user trust a key.    *)
(*                                                                         *)
(* Every connection attempt forgets the refused keys of the hosts on its   *)
(* chain, then dials them, the outermost jump host first, and checks each  *)
(* server's key against known_hosts.  A key that is not recorded ends the  *)
(* attempt and is kept as the host's pending key.  The user interface of   *)
(* the failed attempt looks for a pending key along the chain, shows it,   *)
(* and asks the backend to trust the fingerprint it showed.                *)
(*                                                                         *)
(* An attempt is one tab, one tunnel or one SFTP panel: attempts to the    *)
(* same host run concurrently, and verify_host_key reads known_hosts       *)
(* before it takes the lock on the pending keys.                           *)
(***************************************************************************)
EXTENDS Logins, FiniteSets, Functions

CONSTANTS
    Keys,          \* server keys; a key stands for its fingerprint too
    InitialKnown,  \* what known_hosts holds when the program starts
    MaxTries,      \* bound: connects per attempt
    NoKey

ASSUME HostKeysAssumption ==
    /\ InitialKnown \in [Hosts -> SUBSET Keys]
    /\ MaxTries \in Nat
    /\ NoKey \notin Keys

VARIABLES
    known,      \* the known_hosts file
    pending,    \* PENDING: the last refused key of each host, or NoKey
    pc,         \* where each attempt is
    chain,      \* the hosts it goes through
    hop,        \* the one it is at
    offered,    \* the key the server offered there
    seen,       \* the recorded keys verify_host_key read
    shown,      \* the pending key in its dialog
    tries,      \* connects so far
    confirmed,  \* history: <<host, key>> pairs the user said to trust
    accepted    \* history: <<host, key>> pairs verification let through

attemptVars == <<pc, chain, hop, offered, seen, shown, tries>>
historyVars == <<confirmed, accepted>>
vars == <<known, pending, attemptVars, historyVars>>

NoPending == [key |-> NoKey, changed |-> FALSE]
PendingHostKey == [key : Keys, changed : BOOLEAN]

Hop(a) == chain[a][hop[a]]

States == {"idle", "dialing", "refusing", "failed", "asking", "trusting"}

Types ==
    /\ known \in [Hosts -> SUBSET Keys]
    /\ pending \in [Hosts -> PendingHostKey \cup {NoPending}]
    /\ pc \in [Attempts -> States]
    /\ chain \in [Attempts -> Chains]
    /\ hop \in [Attempts -> Nat \ {0}]
    /\ \A a \in Attempts : hop[a] <= Len(chain[a])
    /\ offered \in [Attempts -> Keys \cup {NoKey}]
    /\ seen \in [Attempts -> SUBSET Keys]
    /\ shown \in [Attempts -> PendingHostKey \cup {NoPending}]
    /\ tries \in [Attempts -> 0 .. MaxTries]
    /\ confirmed \in SUBSET (Hosts \X Keys)
    /\ accepted \in SUBSET (Hosts \X Keys)

\* What an attempt carries from one step to the next is fit for the next: a key
\* that is being refused was offered, a dialog has a key to show ...
KeysInHand ==
    \A a \in Attempts :
        /\ pc[a] = "refusing" => offered[a] \in Keys
        /\ pc[a] \in {"asking", "trusting"} => shown[a] \in PendingHostKey

\* ... and only a new key that the user has just confirmed is asked to be trusted.
ConfirmedInHand ==
    \A a \in Attempts : pc[a] = "trusting" =>
        ~shown[a].changed /\ <<Hop(a), shown[a].key>> \in confirmed

\* Every variable has its type, and every attempt has in hand what its step needs.
TypeOK == Types /\ KeysInHand /\ ConfirmedInHand

Init ==
    /\ known = InitialKnown
    /\ pending = [h \in Hosts |-> NoPending]
    /\ pc = [a \in Attempts |-> "idle"]
    /\ chain \in [Attempts -> Chains]
    /\ hop = [a \in Attempts |-> 1]
    /\ offered = [a \in Attempts |-> NoKey]
    /\ seen = [a \in Attempts |-> {}]
    /\ shown = [a \in Attempts |-> NoPending]
    /\ tries = [a \in Attempts |-> 0]
    /\ confirmed = {}
    /\ accepted = {}

Goto(a, state) == pc' = [pc EXCEPT ![a] = state]

-----------------------------------------------------------------------------
(* The connection attempt.                                                  *)

\* connect_forwarding_to forgets the host's pending key and recurses into the
\* jump host before it dials anything.
Start(a) ==
    /\ pc[a] = "idle"
    /\ tries[a] < MaxTries
    /\ tries' = [tries EXCEPT ![a] = @ + 1]
    /\ pending' = [h \in Hosts |->
                     IF h \in Range(chain[a]) THEN NoPending ELSE pending[h]]
    /\ hop' = [hop EXCEPT ![a] = 1]
    /\ Goto(a, "dialing")
    /\ UNCHANGED <<known, chain, offered, seen, shown, confirmed, accepted>>

\* Timeout, refused connection, unreadable key file, failed authentication.
Fail(a) ==
    /\ pc[a] = "dialing"
    /\ hop' = [hop EXCEPT ![a] = 1]
    /\ Goto(a, "failed")
    /\ UNCHANGED <<known, pending, chain, offered, seen, shown, tries, historyVars>>

\* Mutant: an unknown host's first key is accepted as it is.
VerifyAccepts_OnFirstUse(a) ==
    /\ pc[a] = "dialing"
    /\ \E k \in Keys :
         /\ k \in known[Hop(a)] \/ known[Hop(a)] = {}
         /\ offered' = [offered EXCEPT ![a] = k]
         /\ accepted' = accepted \cup {<<Hop(a), k>>}
    /\ IF hop[a] < Len(chain[a])
       THEN hop' = [hop EXCEPT ![a] = @ + 1] /\ UNCHANGED pc
       ELSE /\ hop' = [hop EXCEPT ![a] = 1]
            /\ \E end \in {"idle", "failed"} : Goto(a, end)
    /\ UNCHANGED <<known, pending, chain, seen, shown, tries, confirmed>>

\* verify_host_key finds the offered key recorded: on to the next hop, or, at
\* the last one, the login fails or the connection is up (and later over).
VerifyAccepts(a) ==
    /\ pc[a] = "dialing"
    /\ \E k \in known[Hop(a)] :
         /\ offered' = [offered EXCEPT ![a] = k]
         /\ accepted' = accepted \cup {<<Hop(a), k>>}
    /\ IF hop[a] < Len(chain[a])
       THEN hop' = [hop EXCEPT ![a] = @ + 1] /\ UNCHANGED pc
       ELSE /\ hop' = [hop EXCEPT ![a] = 1]
            /\ \E end \in {"idle", "failed"} : Goto(a, end)
    /\ UNCHANGED <<known, pending, chain, seen, shown, tries, confirmed>>

\* Any other key is refused; whether it is new or changed is what known_hosts
\* said when it was read.
VerifyRefuses(a) ==
    /\ pc[a] = "dialing"
    /\ \E k \in Keys \ known[Hop(a)] : offered' = [offered EXCEPT ![a] = k]
    /\ seen' = [seen EXCEPT ![a] = known[Hop(a)]]
    /\ Goto(a, "refusing")
    /\ UNCHANGED <<known, pending, chain, hop, shown, tries, historyVars>>

\* Mutant: every refused key counts as new.
Remember_New(a) ==
    /\ pc[a] = "refusing"
    /\ pending' = [pending EXCEPT ![Hop(a)] = [key |-> offered[a], changed |-> FALSE]]
    /\ hop' = [hop EXCEPT ![a] = 1]
    /\ Goto(a, "failed")
    /\ UNCHANGED <<known, chain, offered, seen, shown, tries, historyVars>>

\* remember_offered_key.
Remember(a) ==
    /\ pc[a] = "refusing"
    /\ pending' = [pending EXCEPT ![Hop(a)] =
                     [key |-> offered[a], changed |-> seen[a] # {}]]
    /\ hop' = [hop EXCEPT ![a] = 1]
    /\ Goto(a, "failed")
    /\ UNCHANGED <<known, chain, offered, seen, shown, tries, historyVars>>

-----------------------------------------------------------------------------
(* The dialog of the failed attempt, resolveRefusedHostKey.                 *)

\* One pending_host_key call per hop, until one has a pending key.
LookFinds(a) ==
    /\ pc[a] = "failed"
    /\ pending[Hop(a)] # NoPending
    /\ shown' = [shown EXCEPT ![a] = pending[Hop(a)]]
    /\ Goto(a, "asking")
    /\ UNCHANGED <<known, pending, chain, hop, offered, seen, tries, historyVars>>

LookMisses(a) ==
    /\ pc[a] = "failed"
    /\ pending[Hop(a)] = NoPending
    /\ IF hop[a] < Len(chain[a])
       THEN hop' = [hop EXCEPT ![a] = @ + 1] /\ UNCHANGED pc
       ELSE hop' = [hop EXCEPT ![a] = 1] /\ Goto(a, "idle")
    /\ UNCHANGED <<known, pending, chain, offered, seen, shown, tries, historyVars>>

\* The user cancels, or reads that the key changed and closes.
Dismiss(a) ==
    /\ pc[a] = "asking"
    /\ Goto(a, "idle")
    /\ UNCHANGED <<known, pending, chain, hop, offered, seen, shown, tries, historyVars>>

\* Mutant: the dialog offers to trust a changed key too.
Confirm_Changed(a) ==
    /\ pc[a] = "asking"
    /\ confirmed' = confirmed \cup {<<Hop(a), shown[a].key>>}
    /\ Goto(a, "trusting")
    /\ UNCHANGED <<known, pending, chain, hop, offered, seen, shown, tries, accepted>>

\* The user trusts a new key; for a changed one the dialog has no such button.
Confirm(a) ==
    /\ pc[a] = "asking"
    /\ ~shown[a].changed
    /\ confirmed' = confirmed \cup {<<Hop(a), shown[a].key>>}
    /\ Goto(a, "trusting")
    /\ UNCHANGED <<known, pending, chain, hop, offered, seen, shown, tries, accepted>>

\* trust_pending_host_key holds the lock throughout: the pending key must still
\* be there, not be a changed one, and have the fingerprint that was shown.
TrustLearns(a) ==
    /\ pc[a] = "trusting"
    /\ pending[Hop(a)] # NoPending
    /\ ~pending[Hop(a)].changed
    /\ pending[Hop(a)].key = shown[a].key
    /\ known' = [known EXCEPT ![Hop(a)] = @ \cup {pending[Hop(a)].key}]
    /\ pending' = [pending EXCEPT ![Hop(a)] = NoPending]
    /\ Goto(a, "idle")
    /\ UNCHANGED <<chain, hop, offered, seen, shown, tries, historyVars>>

\* One of the checks fails, or the file cannot be written.
TrustFails(a) ==
    /\ pc[a] = "trusting"
    /\ Goto(a, "idle")
    /\ UNCHANGED <<known, pending, chain, hop, offered, seen, shown, tries, historyVars>>

\* The user removes a host's entries with ssh-keygen -R.
RemoveEntry(h) ==
    /\ known' = [known EXCEPT ![h] = {}]
    /\ UNCHANGED <<pending, attemptVars, historyVars>>

-----------------------------------------------------------------------------
Connecting(a) ==
    Start(a) \/ Fail(a) \/ VerifyAccepts(a) \/ VerifyRefuses(a) \/ Remember(a)

Dialog(a) ==
    LookFinds(a) \/ LookMisses(a) \/ Dismiss(a) \/ Confirm(a)
    \/ TrustLearns(a) \/ TrustFails(a)

Next ==
    \/ \E a \in Attempts : Connecting(a) \/ Dialog(a)
    \/ \E h \in Hosts : RemoveEntry(h)

Spec == Init /\ [][Next]_vars

-----------------------------------------------------------------------------
(* Properties.                                                              *)

\* Every key in known_hosts was there from the start or is one that the user
\* was shown for that very host and said to trust, although the pending key can
\* be replaced while the dialog is open (trust_pending_host_key).
OnlyConfirmedLearned ==
    \A h \in Hosts : \A k \in known[h] :
        k \in InitialKnown[h] \/ <<h, k>> \in confirmed

\* No connection, jump hosts included, gets past a server key that was neither
\* recorded from the start nor confirmed by the user: nothing is ever trusted
\* silently (verify_host_key).
NothingTrustedSilently ==
    \A p \in accepted : p[2] \in InitialKnown[p[1]] \/ p \in confirmed

\* A key recorded from the start is never joined by another: as long as the user
\* has not confirmed every key recorded for a host, nothing is added there, though
\* attempts and dialogs of the same host overlap and entries are removed in
\* between (remember_offered_key, trust_pending_host_key).  Once all of them are
\* confirmed a second one can be added: see ChangedNeverTrusted.
RecordedNeverJoined ==
    \A h \in Hosts : known[h] \subseteq InitialKnown[h]
                     \/ \A k \in known[h] : <<h, k>> \in confirmed

\* "A *changed* key is never trusted here: the old entry has to be removed
\* deliberately" (trust_pending_host_key): a key that is learned is the only one
\* recorded for its host.  The code does not keep this: whether a key is new or
\* changed is what known_hosts said when the key was refused, and another dialog
\* may record a key between the refusal and the confirmation.
ChangedNeverTrusted ==
    \A h \in Hosts : \A k \in known[h] \ InitialKnown[h] : known[h] = {k}
=============================================================================
