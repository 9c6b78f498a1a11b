--------------------------- MODULE SessionLifecycle ---------------------------
(***************************************************************************)
(* What the session manager promises to the user interface: the life of a  *)
(* session as the status stream tells it, and whether API calls still find *)
(* it.  SshSession implements it.                                          *)
(***************************************************************************)
CONSTANT Sessions

VARIABLES
    phase,      \* last status announced for each session
    reachable   \* sessions an API call finds in the map

Phases == {"absent", "connecting", "connected", "disconnected", "error"}

Init ==
    /\ phase = [s \in Sessions |-> "absent"]
    /\ reachable = {}

Announce(s) ==
    /\ phase[s] = "absent"
    /\ phase' = [phase EXCEPT ![s] = "connecting"]
    /\ reachable' = reachable \cup {s}

Establish(s) ==
    /\ phase[s] = "connecting"
    /\ s \in reachable
    /\ phase' = [phase EXCEPT ![s] = "connected"]
    /\ UNCHANGED reachable

\* The session leaves the map before its end is announced.
Retire(s) ==
    /\ phase[s] \in {"connecting", "connected"}
    /\ s \in reachable
    /\ reachable' = reachable \ {s}
    /\ UNCHANGED phase

\* Only a session that was connected is ever announced as disconnected.
Finish(s) ==
    /\ s \notin reachable
    /\ \/ /\ phase[s] \in {"connecting", "connected"}
          /\ phase' = [phase EXCEPT ![s] = "error"]
       \/ /\ phase[s] = "connected"
          /\ phase' = [phase EXCEPT ![s] = "disconnected"]
    /\ UNCHANGED reachable

Next == \E s \in Sessions : Announce(s) \/ Establish(s) \/ Retire(s) \/ Finish(s)

Spec == Init /\ [][Next]_<<phase, reachable>>
=============================================================================
