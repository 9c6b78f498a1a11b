---------------------------- MODULE MCRdpRuntime ----------------------------
(* RdpRuntime with two texts, a profile of each kind, and a file that says    *)
(* nothing of CredSSP.                                                        *)
EXTENDS RdpRuntime

CONSTANTS t1, t2

MCProfiles == {Profile(nla, user, FALSE, FALSE, "") : nla \in BOOLEAN, user \in {"me", "psm"}}
              \cup {Profile(TRUE, "me", TRUE, TRUE, "/share")}

MCFiles == {[user |-> "psm", key |-> "absent", value |-> 0, drives |-> 0, store |-> TRUE]}

\* The screen and the clipboard share nothing but the connection: sessions
\* with the clipboard get no screen updates here, the others get them all.
OneArm == "cliprdr" \in Channels(profile) => image' = 0 /\ drawable'

MCSpec == Init /\ [][Next /\ OneArm]_vars /\ Fairness
=============================================================================
