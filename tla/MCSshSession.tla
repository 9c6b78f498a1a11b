---------------------------- MODULE MCSshSession ----------------------------
(* SshSession with one session and three calls.  The calls are              *)
(* interchangeable, so one order of their operations stands for all, and    *)
(* a resize takes the same steps as an input.                               *)
EXTENDS SshSession

CONSTANTS s1, c1, c2, c3

OpRank == [input |-> 1, detect |-> 2, disconnect |-> 3]

OneOrder ==
    /\ \A c \in Callers : op[c] \in DOMAIN OpRank
    /\ OpRank[op[c1]] <= OpRank[op[c2]]
    /\ OpRank[op[c2]] <= OpRank[op[c3]]
    /\ op[c3] = "detect" => op[c2] # "detect"

MCInit == Init /\ OneOrder
MCSpec == MCInit /\ [][Next]_vars /\ Fairness
=============================================================================
