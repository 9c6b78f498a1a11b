----------------------------- MODULE MCRdpSession -----------------------------
(* RdpSession with small sets of sessions, profiles and clients. *)
EXTENDS RdpSession, TLC

CONSTANTS s1, s2, s3, p1, p2, c1, c2

\* Ids are fresh uuids, clients are alike.
Symmetry == Permutations(Sessions) \cup Permutations(Clients)

\* What a call had in hand is gone when it has returned: states that differ in
\* nothing else are the same to every action and to every property of the run.
InUse(local) == [c \in Clients |-> IF At(c, "idle") THEN {} ELSE {local[c]}]
View == <<registry, tasks, cancelled, pc, InUse(prof), InUse(sid), todo, returned>>
=============================================================================
