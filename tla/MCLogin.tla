------------------------------- MODULE MCLogin -------------------------------
(* The two phases of a connection attempt in which the user is asked, one at  *)
(* a time: host keys or keyboard-interactive rounds, for a target that is     *)
(* reached directly and through a jump host.                                  *)
EXTENDS HostKeys, KeyboardInteractive, TLC

CONSTANTS a1, a2, jump, target, k1, k2

VARIABLE phase  \* "keys" or "rounds"

\* The jump host is already known by one key, the target is new.
MCInitialKnown == [h \in Hosts |-> IF h = jump THEN {k1} ELSE {}]
MCChains == {<<target>>, <<jump, target>>}
AttemptSymmetry == Permutations(Attempts)

\* The phase that is not looked at stays as it was before any attempt.
MCInit ==
    /\ phase \in {"keys", "rounds"}
    /\ Init /\ KeyboardInit
    /\ chain = route

MCNext ==
    \/ phase = "keys" /\ Next /\ UNCHANGED <<phase, keyboardVars>>
    \/ phase = "rounds" /\ KeyboardNext /\ UNCHANGED <<phase, vars>>

MCSpec == MCInit /\ [][MCNext]_<<phase, vars, keyboardVars>>
=============================================================================
