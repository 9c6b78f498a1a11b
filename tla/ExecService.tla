----------------------------- MODULE ExecService -----------------------------
(***************************************************************************)
(* What an exec worker promises to those who send it commands: one command *)
(* is served at a time, in the order they were accepted, and each gets     *)
(* exactly one answer; once no more can come the worker serves what is     *)
(* left and stops.  SshSession uses the worker through this interface.     *)
(***************************************************************************)
EXTENDS Naturals, Sequences, Functions

CONSTANTS
    Requests,  \* the commands that may be sent
    Cap,       \* capacity of the exec channel
    Answers    \* what a caller may get

VARIABLES
    queue,     \* accepted commands that wait
    serving,   \* the command being served, or {}
    answers,   \* the answers given: <<command, answer>> in order
    closed,    \* no more commands can be sent
    stopped    \* the worker has ended

vars == <<queue, serving, answers, closed, stopped>>

Known == Range(queue) \cup serving \cup {answers[i][1] : i \in DOMAIN answers}

Init ==
    /\ queue = <<>>
    /\ serving = {}
    /\ answers = <<>>
    /\ closed = FALSE
    /\ stopped = FALSE

Submit(r) ==
    /\ ~closed
    /\ r \notin Known
    /\ Len(queue) < Cap
    /\ queue' = Append(queue, r)
    /\ UNCHANGED <<serving, answers, closed, stopped>>

Take ==
    /\ queue # <<>>
    /\ serving = {}
    /\ ~stopped
    /\ serving' = {Head(queue)}
    /\ queue' = Tail(queue)
    /\ UNCHANGED <<answers, closed, stopped>>

Reply(r, x) ==
    /\ serving = {r}
    /\ answers' = Append(answers, <<r, x>>)
    /\ serving' = {}
    /\ UNCHANGED <<queue, closed, stopped>>

Close ==
    /\ ~closed
    /\ closed' = TRUE
    /\ UNCHANGED <<queue, serving, answers, stopped>>

Stop ==
    /\ closed /\ queue = <<>> /\ serving = {} /\ ~stopped
    /\ stopped' = TRUE
    /\ UNCHANGED <<queue, serving, answers, closed>>

Serve == Take \/ (\E r \in Requests, x \in Answers : Reply(r, x)) \/ Stop

Next == Serve \/ Close \/ \E r \in Requests : Submit(r)

Spec == Init /\ [][Next]_vars /\ WF_vars(Serve)
=============================================================================
