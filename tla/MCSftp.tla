------------------------------- MODULE MCSftp -------------------------------
(* The two halves of an SFTP connection, one at a time: transfers of a file   *)
(* of two blocks that may be replaced by a version of one, or one call on the *)
(* server's file tree.                                                        *)
EXTENDS SftpTransfer, SftpTree

VARIABLE focus \* "transfers" or "tree"

MCSize == [v \in Versions |-> 3 - v]

-----------------------------------------------------------------------------
(* Two names, and what becomes of them when white space follows: the name     *)
(* "b " is trimmed to "b", and of the name " " nothing is left.               *)
Plain == {"a", "b"}
MCTrim == [n \in Names |-> CASE n = "b " -> "b" [] n = " " -> NoName [] OTHER -> n]
MCLogin == <<"a">>

PlainPaths == {p \in Paths : \A i \in DOMAIN p : p[i] \in Plain}

\* Trees of two levels over the plain names: a is anything, with links to the
\* top folders and to a place in b; b is a folder of files, or a file.
IntoB == Link(<<"b", "a">>)
Entries == {Dir("own"), File("text", "own"), Link(<<"a">>), Link(<<"b">>), IntoB}
PlainTrees ==
    {t \in UNION {[S \cup {Root} -> Entries] :
                     S \in SUBSET {p \in PlainPaths : Len(p) \in {1, 2}}} :
        /\ t[Root] = Dir("own")
        /\ \A p \in DOMAIN t \ {Root} : Is(t, Front(p), "dir")
        /\ \A p \in DOMAIN t : t[p] = IntoB => Len(p) = 2
        /\ \A p \in DOMAIN t : p # Root /\ p[1] = "b" =>
              (t[p].type = "file" \/ (p = <<"b">> /\ t[p].type = "dir"))
        /\ <<"a", "b">> \in DOMAIN t => t[<<"a", "b">>] \in {File("text", "own"), IntoB}}

\* Trees with files "b" and "b " side by side, at the top or in a folder, and
\* with a file " " in the folder.
Below(n) == IF n = "b" THEN File("text", "own") ELSE File("other", "own")
PaddedTrees ==
    {[p \in {Root, <<"a">>} \cup {<<n>> : n \in top} \cup {<<"a", n>> : n \in inA} |->
         IF p \in {Root, <<"a">>} THEN Dir("own") ELSE Below(Last(p))] :
        top \in SUBSET {"b", "b "}, inA \in SUBSET {"b", "b ", " "}}
MCTrees == PlainTrees \cup PaddedTrees

\* The paths calls are made with: all plain ones (the longest are no sources of
\* a copy), or those of a padded tree and a few others.  Of rename nothing is
\* claimed, and one new path is enough.
Given(op) ==
    IF DOMAIN fs \subseteq PlainPaths
    THEN {p \in PlainPaths : op = "copy" => Len(p) < MaxDepth}
    ELSE DOMAIN fs \cup {<<"b ">>, <<"a", "a">>, NoName}
GivenTo(op) == CASE op = "copy" -> Given("remove")
                 [] op = "rename" -> {<<"b">>}
                 [] OTHER -> {Root}

-----------------------------------------------------------------------------
MCInit ==
    \/ /\ focus = "transfers" /\ Init
       /\ fs = (Root :> Dir("own")) /\ before = fs /\ call = Idle
    \/ /\ focus = "tree" /\ TreeInit
       /\ kind = "download" /\ source = 1
       /\ conn = [c \in Conns |-> "new"] /\ job = [j \in Jobs |-> Blank("idle")]
       /\ name = [part |-> None, target |-> None]
       /\ file = [f \in Files |-> [data |-> <<>>, mode |-> "default"]]
       /\ changed = FALSE /\ overlap = FALSE

\* Of the three transfers the third follows only if no two ran at once: two
\* are enough for an overlap, three for attempt after attempt.
MCTransfers == Next /\ (overlap' => job'[MaxJobs].pc = "idle")

MCTree ==
    \/ \E op \in DOMAIN First :
          \E from \in Given(op), to \in GivenTo(op) : Begin(op, from, to)
    \/ Answers \/ Fails

MCNext ==
    \/ focus = "transfers" /\ MCTransfers /\ UNCHANGED <<treeVars, focus>>
    \/ focus = "tree" /\ MCTree /\ UNCHANGED <<vars, focus>>

MCSpec == MCInit /\ [][MCNext]_<<vars, treeVars, focus>>
===========================================================================
