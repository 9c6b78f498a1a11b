----------------------------- MODULE SftpTree -----------------------------
(* The file operations of an SFTP connection other than transfers           *)
(* (infrastructure/sftp_client.rs, api/sftp.rs): write, create, chmod,      *)
(* rename, and the recursive remove and copy, on the server's file tree.    *)
(*                                                                          *)
(* A call is a stack of requests to the server; each step makes the first,  *)
(* which may put others before the rest, as the recursion does.  The first  *)
(* error ends the call; so does a dropped connection, between any two       *)
(* requests.  One call is followed, from any of the Trees.                  *)
EXTENDS Integers, Sequences, FiniteSets, SequencesExt

CONSTANTS Names,     \* file names
          Trim,      \* Trim[n]: what is left of n when it ends a path
          NoName,    \* nothing: all of a name or of a path was white space
          Login,     \* the login folder
          MaxDepth,  \* the longest path the server accepts
          Trees      \* the trees the server may hold before the call

VARIABLES fs,      \* the server's tree: what is at each path
          call,    \* the call, with the requests it still has to make
          before   \* the tree when the call began

treeVars == <<fs, call, before>>

Root == <<>>
Paths == UNION {[1..n -> Names] : n \in 0..MaxDepth}

ASSUME NamesAssumption ==
    Trim \in [Names -> Names \cup {NoName}] /\ NoName \notin Names \cup Paths /\ Login \in Paths

\* What a path names; to is where a symbolic link points.
Node(type, data, mode, to) == [type |-> type, data |-> data, mode |-> mode, to |-> to]
Dir(mode) == Node("dir", "none", mode, Root)
File(data, mode) == Node("file", data, mode, Root)
Link(to) == Node("link", "none", "any", to)

--------------------------------------------------------------------------
(* The server.                                                              *)

\* A path with its first symbolic link replaced by where the link points.
Follow(tree, p) ==
    LET links == {i \in 1..Len(p) : SubSeq(p, 1, i) \in DOMAIN tree
                                    /\ tree[SubSeq(p, 1, i)].type = "link"}
        first == CHOOSE i \in links : \A k \in links : i <= k
    IN IF links = {} THEN p
       ELSE tree[SubSeq(p, 1, first)].to \o SubSeq(p, first + 1, Len(p))

\* The path without links: canonicalize, and what a call that follows links
\* acts on.  A loop of links is never resolved and names nothing.
Real(tree, p) ==
    LET after[n \in 0..MaxDepth] == IF n = 0 THEN p ELSE Follow(tree, after[n - 1])
    IN after[MaxDepth]

\* What a call that does not follow the last link acts on.
LReal(tree, p) == IF p = Root THEN p ELSE Append(Real(tree, Front(p)), Last(p))

Exists(tree, p) == p \in DOMAIN tree
Is(tree, p, type) == Exists(tree, p) /\ tree[p].type = type
Children(tree, p) == {n \in Names : Exists(tree, Append(p, n))}
Under(dir, p) == IsPrefix(dir, p)

\* A new entry needs a free name in a folder.
CanCreate(tree, p) ==
    p # Root /\ Len(p) <= MaxDepth /\ ~Exists(tree, p) /\ Is(tree, Front(p), "dir")

\* What a server's tree is: entries are in folders, up to the root.
IsTree(t) ==
    /\ Root \in DOMAIN t /\ DOMAIN t \subseteq Paths
    /\ Is(t, Root, "dir")
    /\ \A p \in DOMAIN t :
          /\ \/ t[p] = Dir(t[p].mode)
             \/ t[p] = File(t[p].data, t[p].mode)
             \/ t[p] = Link(t[p].to) /\ t[p].to \in Paths
          /\ p # Root => Is(t, Front(p), "dir")

TreesOK == MaxDepth \in Nat /\ IsFiniteSet(Names) /\ \A t \in Trees : IsTree(t)

ASSUME TreesAssumption == TreesOK

--------------------------------------------------------------------------
(* Calls.                                                                   *)

Request(op, from, to, mode) == [op |-> op, from |-> from, to |-> to, mode |-> mode]
Req(op, from) == Request(op, from, Root, "any")

Idle == [op |-> "none", from |-> Root, to |-> Root, result |-> "none", todo |-> <<>>]
Busy == call.result = "busy"

\* The first request of every operation.
First == [write |-> "truncate", create_dir |-> "mkdir", create_file |-> "exclusive",
          chmod |-> "chmod", rename |-> "rename", remove |-> "resolve", copy |-> "stat"]

\* remote_path: a blank path is the login folder, like "~", and white space at
\* the end of a path is trimmed, though a name may end in it; of a name that is
\* nothing else its folder is left.  (Paths here are from the root.)
Named == Paths \cup {NoName}
Trimmed(path) ==
    LET n == Trim[Last(path)]
    IN IF path = Root THEN Root
       ELSE IF n = NoName THEN Front(path) ELSE Append(Front(path), n)
RemotePath(path) == IF path = NoName THEN Login ELSE Trimmed(path)

\* A call keeps the paths it was given and asks for what remote_path makes
\* of them.
Begin(op, from, to) ==
    /\ call = Idle
    /\ to # Root => op \in {"rename", "copy"}
    /\ call' = [op |-> op, from |-> from, to |-> to, result |-> "busy",
                todo |-> << Request(First[op], RemotePath(from), RemotePath(to), "new") >>]
    /\ UNCHANGED <<fs, before>>

\* A request that succeeds: the tree afterwards, and the requests it leads to.
Does(tree, more) ==
    LET todo == more \o Tail(call.todo)
    IN /\ fs' = tree
       /\ call' = [call EXCEPT !.todo = todo,
                               !.result = IF todo = <<>> THEN "ok" ELSE "busy"]
       /\ UNCHANGED before

\* The server refuses a request, or the connection drops.
Fails ==
    /\ Busy
    /\ call' = [call EXCEPT !.result = "failed", !.todo = <<>>]
    /\ UNCHANGED <<fs, before>>

Now(op) == Busy /\ Head(call.todo).op = op
Asked == Head(call.todo)

\* fs with the node at p put there or replaced, and without the paths in S.
With(p, node) == [q \in DOMAIN fs \cup {p} |-> IF q = p THEN node ELSE fs[q]]
Without(S) == [q \in DOMAIN fs \ S |-> fs[q]]

\* write: the file is emptied or created, then written.
Truncate ==
    LET p == Real(fs, Asked.from)
    IN /\ Now("truncate")
       /\ Is(fs, p, "file") \/ CanCreate(fs, p)
       /\ Does(With(p, File("empty", IF Exists(fs, p) THEN fs[p].mode ELSE "default")),
               << Req("store", Asked.from) >>)

Store ==
    LET p == Real(fs, Asked.from)
    IN Now("store") /\ Does(With(p, [fs[p] EXCEPT !.data = "new"]), <<>>)

\* create_dir on its own, and the first half of copying a folder.
Mkdir ==
    /\ Now("mkdir")
    /\ LET p == LReal(fs, IF call.op = "copy" THEN Asked.to ELSE Asked.from)
       IN /\ CanCreate(fs, p)
          /\ Does(With(p, Dir("default")),
                  IF call.op = "copy" THEN << [Asked EXCEPT !.op = "list"] >> ELSE <<>>)

\* create_file: CREATE with EXCLUDE never opens what exists.
CreateFile ==
    /\ Now("exclusive")
    /\ CanCreate(fs, LReal(fs, Asked.from))
    /\ Does(With(LReal(fs, Asked.from), File("empty", "default")), <<>>)

\* chmod, and keep_mode at the end of a copy.
Chmod ==
    LET p == Real(fs, Asked.from)
    IN /\ Now("chmod")
       /\ Exists(fs, p)
       /\ Does(With(p, [fs[p] EXCEPT !.mode = Asked.mode]), <<>>)

\* rename moves what is below as well, and refuses to overwrite.
RenameEntry ==
    LET p == LReal(fs, Asked.from)
        q == LReal(fs, Asked.to)
        moved == {r \in DOMAIN fs : Under(p, r)}
        Back(r) == p \o SubSeq(r, Len(q) + 1, Len(r))
    IN /\ Now("rename")
       /\ Exists(fs, p) /\ CanCreate(fs, q) /\ ~Under(p, q)
       /\ \A r \in moved : Len(q) + Len(r) - Len(p) <= MaxDepth
       /\ Does([r \in (DOMAIN fs \ moved)
                        \cup {q \o SubSeq(m, Len(p) + 1, Len(m)) : m \in moved} |->
                    IF Under(q, r) THEN fs[Back(r)] ELSE fs[r]], <<>>)

\* resolve: the server's canonical form of a path, every link followed.
Canonical(path) == Real(fs, path)

\* remove begins with resolve, and refuses the root.
Resolve ==
    LET p == Canonical(Asked.from)
    IN /\ Now("resolve")
       /\ Exists(fs, p) /\ p # Root
       /\ Does(fs, << Req("lstat", p) >>)

\* Mutant: metadata instead of symlink_metadata.
RemoveResolved_Follows ==
    LET p == Real(fs, Asked.from)
    IN /\ Now("lstat") /\ Exists(fs, p)
       /\ Does(fs, << Req(IF fs[p].type = "dir" THEN "empty" ELSE "unlink", Asked.from) >>)

\* remove_resolved: symlink_metadata does not follow a link, so a link is
\* unlinked like a file.
RemoveResolved ==
    LET p == LReal(fs, Asked.from)
    IN /\ Now("lstat")
       /\ Exists(fs, p)
       /\ Does(fs, << Req(IF fs[p].type = "dir" THEN "empty" ELSE "unlink", Asked.from) >>)

Unlink ==
    LET p == LReal(fs, Asked.from)
    IN /\ Now("unlink")
       /\ Exists(fs, p) /\ ~Is(fs, p, "dir")
       /\ Does(Without({p}), <<>>)

\* read_dir follows links; the entries come in any order.
Empty ==
    /\ Now("empty")
    /\ \E s \in SetToSeqs(Children(fs, Real(fs, Asked.from))) :
          Does(fs, [i \in 1..Len(s) |-> Req("lstat", Append(Asked.from, s[i]))]
                   \o << Req("rmdir", Asked.from) >>)

Rmdir ==
    LET p == LReal(fs, Asked.from)
    IN /\ Now("rmdir")
       /\ Is(fs, p, "dir") /\ Children(fs, p) = {}
       /\ Does(Without({p}), <<>>)

\* copy: metadata follows a link, so that its target is what is copied.
Metadata ==
    LET p == Real(fs, Asked.from)
    IN /\ Now("stat")
       /\ Exists(fs, p) /\ fs[p].type # "link"
       /\ Does(fs, << Request(IF fs[p].type = "dir" THEN "mkdir" ELSE "create",
                              Asked.from, Asked.to, fs[p].mode) >>)

\* Each entry is copied by a call of copy, which trims its paths again.
List ==
    /\ Now("list")
    /\ \E s \in SetToSeqs(Children(fs, Real(fs, Asked.from))) :
          Does(fs, [i \in 1..Len(s) |-> Request("stat", Trimmed(Append(Asked.from, s[i])),
                                                Trimmed(Append(Asked.to, s[i])), "any")]
                   \o << Request("chmod", Asked.to, Root, Asked.mode) >>)

\* Mutant: TRUNCATE instead of EXCLUDE.
Create_Truncates ==
    LET p == Real(fs, Asked.to)
    IN /\ Now("create")
       /\ CanCreate(fs, p) \/ Is(fs, p, "file")
       /\ Does(With(p, File("empty", "default")),
               << [Asked EXCEPT !.op = "fill"], Request("chmod", Asked.to, Root, Asked.mode) >>)

\* The copy is a new file, or the call fails; then its bytes, then its mode.
Create ==
    LET p == LReal(fs, Asked.to)
    IN /\ Now("create")
       /\ CanCreate(fs, p)
       /\ Does(With(p, File("empty", "default")),
               << [Asked EXCEPT !.op = "fill"], Request("chmod", Asked.to, Root, Asked.mode) >>)

Fill ==
    LET p == Real(fs, Asked.to)
    IN /\ Now("fill")
       /\ Does(With(p, [fs[p] EXCEPT !.data = fs[Real(fs, Asked.from)].data]), <<>>)

TreeInit == fs \in Trees /\ call = Idle /\ before = fs

\* The answer to the first request.
Answers ==
    \/ Truncate \/ Store \/ Mkdir \/ CreateFile \/ Chmod \/ RenameEntry \/ Resolve
    \/ RemoveResolved \/ Unlink \/ Empty \/ Rmdir \/ Metadata \/ List \/ Create \/ Fill

TreeNext ==
    \/ \E op \in DOMAIN First, from, to \in Named : Begin(op, from, to)
    \/ Answers \/ Fails

TreeSpec == TreeInit /\ [][TreeNext]_treeVars

--------------------------------------------------------------------------
(* Properties.                                                              *)

\* What a call works on, which is what it was given unless that ends in white
\* space: of the entries list shows, "x " is then taken for its neighbour "x",
\* and " " for the folder it is in.
Source == RemotePath(call.from)
Target == RemotePath(call.to)

\* Removing a folder takes nothing from outside it, though links in it lead
\* outside, and whether or not the removal is cut short; it leaves no entry
\* without its folder, and nothing at all of it if it reports success.  The
\* folder is Source, which is not what was named if that ends in white space;
\* what the recursion finds in it is taken under its own name.
RemoveExact ==
    call.op = "remove" =>
        /\ \A p \in DOMAIN before :
              Under(Real(before, Source), p) \/ (Exists(fs, p) /\ fs[p] = before[p])
        /\ \A p \in DOMAIN fs \ {Root} : Is(fs, Front(p), "dir")
        /\ call.result = "ok" => ~ \E p \in DOMAIN fs : Under(Real(before, Source), p)

\* A link below the source of a copy that leads to where the copy goes, and so
\* led nowhere before: the order of the entries decides what it finds there.
LeadsIntoCopy ==
    \E s \in Paths : LET p == Source \o s
                    IN /\ Is(before, LReal(before, p), "link")
                       /\ Under(LReal(before, Target), Real(before, p))

\* A copy changes nothing that was there, even one that is cut short, that
\* meets a name already taken, or whose target lies inside its source.  One
\* that reports success holds, below its target, what could be read below the
\* source, links replaced by what they lead to, and nothing else (unless a
\* link LeadsIntoCopy).  Source and Target are not what was named if that ends
\* in white space; an entry below the source whose name does cannot be copied,
\* and no copy that meets one reports success.
CopyExact ==
    call.op = "copy" =>
        /\ \A p \in DOMAIN before : Exists(fs, p) /\ fs[p] = before[p]
        /\ call.result = "ok" /\ ~LeadsIntoCopy =>
              \A s \in Paths :
                  LET p == Real(before, Source \o s)
                      q == LReal(fs, Target) \o s
                  IN /\ Exists(before, p) <=> Exists(fs, q)
                     /\ Exists(fs, q) => fs[q] = before[p]

\* The comment on remove: a link is removed itself, never followed.
LinkRemovedItself ==
    call.op = "remove" /\ call.result = "ok" /\ Is(before, LReal(before, Source), "link") =>
        DOMAIN fs = DOMAIN before \ {LReal(before, Source)}

==========================================================================
