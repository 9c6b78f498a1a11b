--------------------------- MODULE SftpTransfer ---------------------------
(* Resumable downloads and uploads of portix_serv                           *)
(* (infrastructure/sftp_client.rs, application/sftp_manager.rs,             *)
(* api/sftp.rs).                                                            *)
(*                                                                          *)
(* One file is transferred, again and again: a Job is one call of           *)
(* sftp_download or sftp_upload, on one of the manager's connections.  A    *)
(* job writes to the part file next to the target and, once it has read the *)
(* whole source, puts the part in the target's place; a job that fails or   *)
(* is cancelled leaves the part for the next one.  Every file system call   *)
(* is a step, so that jobs, dropped connections, cancellation and changes   *)
(* of the source fall between any two of them.                              *)
(*                                                                          *)
(* File contents are sequences of blocks of TRANSFER_BUFFER bytes.  Names   *)
(* and files are kept apart, as in a file system: a job writes to the file  *)
(* it opened, whatever has become of its name.                              *)
EXTENDS Integers, Sequences, FiniteSets

CONSTANTS MaxJobs,   \* bound on the calls, numbered in the order they begin
          MaxAtOnce, \* bound on the calls under way at once
          MaxConns,  \* bound on the connections, numbered the same way
          Versions,  \* contents the source takes over time
          Size,      \* Size[v]: blocks of version v
          None       \* no file, no connection

ASSUME SizeAssumption == Versions \subseteq Nat \ {0} /\ Size \in [Versions -> Nat]
ASSUME BoundsAssumption == {MaxJobs, MaxAtOnce, MaxConns} \subseteq Nat /\ None \notin Nat

VARIABLES kind,     \* "download" or "upload", for all of a behaviour's jobs
          conn,     \* per id: not connected, in the map, leaving it, gone
          job,      \* per call: where it is and what it has read so far
          source,   \* the version the source now holds
          name,     \* which file "part" and "target" name
          file,     \* the files: contents and permissions
          changed,  \* the source changed while part of it was transferred
          overlap   \* two jobs were under way at once

vars == <<kind, conn, job, source, name, file, changed, overlap>>

Jobs == 1..MaxJobs
Conns == 1..MaxConns

\* A file is named after the job that created it; Old was the target before.
Old == 0
Files == Jobs \cup {Old}

\* A block is known by the version it belongs to and its place in it.
Content(v) == [i \in 1..Size[v] |-> <<v, i>>]
OldContent == << <<0, 1>> >>
Hole == <<0, 0>>

Ended == {"done", "failed", "cancelled"}
Active(j) == job[j].pc \notin {"idle"} \cup Ended

\* A call on the server needs the job's own connection.
Live(j) == conn[job[j].conn] \in {"open", "closing"}

Blank(pc) == [pc |-> pc, conn |-> None, total |-> 0, done |-> 0,
              append |-> FALSE, file |-> None, mode |-> None]

Init ==
    /\ kind \in {"download", "upload"}
    /\ conn = [c \in Conns |-> "new"]
    /\ job = [j \in Jobs |-> Blank("idle")]
    /\ source \in Versions
    /\ \E t \in {None, Old} :
         /\ name = [part |-> None, target |-> t]
         /\ file = [f \in Files |-> IF f = t THEN [data |-> OldContent, mode |-> "kept"]
                                             ELSE [data |-> <<>>, mode |-> "default"]]
    /\ changed = FALSE
    /\ overlap = FALSE

--------------------------------------------------------------------------
(* The manager's connections.                                               *)

\* SftpManager::connect and SftpConnection::open: the id is in the map once
\* the sftp subsystem answers; a connect that fails changes nothing.
Connect(c) ==
    /\ conn[c] = "new"
    /\ \A d \in 1..(c - 1) : conn[d] # "new"
    /\ conn' = [conn EXCEPT ![c] = "open"]
    /\ UNCHANGED <<kind, job, source, name, file, changed, overlap>>

\* The network drops the connection.  The map may still hold it, but get and
\* is_alive find it closed, forget it and fail, as for an id not in the map.
Drop(c) ==
    /\ conn[c] = "open"
    /\ conn' = [conn EXCEPT ![c] = "gone"]
    /\ UNCHANGED <<kind, job, source, name, file, changed, overlap>>

\* disconnect takes it out of the map; its jobs go on until it is closed.
Disconnect(c) ==
    /\ conn[c] = "open"
    /\ conn' = [conn EXCEPT ![c] = "closing"]
    /\ UNCHANGED <<kind, job, source, name, file, changed, overlap>>

Close(c) ==
    /\ conn[c] = "closing"
    /\ conn' = [conn EXCEPT ![c] = "gone"]
    /\ UNCHANGED <<kind, job, source, name, file, changed, overlap>>

--------------------------------------------------------------------------
(* One transfer.                                                            *)

Move(j, pc) == job' = [job EXCEPT ![j].pc = pc]
End(j, pc) == job' = [job EXCEPT ![j] = Blank(pc)]

\* What get gives the call: the connection, or an error.
Get(c) == IF conn[c] = "open" THEN [Blank("stat") EXCEPT !.conn = c] ELSE Blank("failed")

\* sftp_download and sftp_upload begin with get.
Start(j, c) ==
    /\ job[j].pc = "idle"
    /\ \A k \in 1..(j - 1) : job[k].pc # "idle"
    /\ Cardinality({k \in Jobs : Active(k)}) < MaxAtOnce
    /\ conn[c] # "new"
    /\ job' = [job EXCEPT ![j] = Get(c)]
    /\ overlap' = (overlap \/ (conn[c] = "open" /\ \E k \in Jobs : Active(k)))
    /\ UNCHANGED <<kind, conn, source, name, file, changed>>

\* The size of the source: a call on the server, or a local one.
Stat(j) ==
    /\ job[j].pc = "stat"
    /\ kind = "download" => Live(j)
    /\ job' = [job EXCEPT ![j].pc = "resume", ![j].total = Size[source]]
    /\ UNCHANGED <<kind, conn, source, name, file, changed, overlap>>

\* Mutant: a part as long as the source is begun anew.
ResumeOffset_Strict(part, total) ==
    IF part # None /\ Len(file[part].data) < total THEN Len(file[part].data) ELSE 0

\* resume_offset: a part is trusted by its size alone.
ResumeOffset(part, total) ==
    IF part # None /\ Len(file[part].data) <= total THEN Len(file[part].data) ELSE 0

\* A stat that fails counts as no part.
ReadPart(j) ==
    LET part == IF kind = "upload" /\ ~Live(j) THEN None ELSE name.part
    IN /\ job[j].pc = "resume"
       /\ job' = [job EXCEPT ![j].pc = "open",
                             ![j].done = ResumeOffset(part, job[j].total)]
       /\ UNCHANGED <<kind, conn, source, name, file, changed, overlap>>

\* Both files are opened at the offset; the part is created if it is not
\* there and emptied if nothing of it is kept.  A local part that is resumed
\* is opened for appending, a remote one is written at the offset.
OpenPart(j) ==
    LET f == IF name.part = None THEN j ELSE name.part
        fresh == job[j].done = 0
    IN /\ job[j].pc = "open"
       /\ Live(j)
       /\ name' = [name EXCEPT !.part = f]
       /\ file' = [file EXCEPT ![f].data = IF fresh THEN <<>> ELSE @]
       /\ job' = [job EXCEPT ![j].pc = "copy", ![j].file = f,
                             ![j].append = kind = "download" /\ ~fresh]
       /\ UNCHANGED <<kind, conn, source, changed, overlap>>

\* A write at an offset beyond the end leaves a hole.
WriteAt(data, offset, block) ==
    [i \in 1..(IF offset + 1 > Len(data) THEN offset + 1 ELSE Len(data)) |->
        IF i = offset + 1 THEN block ELSE IF i <= Len(data) THEN data[i] ELSE Hole]

\* One turn of copy_with_progress that reads a block and writes it.
CopyBlock(j) ==
    LET offset == job[j].done
        old == file[job[j].file].data
        block == Content(source)[offset + 1]
    IN /\ job[j].pc = "copy"
       /\ Live(j)
       /\ offset < Size[source]
       /\ file' = [file EXCEPT ![job[j].file].data =
                       IF job[j].append THEN Append(old, block)
                                        ELSE WriteAt(old, offset, block)]
       /\ job' = [job EXCEPT ![j].done = @ + 1]
       /\ UNCHANGED <<kind, conn, source, name, changed, overlap>>

\* Mutant: a read that fails counts as the end.
EndOfSource_OnError(j) ==
    /\ job[j].pc = "copy"
    /\ Move(j, IF kind = "download" THEN "rename" ELSE "replace")
    /\ UNCHANGED <<kind, conn, source, name, file, changed, overlap>>

\* A read of nothing ends the copy, however many bytes that makes.
EndOfSource(j) ==
    /\ job[j].pc = "copy"
    /\ Live(j)
    /\ job[j].done >= Size[source]
    /\ Move(j, IF kind = "download" THEN "rename" ELSE "replace")
    /\ UNCHANGED <<kind, conn, source, name, file, changed, overlap>>

\* The app cancelled its subscription, which the next progress report finds
\* out; the part keeps what was written.
Cancel(j) ==
    /\ job[j].pc = "copy"
    /\ End(j, "cancelled")
    /\ UNCHANGED <<kind, conn, source, name, file, changed, overlap>>

\* Mutant: the permissions are not carried over.
StatTarget_NoMode(j) ==
    /\ job[j].pc = "replace"
    /\ Move(j, IF Live(j) /\ name.target # None THEN "remove" ELSE "rename")
    /\ UNCHANGED <<kind, conn, source, name, file, changed, overlap>>

\* upload: if the stat finds something in the target's place, its
\* permissions are kept and it is removed.
StatTarget(j) ==
    LET found == Live(j) /\ name.target # None
    IN /\ job[j].pc = "replace"
       /\ job' = [job EXCEPT ![j].pc = IF found THEN "chmod" ELSE "rename",
                             ![j].mode = IF found THEN file[name.target].mode ELSE @]
       /\ UNCHANGED <<kind, conn, source, name, file, changed, overlap>>

\* keep_mode on the part.
KeepMode(j) ==
    /\ job[j].pc = "chmod"
    /\ Live(j)
    /\ name.part # None
    /\ file' = [file EXCEPT ![name.part].mode = job[j].mode]
    /\ Move(j, "remove")
    /\ UNCHANGED <<kind, conn, source, name, changed, overlap>>

\* The old file goes first: SFTP v3 rename refuses to overwrite.
RemoveTarget(j) ==
    /\ job[j].pc = "remove"
    /\ Live(j)
    /\ name.target # None
    /\ name' = [name EXCEPT !.target = None]
    /\ Move(j, "rename")
    /\ UNCHANGED <<kind, conn, source, file, changed, overlap>>

\* What a rename to the target needs: the server's, that nothing is there.
CanRename(j) ==
    name.part # None /\ (kind = "upload" => Live(j) /\ name.target = None)

Rename(j) ==
    /\ job[j].pc = "rename"
    /\ CanRename(j)
    /\ name' = [part |-> None, target |-> name.part]
    /\ End(j, "done")
    /\ UNCHANGED <<kind, conn, source, file, changed, overlap>>

\* Any call fails on a connection that is gone, and those on a name that
\* another job took away; the error ends the stream.
Fail(j) ==
    /\ Active(j)
    /\ \/ job[j].pc = "stat" /\ kind = "download" /\ ~Live(j)
       \/ job[j].pc \in {"open", "copy"} /\ ~Live(j)
       \/ job[j].pc = "chmod" /\ (~Live(j) \/ name.part = None)
       \/ job[j].pc = "remove" /\ (~Live(j) \/ name.target = None)
       \/ job[j].pc = "rename" /\ ~CanRename(j)
    /\ End(j, "failed")
    /\ UNCHANGED <<kind, conn, source, name, file, changed, overlap>>

\* Somebody writes a new version of the source.
ChangeSource(v) ==
    /\ v > source
    /\ source' = v
    /\ changed' = (changed \/ name.part # None \/ \E j \in Jobs : Active(j))
    /\ UNCHANGED <<kind, conn, job, name, file, overlap>>

Step(j) == \/ Stat(j) \/ ReadPart(j) \/ OpenPart(j) \/ CopyBlock(j) \/ EndOfSource(j)
           \/ StatTarget(j) \/ KeepMode(j) \/ RemoveTarget(j) \/ Rename(j) \/ Fail(j)

Next ==
    \/ \E c \in Conns : Connect(c) \/ Drop(c) \/ Disconnect(c) \/ Close(c)
    \/ \E j \in Jobs : Step(j) \/ Cancel(j) \/ \E c \in Conns : Start(j, c)
    \/ \E v \in Versions : ChangeSource(v)

Spec == Init /\ [][Next]_vars

--------------------------------------------------------------------------
(* Properties.                                                              *)

Whole(f) == f # None /\ file[f].data \in {OldContent} \cup {Content(v) : v \in Versions}
HadTarget == file[Old].data # <<>>
Undisturbed == ~changed /\ ~overlap

\* However often a transfer is dropped, cancelled and resumed, its target is
\* the file that was there or a whole version of the source, never part of
\* one or two mixed.  An upload that replaces a file cannot lose it: when the
\* old file has been removed and the new one is not yet renamed, as after a
\* drop between the two calls, the part holds the whole source for the next
\* attempt.  (Unless the source changed under a part, which the comment on
\* resume_offset concedes, or two transfers ran at once, which nothing in the
\* code prevents: a part is trusted by its size, and shared.)
TargetSafe ==
    Undisturbed =>
        \/ Whole(name.target)
        \/ name.target = None /\ ~HadTarget
        \/ name.target = None /\ name.part # None /\ file[name.part].data = Content(source)

\* A replaced file's permissions survive, whichever attempt completes the
\* upload and however the earlier ones ended, unless transfers overlap.
ModeKept ==
    kind = "upload" /\ HadTarget /\ ~overlap /\ name.target # None =>
        file[name.target].mode = "kept"

\* A transfer that reports success has delivered what the source holds, as
\* long as the source never changed while there was a part of it, and no two
\* transfers ran at once: then a part of another content, or two writers of
\* one part, can make it report success for a file that is neither.
DoneDelivers ==
    [][\A j \in Jobs :
          job[j].pc # "done" /\ job'[j].pc = "done" /\ Undisturbed =>
              file[name'.target].data = Content(source)]_vars

==========================================================================
