------------------------------- MODULE Sftp_proofs -------------------------------
(***************************************************************************)
(* Proofs about the SFTP models.  First SftpTransfer, for any number of    *)
(* calls and connections, any number of calls under way at once and every  *)
(* set of versions and sizes; then SftpTree, for every set of names, every *)
(* longest path and every tree a server may hold.                          *)
(***************************************************************************)
EXTENDS SftpTransfer, SftpTree, SequenceTheorems, FiniteSetTheorems, WellFoundedInduction,
        TLAPS


-----------------------------------------------------------------------------
(* The base: types, what a job under way has, and which files are apart.    *)

Mode == {"kept", "default"}
Block == Nat \X Nat
Working == {"stat", "resume", "open", "copy", "replace", "chmod", "remove", "rename"}
JobType == [pc : {"idle"} \cup Working \cup Ended, conn : Conns \cup {None},
            total : Nat, done : Nat, append : BOOLEAN,
            file : Files \cup {None}, mode : Mode \cup {None}]

TransferType ==
    /\ conn \in [Conns -> {"new", "open", "closing", "gone"}]
    /\ job \in [Jobs -> JobType]
    /\ source \in Versions
    /\ name \in [part : Jobs \cup {None}, target : Files \cup {None}]
    /\ file \in [Files -> [data : Seq(Block), mode : Mode]]
    /\ changed \in BOOLEAN
    /\ overlap \in BOOLEAN

\* What a job under way has: a connection that was opened, the file it copies
\* to, the mode it carries over.
Equipped(j) ==
    /\ job[j].pc \in Working => job[j].conn \in Conns /\ conn[job[j].conn] # "new"
    /\ job[j].pc = "copy" => job[j].file \in Jobs
    /\ job[j].pc = "chmod" => job[j].mode \in Mode

\* A job that has not opened the part has not created a file, and the part is
\* never the target.
Apart ==
    /\ name.part # None => name.part # name.target
    /\ \A j \in Jobs : job[j].pc \in {"idle", "stat", "resume", "open"} =>
                          j # name.part /\ j # name.target

\* As long as no two jobs were under way at once, there is only one.
Alone == ~overlap => \A j, k \in Jobs : Active(j) /\ Active(k) => j = k

BaseInv == TransferType /\ (\A j \in Jobs : Equipped(j)) /\ Apart /\ Alone


\* The constants.
LEMMA Numbers ==
    /\ MaxJobs \in Nat /\ MaxConns \in Nat
    /\ Jobs \subseteq Nat \ {0} /\ Jobs \subseteq Files
    /\ Old \in Files /\ Old \notin Jobs /\ None \notin Files /\ None # Old
  BY BoundsAssumption DEF Jobs, Files, Old

\* A job that is under way.
LEMMA ActiveIsWorking ==
    ASSUME NEW j \in Jobs, job \in [Jobs -> JobType]
    PROVE  Active(j) <=> job[j].pc \in Working
  <1>1. job[j].pc \in {"idle"} \cup Working \cup Ended
    BY DEF JobType
  <1> QED
    BY <1>1 DEF Active, Working, Ended

\* A job that begins or ends holds nothing.
LEMMA BlankType ==
    ASSUME NEW pc \in {"idle"} \cup Working \cup Ended
    PROVE  Blank(pc) \in JobType /\ Blank(pc).pc = pc
  BY DEF Blank, JobType

\* A write keeps the file a sequence of blocks.
LEMMA WriteType ==
    ASSUME NEW d \in Seq(Block), NEW o \in Nat, NEW b \in Block
    PROVE  WriteAt(d, o, b) \in Seq(Block)
  <1> DEFINE n == IF o + 1 > Len(d) THEN o + 1 ELSE Len(d)
             w == [i \in 1 .. n |-> IF i = o + 1 THEN b ELSE IF i <= Len(d) THEN d[i] ELSE Hole]
  <1>1. n \in Nat
    OBVIOUS
  <1>2. Hole \in Block
    BY DEF Hole, Block
  <1> HIDE DEF n
  <1>3. ASSUME NEW i \in 1 .. n
        PROVE  (IF i = o + 1 THEN b ELSE IF i <= Len(d) THEN d[i] ELSE Hole) \in Block
    <2>1. i <= Len(d) => d[i] \in Block
      BY <1>1
    <2> QED
      BY <1>2, <2>1
  <1>4. w \in [1 .. n -> Block]
    BY <1>3
  <1>5. w \in Seq(Block)
    BY <1>1, <1>4
  <1> QED
    BY <1>5 DEF WriteAt, n

-----------------------------------------------------------------------------
(* What each step does to the job that takes it.                            *)

\* Only job j moves.
OnlyMoves(j) ==
    /\ job' \in [Jobs -> JobType]
    /\ \A k \in Jobs \ {j} : job'[k] = job[k]

\* The job ends and lets go of everything.
LEMMA EndEffect ==
    ASSUME job \in [Jobs -> JobType], NEW j \in Jobs, NEW pc \in Ended, End(j, pc)
    PROVE  OnlyMoves(j) /\ job'[j].pc = pc
  <1>1. Blank(pc) \in JobType /\ Blank(pc).pc = pc
    BY BlankType
  <1> QED
    BY <1>1 DEF End, OnlyMoves

\* The job goes on to another point and keeps what it has.
LEMMA MoveEffect ==
    ASSUME job \in [Jobs -> JobType], NEW j \in Jobs, NEW pc \in Working, Move(j, pc)
    PROVE  /\ OnlyMoves(j) /\ job'[j].pc = pc
           /\ job'[j].conn = job[j].conn /\ job'[j].mode = job[j].mode
  <1>1. job[j] \in JobType /\ job' = [job EXCEPT ![j] = [job[j] EXCEPT !.pc = pc]]
    BY DEF Move
  <1>2. [job[j] EXCEPT !.pc = pc] \in JobType
    BY <1>1 DEF JobType
  <1>3. OnlyMoves(j) /\ job'[j] = [job[j] EXCEPT !.pc = pc]
    BY <1>1, <1>2 DEF OnlyMoves
  <1> QED
    BY <1>1, <1>3 DEF JobType

\* The size of the source becomes the total.
LEMMA StatEffect ==
    ASSUME TransferType, NEW j \in Jobs, Stat(j)
    PROVE  /\ OnlyMoves(j) /\ job[j].pc = "stat" /\ job'[j].pc = "resume"
           /\ job'[j].total = Size[source] /\ job'[j].conn = job[j].conn
  <1> DEFINE r == [job[j] EXCEPT !.pc = "resume", !.total = Size[source]]
  <1>1. job \in [Jobs -> JobType] /\ job[j] \in JobType /\ Size[source] \in Nat
    BY SizeAssumption DEF TransferType
  <1>2. job[j].pc = "stat" /\ job' = [job EXCEPT ![j] = r]
    BY <1>1 DEF Stat
  <1>3. /\ r \in JobType /\ r.pc = "resume" /\ r.total = Size[source]
        /\ r.conn = job[j].conn
    BY <1>1 DEF JobType, Working
  <1> HIDE DEF r
  <1> QED
    BY <1>1, <1>2, <1>3 DEF OnlyMoves

\* The job will resume at the offset the part gives.
LEMMA ReadEffect ==
    ASSUME TransferType, NEW j \in Jobs, ReadPart(j)
    PROVE  /\ OnlyMoves(j) /\ job[j].pc = "resume" /\ job'[j].pc = "open"
           /\ job'[j].conn = job[j].conn
           /\ job'[j].done = ResumeOffset(IF kind = "upload" /\ ~Live(j) THEN None ELSE name.part,
                                          job[j].total)
  <1> DEFINE part == IF kind = "upload" /\ ~Live(j) THEN None ELSE name.part
             o == ResumeOffset(part, job[j].total)
             r == [job[j] EXCEPT !.pc = "open", !.done = o]
  <1>1. job \in [Jobs -> JobType] /\ job[j] \in JobType /\ name.part \in Jobs \cup {None}
        /\ file \in [Files -> [data : Seq(Block), mode : Mode]]
    BY DEF TransferType
  <1>2. job[j].pc = "resume" /\ job' = [job EXCEPT ![j] = r]
    BY <1>1 DEF ReadPart
  <1>3. o \in Nat
    <2>1. part \in Jobs \cup {None}
      BY <1>1
    <2> HIDE DEF part
    <2>2. part # None => Len(file[part].data) \in Nat
      <3>1. ASSUME part # None PROVE Len(file[part].data) \in Nat
        <4>1. part \in Files
          BY <2>1, <3>1, Numbers
        <4>2. file[part].data \in Seq(Block)
          BY <1>1, <4>1
        <4> QED
          BY <4>2
      <3> QED
        BY <3>1
    <2> QED
      BY <2>2 DEF ResumeOffset
  <1> HIDE DEF o
  <1>4. /\ r \in JobType /\ r.pc = "open" /\ r.done = o /\ r.conn = job[j].conn
    BY <1>1, <1>3 DEF JobType, Working
  <1> HIDE DEF r
  <1>5. OnlyMoves(j) /\ job'[j] = r
    BY <1>1, <1>2, <1>4 DEF OnlyMoves
  <1> QED
    BY <1>2, <1>4, <1>5 DEF o

\* The part that is opened.
Opened(j) == IF name.part = None THEN j ELSE name.part

\* The part is there, empty if nothing of it is kept, and its mode is as before.
LEMMA OpenEffect ==
    ASSUME TransferType, NEW j \in Jobs, OpenPart(j)
    PROVE  /\ OnlyMoves(j) /\ job[j].pc = "open" /\ job'[j].pc = "copy" /\ Live(j)
           /\ job'[j].conn = job[j].conn /\ job'[j].done = job[j].done
           /\ job'[j].file = Opened(j) /\ Opened(j) \in Jobs
           /\ name' = [part |-> Opened(j), target |-> name.target]
           /\ file' \in [Files -> [data : Seq(Block), mode : Mode]]
           /\ \A f \in Files : f # Opened(j) => file'[f] = file[f]
           /\ \A f \in Files : file'[f].mode = file[f].mode
           /\ file'[Opened(j)].data = IF job[j].done = 0 THEN <<>> ELSE file[Opened(j)].data
  <1> DEFINE p == Opened(j)
             a == kind = "download" /\ job[j].done # 0
             r == [job[j] EXCEPT !.pc = "copy", !.file = p, !.append = a]
             d == IF job[j].done = 0 THEN <<>> ELSE file[p].data
             g == [file[p] EXCEPT !.data = d]
  <1>1. /\ job \in [Jobs -> JobType] /\ job[j] \in JobType
        /\ name \in [part : Jobs \cup {None}, target : Files \cup {None}]
        /\ file \in [Files -> [data : Seq(Block), mode : Mode]]
    BY DEF TransferType
  <1>2. p \in Jobs /\ p \in Files /\ a \in BOOLEAN
    BY <1>1, Numbers DEF Opened
  <1>3. job[j].pc = "open" /\ Live(j) /\ name' = [name EXCEPT !.part = p]
    BY DEF OpenPart, Opened
  <1>4. job' = [job EXCEPT ![j] = r]
    BY <1>1 DEF OpenPart, Opened
  <1>5. file' = [file EXCEPT ![p] = g]
    BY <1>1, <1>2 DEF OpenPart, Opened
  <1>6. name' = [part |-> p, target |-> name.target]
    BY <1>1, <1>3
  <1> HIDE DEF p, a
  <1>7. /\ r \in JobType /\ r.pc = "copy" /\ r.file = p /\ r.conn = job[j].conn
        /\ r.done = job[j].done
    BY <1>1, <1>2 DEF JobType, Working
  <1>8. d \in Seq(Block)
    BY <1>1, <1>2
  <1> HIDE DEF d
  <1>9. g \in [data : Seq(Block), mode : Mode] /\ g.data = d /\ g.mode = file[p].mode
    BY <1>1, <1>2, <1>8
  <1> HIDE DEF r, g
  <1>10. OnlyMoves(j) /\ job'[j] = r
    BY <1>1, <1>4, <1>7 DEF OnlyMoves
  <1>11. /\ file' \in [Files -> [data : Seq(Block), mode : Mode]]
         /\ \A f \in Files : f # p => file'[f] = file[f]
         /\ file'[p] = g
    BY <1>1, <1>2, <1>5, <1>9
  <1>12. \A f \in Files : file'[f].mode = file[f].mode
    BY <1>9, <1>11
  <1> QED
    BY <1>2, <1>3, <1>6, <1>7, <1>9, <1>10, <1>11, <1>12 DEF p, d

\* What a block adds to the file, at offset o.
Written(j) ==
    LET o == job[j].done
        old == file[job[j].file].data
        b == <<source, o + 1>>
    IN  IF job[j].append THEN Append(old, b) ELSE WriteAt(old, o, b)

\* One file has one block more, and the job counts it.
LEMMA CopyEffect ==
    ASSUME TransferType, NEW j \in Jobs, Equipped(j), CopyBlock(j)
    PROVE  /\ OnlyMoves(j) /\ job[j].pc = "copy" /\ job'[j].pc = "copy"
           /\ job'[j].conn = job[j].conn /\ job'[j].file = job[j].file
           /\ job'[j].done = job[j].done + 1 /\ job[j].done < Size[source]
           /\ job[j].done \in Nat /\ job[j].file \in Jobs
           /\ file' \in [Files -> [data : Seq(Block), mode : Mode]]
           /\ \A f \in Files : f # job[j].file => file'[f] = file[f]
           /\ \A f \in Files : file'[f].mode = file[f].mode
           /\ file'[job[j].file].data = Written(j)
  <1> DEFINE p == job[j].file
             o == job[j].done
             n == o + 1
             r == [job[j] EXCEPT !.done = n]
             d == Written(j)
             g == [file[p] EXCEPT !.data = d]
  <1>1. /\ job \in [Jobs -> JobType] /\ job[j] \in JobType
        /\ file \in [Files -> [data : Seq(Block), mode : Mode]]
        /\ source \in Nat /\ Size[source] \in Nat
    BY SizeAssumption DEF TransferType
  <1>2. job[j].pc = "copy" /\ o < Size[source]
    BY DEF CopyBlock
  <1>3. p \in Jobs /\ p \in Files /\ o \in Nat
    BY <1>1, <1>2, Numbers DEF Equipped, JobType
  <1>4. Content(source)[o + 1] = <<source, o + 1>> /\ <<source, o + 1>> \in Block
    BY <1>1, <1>2, <1>3 DEF Content, Block
  <1>5. file[p].data \in Seq(Block) /\ file[p] \in [data : Seq(Block), mode : Mode]
    BY <1>1, <1>3
  <1>6. d \in Seq(Block)
    <2> DEFINE old == file[p].data
               b == <<source, o + 1>>
    <2>1. old \in Seq(Block) /\ b \in Block /\ o \in Nat
      BY <1>3, <1>4, <1>5
    <2>2. d = IF job[j].append THEN Append(old, b) ELSE WriteAt(old, o, b)
      BY DEF Written
    <2> HIDE DEF old, b, d, o
    <2>3. Append(old, b) \in Seq(Block)
      BY <2>1
    <2>4. WriteAt(old, o, b) \in Seq(Block)
      BY <2>1, WriteType
    <2> QED
      BY <2>2, <2>3, <2>4, Zenon
  <1>7. job' = [job EXCEPT ![j] = r]
    BY <1>1 DEF CopyBlock
  <1>8. file' = [file EXCEPT ![p] = g]
    BY <1>1, <1>3, <1>4 DEF CopyBlock, Written
  <1>9. /\ r \in JobType /\ r.pc = "copy" /\ r.file = p /\ r.conn = job[j].conn
        /\ r.done = n
    <2>1. n \in Nat
      BY <1>3
    <2> HIDE DEF n
    <2> QED
      BY <1>1, <1>2, <2>1 DEF JobType
  <1> HIDE DEF d
  <1>10. g \in [data : Seq(Block), mode : Mode] /\ g.data = d /\ g.mode = file[p].mode
    BY <1>5, <1>6
  <1> HIDE DEF r, g
  <1>11. OnlyMoves(j) /\ job'[j] = r
    BY <1>1, <1>7, <1>9 DEF OnlyMoves
  <1>12. /\ file' \in [Files -> [data : Seq(Block), mode : Mode]]
         /\ \A f \in Files : f # p => file'[f] = file[f]
         /\ file'[p] = g
    BY <1>1, <1>3, <1>8, <1>10
  <1>13. \A f \in Files : file'[f].mode = file[f].mode
    BY <1>10, <1>12
  <1> QED
    BY <1>2, <1>3, <1>9, <1>10, <1>11, <1>12, <1>13 DEF d

\* The copy ends when all of the source is read.
LEMMA EndOfSourceEffect ==
    ASSUME TransferType, NEW j \in Jobs, EndOfSource(j)
    PROVE  /\ OnlyMoves(j) /\ job[j].pc = "copy" /\ job'[j].pc \in {"rename", "replace"}
           /\ job'[j].conn = job[j].conn /\ job[j].done >= Size[source]
  <1>1. PICK pc \in {"rename", "replace"} : Move(j, pc)
    BY DEF EndOfSource
  <1>2. job \in [Jobs -> JobType] /\ pc \in Working
    BY DEF TransferType, Working
  <1>3. OnlyMoves(j) /\ job'[j].pc = pc /\ job'[j].conn = job[j].conn
    BY <1>1, <1>2, MoveEffect
  <1> QED
    BY <1>3 DEF EndOfSource

\* The job has the mode of the target, if it found one.
LEMMA StatTargetEffect ==
    ASSUME TransferType, NEW j \in Jobs, StatTarget(j)
    PROVE  /\ OnlyMoves(j) /\ job[j].pc = "replace" /\ job'[j].pc \in {"chmod", "rename"}
           /\ job'[j].conn = job[j].conn
           /\ job'[j].pc = "chmod" =>
                 /\ name.target # None
                 /\ job'[j].mode = file[name.target].mode
                 /\ job'[j].mode \in Mode
  <1> DEFINE found == Live(j) /\ name.target # None
             m == IF found THEN file[name.target].mode ELSE job[j].mode
             q == IF found THEN "chmod" ELSE "rename"
             r == [job[j] EXCEPT !.pc = q, !.mode = m]
  <1>1. /\ job \in [Jobs -> JobType] /\ job[j] \in JobType
        /\ name.target \in Files \cup {None}
        /\ file \in [Files -> [data : Seq(Block), mode : Mode]]
    BY DEF TransferType
  <1>2. job[j].pc = "replace" /\ job' = [job EXCEPT ![j] = r]
    BY <1>1 DEF StatTarget
  <1>3. found => name.target # None /\ m = file[name.target].mode /\ m \in Mode
    BY <1>1
  <1>4. m \in Mode \cup {None} /\ q \in Working /\ (q = "chmod" <=> found) /\ q \in {"chmod", "rename"}
    BY <1>1, <1>3 DEF JobType, Working
  <1> HIDE DEF found, m, q
  <1>5. r \in JobType /\ r.pc = q /\ r.mode = m /\ r.conn = job[j].conn
    BY <1>1, <1>4 DEF JobType
  <1> HIDE DEF r
  <1>6. OnlyMoves(j) /\ job'[j] = r
    BY <1>1, <1>2, <1>5 DEF OnlyMoves
  <1> QED
    BY <1>2, <1>3, <1>4, <1>5, <1>6

\* The part has the target's mode, and every file its contents.
LEMMA KeepEffect ==
    ASSUME TransferType, NEW j \in Jobs, Equipped(j), KeepMode(j)
    PROVE  /\ OnlyMoves(j) /\ job[j].pc = "chmod" /\ job'[j].pc = "remove"
           /\ job'[j].conn = job[j].conn /\ name.part # None /\ name.part \in Jobs
           /\ file' \in [Files -> [data : Seq(Block), mode : Mode]]
           /\ \A f \in Files : f # name.part => file'[f] = file[f]
           /\ \A f \in Files : file'[f].data = file[f].data
           /\ file'[name.part].mode = job[j].mode
  <1> DEFINE p == name.part
             m == job[j].mode
             g == [file[p] EXCEPT !.mode = m]
  <1>1. /\ job \in [Jobs -> JobType] /\ name.part \in Jobs \cup {None}
        /\ file \in [Files -> [data : Seq(Block), mode : Mode]]
    BY DEF TransferType
  <1>2. job[j].pc = "chmod" /\ p # None /\ Move(j, "remove")
    BY DEF KeepMode
  <1>3. p \in Jobs /\ p \in Files /\ m \in Mode
    BY <1>1, <1>2, Numbers DEF Equipped
  <1>4. OnlyMoves(j) /\ job'[j].pc = "remove" /\ job'[j].conn = job[j].conn
    BY <1>1, <1>2, MoveEffect DEF Working
  <1>5. file' = [file EXCEPT ![p] = g]
    BY <1>1, <1>3 DEF KeepMode
  <1> HIDE DEF p, m
  <1>6. g \in [data : Seq(Block), mode : Mode] /\ g.data = file[p].data /\ g.mode = m
    BY <1>1, <1>3
  <1> HIDE DEF g
  <1>7. /\ file' \in [Files -> [data : Seq(Block), mode : Mode]]
        /\ \A f \in Files : f # p => file'[f] = file[f]
        /\ file'[p] = g
    BY <1>1, <1>3, <1>5, <1>6
  <1>8. \A f \in Files : file'[f].data = file[f].data
    BY <1>6, <1>7
  <1> QED
    BY <1>2, <1>3, <1>4, <1>6, <1>7, <1>8 DEF p, m

\* The target has no file.
LEMMA RemoveEffect ==
    ASSUME TransferType, NEW j \in Jobs, RemoveTarget(j)
    PROVE  /\ OnlyMoves(j) /\ job[j].pc = "remove" /\ job'[j].pc = "rename"
           /\ job'[j].conn = job[j].conn
           /\ name' = [part |-> name.part, target |-> None]
  <1>1. job \in [Jobs -> JobType]
        /\ name \in [part : Jobs \cup {None}, target : Files \cup {None}]
    BY DEF TransferType
  <1>2. job[j].pc = "remove" /\ Move(j, "rename") /\ name' = [name EXCEPT !.target = None]
    BY DEF RemoveTarget
  <1>3. OnlyMoves(j) /\ job'[j].pc = "rename" /\ job'[j].conn = job[j].conn
    BY <1>1, <1>2, MoveEffect DEF Working
  <1> QED
    BY <1>1, <1>2, <1>3

\* The part becomes the target, which for an upload was not there.
LEMMA RenameEffect ==
    ASSUME TransferType, NEW j \in Jobs, Rename(j)
    PROVE  /\ OnlyMoves(j) /\ job[j].pc = "rename" /\ job'[j].pc = "done"
           /\ name.part \in Jobs /\ name.part # None
           /\ kind = "upload" => name.target = None
           /\ name' = [part |-> None, target |-> name.part]
  <1>1. job \in [Jobs -> JobType] /\ name.part \in Jobs \cup {None}
    BY DEF TransferType
  <1>2. OnlyMoves(j) /\ job'[j].pc = "done"
    BY <1>1, EndEffect DEF Rename, Ended
  <1> QED
    BY <1>1, <1>2 DEF Rename, CanRename

\* A job that is cancelled or fails is over.
LEMMA StopEffect ==
    ASSUME TransferType, NEW j \in Jobs, Cancel(j) \/ Fail(j)
    PROVE  OnlyMoves(j) /\ job'[j].pc \in {"cancelled", "failed"}
  <1>1. job \in [Jobs -> JobType]
    BY DEF TransferType
  <1>2. PICK pc \in {"cancelled", "failed"} : End(j, pc)
    BY DEF Cancel, Fail
  <1> QED
    BY <1>1, <1>2, EndEffect DEF Ended

\* A call begins on an open connection, or fails at once.
LEMMA StartEffect ==
    ASSUME TransferType, NEW j \in Jobs, NEW c \in Conns, Start(j, c)
    PROVE  /\ OnlyMoves(j) /\ job[j].pc = "idle" /\ conn[c] # "new"
           /\ \/ conn[c] = "open" /\ job'[j].pc = "stat" /\ job'[j].conn = c
              \/ conn[c] # "open" /\ job'[j].pc = "failed"
  <1>1. job \in [Jobs -> JobType]
    BY DEF TransferType
  <1>2. job[j].pc = "idle" /\ conn[c] # "new" /\ job' = [job EXCEPT ![j] = Get(c)]
    BY DEF Start
  <1>3. /\ Blank("failed") \in JobType /\ Blank("failed").pc = "failed"
        /\ Blank("stat") \in JobType /\ Blank("stat").pc = "stat"
    BY BlankType DEF Ended, Working
  <1>4. CASE conn[c] = "open"
    <2>1. Get(c) = [Blank("stat") EXCEPT !.conn = c]
      BY <1>4 DEF Get
    <2>2. Get(c) \in JobType /\ Get(c).pc = "stat" /\ Get(c).conn = c
      BY <1>3, <2>1 DEF JobType
    <2> QED
      BY <1>1, <1>2, <1>4, <2>2 DEF OnlyMoves
  <1>5. CASE conn[c] # "open"
    <2>1. Get(c) = Blank("failed")
      BY <1>5 DEF Get
    <2> QED
      BY <1>1, <1>2, <1>3, <1>5, <2>1 DEF OnlyMoves
  <1> QED
    BY <1>4, <1>5

-----------------------------------------------------------------------------
\* A step of one job that began before keeps the base, if the files stay apart
\* and the job has what it needs.
LEMMA BaseMove ==
    ASSUME BaseInv, NEW j \in Jobs, OnlyMoves(j),
           UNCHANGED <<conn, source, changed, overlap>>,
           name' \in [part : Jobs \cup {None}, target : Files \cup {None}],
           file' \in [Files -> [data : Seq(Block), mode : Mode]],
           Equipped(j)', Apart', job'[j].pc \in Working => job[j].pc \in Working
    PROVE  BaseInv'
  <1>1. TransferType'
    BY DEF BaseInv, TransferType, OnlyMoves
  <1>2. ASSUME NEW k \in Jobs PROVE Equipped(k)'
    <2>1. CASE k = j
      BY <2>1
    <2>2. CASE k # j
      BY <2>2 DEF BaseInv, Equipped, OnlyMoves
    <2> QED
      BY <2>1, <2>2
  <1>3. ASSUME NEW k \in Jobs PROVE Active(k)' => Active(k)
    <2>1. Active(k)' <=> job'[k].pc \in Working
      <3>1. job'[k].pc \in {"idle"} \cup Working \cup Ended
        BY <1>1 DEF TransferType, JobType
      <3> QED
        BY <3>1 DEF Active, Working, Ended
    <2>2. Active(k) <=> job[k].pc \in Working
      BY ActiveIsWorking DEF BaseInv, TransferType
    <2> QED
      BY <2>1, <2>2 DEF OnlyMoves
  <1>4. Alone'
    BY <1>3 DEF BaseInv, Alone
  <1> QED
    BY <1>1, <1>2, <1>4 DEF BaseInv

\* Files stay apart when no name changes and no job goes back.
LEMMA ApartMove ==
    ASSUME BaseInv, NEW j \in Jobs, OnlyMoves(j), name' = name,
           job'[j].pc \in {"idle", "stat", "resume", "open"} =>
               job[j].pc \in {"idle", "stat", "resume", "open"}
    PROVE  Apart'
  BY DEF BaseInv, Apart, OnlyMoves

\* The steps of the connections.
LEMMA ConnBase ==
    ASSUME BaseInv, NEW c \in Conns, Connect(c) \/ Drop(c) \/ Disconnect(c) \/ Close(c)
    PROVE  /\ BaseInv'
           /\ UNCHANGED <<kind, job, source, name, file, changed, overlap>>
           /\ \A j \in Jobs : job[j].pc \in Working /\ Live(j)' => Live(j)
  <1>1. UNCHANGED <<kind, job, source, name, file, changed, overlap>>
    BY DEF Connect, Drop, Disconnect, Close
  <1>2. /\ conn \in [Conns -> {"new", "open", "closing", "gone"}]
        /\ conn' \in [Conns -> {"new", "open", "closing", "gone"}]
        /\ \A d \in Conns : conn[d] # "new" => conn'[d] # "new"
        /\ \A d \in Conns : conn[d] \notin {"new", "open", "closing"} => conn'[d] = conn[d]
    BY DEF BaseInv, TransferType, Connect, Drop, Disconnect, Close
  <1>3. TransferType'
    BY <1>1, <1>2 DEF BaseInv, TransferType
  <1>4. \A j \in Jobs : Equipped(j)'
    BY <1>1, <1>2 DEF BaseInv, Equipped
  <1>5. Apart' /\ Alone'
    BY <1>1 DEF BaseInv, Apart, Alone, Active
  <1>6. ASSUME NEW j \in Jobs, job[j].pc \in Working, Live(j)' PROVE Live(j)
    <2>1. job[j].conn \in Conns /\ conn[job[j].conn] # "new"
      BY <1>6 DEF BaseInv, Equipped
    <2> QED
      BY <1>1, <1>2, <1>6, <2>1 DEF Live
  <1> QED
    BY <1>1, <1>3, <1>4, <1>5, <1>6 DEF BaseInv

\* A call begins: alone, or the overlap is noted.
LEMMA StartBase ==
    ASSUME BaseInv, NEW j \in Jobs, NEW c \in Conns, Start(j, c)
    PROVE  BaseInv'
  <1>1. TransferType /\ Apart /\ Alone /\ \A k \in Jobs : Equipped(k)
    BY DEF BaseInv
  <1>2. /\ OnlyMoves(j) /\ job[j].pc = "idle" /\ conn[c] # "new"
        /\ \/ conn[c] = "open" /\ job'[j].pc = "stat" /\ job'[j].conn = c
           \/ conn[c] # "open" /\ job'[j].pc = "failed"
    BY <1>1, StartEffect
  <1>3. /\ UNCHANGED <<kind, conn, source, name, file, changed>>
        /\ overlap' = (overlap \/ (conn[c] = "open" /\ \E k \in Jobs : Active(k)))
    BY DEF Start
  <1>4. TransferType'
    BY <1>1, <1>2, <1>3 DEF TransferType, OnlyMoves
  <1>5. \A k \in Jobs : Equipped(k)'
    BY <1>1, <1>2, <1>3 DEF Equipped, OnlyMoves, Working
  <1>6. Apart'
    BY <1>2, <1>3, ApartMove
  <1>7. Alone'
    <2> SUFFICES ASSUME ~overlap', NEW k \in Jobs, NEW l \in Jobs, Active(k)', Active(l)'
                 PROVE  k = l
      BY DEF Alone
    <2>1. ~overlap /\ (conn[c] # "open" \/ \A i \in Jobs : ~Active(i))
      BY <1>3
    <2>2. \A i \in Jobs \ {j} : Active(i)' => Active(i)
      BY <1>2 DEF OnlyMoves, Active
    <2>3. conn[c] # "open" => ~Active(j)'
      BY <1>2 DEF Active, Ended
    <2> QED
      BY <1>1, <2>1, <2>2, <2>3 DEF Alone
  <1> QED
    BY <1>4, <1>5, <1>6, <1>7 DEF BaseInv

\* The steps of a job under way.
LEMMA JobBase ==
    ASSUME BaseInv, NEW j \in Jobs, Step(j) \/ Cancel(j)
    PROVE  BaseInv'
  <1>0. /\ TransferType /\ Equipped(j) /\ Apart
        /\ name \in [part : Jobs \cup {None}, target : Files \cup {None}]
        /\ file \in [Files -> [data : Seq(Block), mode : Mode]]
    BY DEF BaseInv, TransferType
  <1>1. CASE Stat(j)
    <2>1. /\ OnlyMoves(j) /\ job[j].pc = "stat" /\ job'[j].pc = "resume"
          /\ job'[j].conn = job[j].conn
      BY <1>0, <1>1, StatEffect
    <2>2. UNCHANGED <<conn, source, name, file, changed, overlap>>
      BY <1>1 DEF Stat
    <2>3. Equipped(j)' /\ Apart'
      BY <1>0, <2>1, <2>2, ApartMove DEF Equipped, Working
    <2> QED
      BY <1>0, <2>1, <2>2, <2>3, BaseMove DEF Working
  <1>2. CASE ReadPart(j)
    <2>1. /\ OnlyMoves(j) /\ job[j].pc = "resume" /\ job'[j].pc = "open"
          /\ job'[j].conn = job[j].conn
      BY <1>0, <1>2, ReadEffect
    <2>2. UNCHANGED <<conn, source, name, file, changed, overlap>>
      BY <1>2 DEF ReadPart
    <2>3. Equipped(j)' /\ Apart'
      BY <1>0, <2>1, <2>2, ApartMove DEF Equipped, Working
    <2> QED
      BY <1>0, <2>1, <2>2, <2>3, BaseMove DEF Working
  <1>3. CASE OpenPart(j)
    <2>1. /\ OnlyMoves(j) /\ job[j].pc = "open" /\ job'[j].pc = "copy"
          /\ job'[j].conn = job[j].conn
          /\ job'[j].file = Opened(j) /\ Opened(j) \in Jobs
          /\ name' = [part |-> Opened(j), target |-> name.target]
          /\ file' \in [Files -> [data : Seq(Block), mode : Mode]]
      BY <1>0, <1>3, OpenEffect
    <2>2. UNCHANGED <<conn, source, changed, overlap>>
      BY <1>3 DEF OpenPart
    <2>3. Equipped(j)'
      BY <1>0, <2>1, <2>2 DEF Equipped, Working
    <2>4. name' \in [part : Jobs \cup {None}, target : Files \cup {None}]
          /\ name'.part = Opened(j) /\ name'.target = name.target
      BY <1>0, <2>1
    <2>5. Opened(j) # name.target
      BY <1>0, <2>1 DEF Apart, Opened
    <2>6. ASSUME NEW k \in Jobs, job'[k].pc \in {"idle", "stat", "resume", "open"}
          PROVE  k # Opened(j) /\ k # name.target
      BY <1>0, <2>1, <2>6 DEF Apart, Opened, OnlyMoves
    <2>7. Apart'
      BY <2>4, <2>5, <2>6 DEF Apart
    <2> QED
      BY <2>1, <2>2, <2>3, <2>4, <2>7, BaseMove DEF Working
  <1>4. CASE CopyBlock(j)
    <2>1. /\ OnlyMoves(j) /\ job[j].pc = "copy" /\ job'[j].pc = "copy"
          /\ job'[j].conn = job[j].conn /\ job'[j].file = job[j].file
          /\ file' \in [Files -> [data : Seq(Block), mode : Mode]]
      BY <1>0, <1>4, CopyEffect
    <2>2. UNCHANGED <<conn, source, name, changed, overlap>>
      BY <1>4 DEF CopyBlock
    <2>3. Equipped(j)' /\ Apart'
      BY <1>0, <2>1, <2>2, ApartMove DEF Equipped, Working
    <2> QED
      BY <1>0, <2>1, <2>2, <2>3, BaseMove DEF Working
  <1>5. CASE EndOfSource(j)
    <2>1. /\ OnlyMoves(j) /\ job[j].pc = "copy" /\ job'[j].pc \in {"rename", "replace"}
          /\ job'[j].conn = job[j].conn
      BY <1>0, <1>5, EndOfSourceEffect
    <2>2. UNCHANGED <<conn, source, name, file, changed, overlap>>
      BY <1>5 DEF EndOfSource
    <2>3. Equipped(j)' /\ Apart'
      BY <1>0, <2>1, <2>2, ApartMove DEF Equipped, Working
    <2> QED
      BY <1>0, <2>1, <2>2, <2>3, BaseMove DEF Working
  <1>6. CASE StatTarget(j)
    <2>1. /\ OnlyMoves(j) /\ job[j].pc = "replace" /\ job'[j].pc \in {"chmod", "rename"}
          /\ job'[j].conn = job[j].conn
          /\ job'[j].pc = "chmod" => job'[j].mode \in Mode
      BY <1>0, <1>6, StatTargetEffect
    <2>2. UNCHANGED <<conn, source, name, file, changed, overlap>>
      BY <1>6 DEF StatTarget
    <2>3. Equipped(j)' /\ Apart'
      BY <1>0, <2>1, <2>2, ApartMove DEF Equipped, Working
    <2> QED
      BY <1>0, <2>1, <2>2, <2>3, BaseMove DEF Working
  <1>7. CASE KeepMode(j)
    <2>1. /\ OnlyMoves(j) /\ job[j].pc = "chmod" /\ job'[j].pc = "remove"
          /\ job'[j].conn = job[j].conn
          /\ file' \in [Files -> [data : Seq(Block), mode : Mode]]
      BY <1>0, <1>7, KeepEffect
    <2>2. UNCHANGED <<conn, source, name, changed, overlap>>
      BY <1>7 DEF KeepMode
    <2>3. Equipped(j)' /\ Apart'
      BY <1>0, <2>1, <2>2, ApartMove DEF Equipped, Working
    <2> QED
      BY <1>0, <2>1, <2>2, <2>3, BaseMove DEF Working
  <1>8. CASE RemoveTarget(j)
    <2>1. /\ OnlyMoves(j) /\ job[j].pc = "remove" /\ job'[j].pc = "rename"
          /\ job'[j].conn = job[j].conn
          /\ name' = [part |-> name.part, target |-> None]
      BY <1>0, <1>8, RemoveEffect
    <2>2. UNCHANGED <<conn, source, file, changed, overlap>>
      BY <1>8 DEF RemoveTarget
    <2>3. name' \in [part : Jobs \cup {None}, target : Files \cup {None}]
          /\ name'.part = name.part /\ name'.target = None
      BY <1>0, <2>1
    <2>4. Equipped(j)' /\ Apart'
      BY <1>0, <2>1, <2>2, <2>3, Numbers DEF Equipped, Working, Apart, OnlyMoves
    <2> QED
      BY <1>0, <2>1, <2>2, <2>3, <2>4, BaseMove DEF Working
  <1>9. CASE Rename(j)
    <2>1. /\ OnlyMoves(j) /\ job[j].pc = "rename" /\ job'[j].pc = "done"
          /\ name.part \in Jobs
          /\ name' = [part |-> None, target |-> name.part]
      BY <1>0, <1>9, RenameEffect
    <2>2. UNCHANGED <<conn, source, file, changed, overlap>>
      BY <1>9 DEF Rename
    <2>3. name' \in [part : Jobs \cup {None}, target : Files \cup {None}]
          /\ name'.part = None /\ name'.target = name.part
      BY <1>0, <2>1, Numbers
    <2>4. Equipped(j)' /\ Apart'
      BY <1>0, <2>1, <2>2, <2>3, Numbers DEF Equipped, Working, Apart, OnlyMoves
    <2> QED
      BY <1>0, <2>1, <2>2, <2>3, <2>4, BaseMove DEF Working
  <1>10. CASE Cancel(j) \/ Fail(j)
    <2>1. OnlyMoves(j) /\ job'[j].pc \in {"cancelled", "failed"}
      BY <1>0, <1>10, StopEffect
    <2>2. UNCHANGED <<conn, source, name, file, changed, overlap>>
      BY <1>10 DEF Cancel, Fail
    <2>3. Equipped(j)' /\ Apart'
      BY <1>0, <2>1, <2>2, ApartMove DEF Equipped, Working
    <2> QED
      BY <1>0, <2>1, <2>2, <2>3, BaseMove DEF Working
  <1> QED
    BY <1>1, <1>2, <1>3, <1>4, <1>5, <1>6, <1>7, <1>8, <1>9, <1>10 DEF Step

\* The source changes under the jobs.
LEMMA SourceBase ==
    ASSUME BaseInv, NEW v \in Versions, ChangeSource(v)
    PROVE  BaseInv'
  <1>1. UNCHANGED <<kind, conn, job, name, file, overlap>> /\ source' = v /\ changed' \in BOOLEAN
    BY DEF ChangeSource, BaseInv, TransferType
  <1> QED
    BY <1>1 DEF BaseInv, TransferType, Equipped, Apart, Alone, Active

\* The base is kept by every step.
LEMMA BaseStep == BaseInv /\ [Next]_vars => BaseInv'
  <1>1. ASSUME BaseInv, UNCHANGED vars PROVE BaseInv'
    BY <1>1 DEF BaseInv, TransferType, Equipped, Apart, Alone, Active, vars
  <1> QED
    BY <1>1, ConnBase, StartBase, JobBase, SourceBase DEF Next

\* The base holds at first.
LEMMA BaseInit == Init => BaseInv
  <1> SUFFICES ASSUME Init PROVE BaseInv
    OBVIOUS
  <1>1. Blank("idle") \in JobType /\ Blank("idle").pc = "idle"
    BY BlankType
  <1>2. job \in [Jobs -> JobType] /\ \A j \in Jobs : job[j].pc = "idle"
    BY <1>1 DEF Init
  <1>3. PICK t \in {None, Old} :
          /\ name = [part |-> None, target |-> t]
          /\ file = [f \in Files |-> IF f = t THEN [data |-> OldContent, mode |-> "kept"]
                                              ELSE [data |-> <<>>, mode |-> "default"]]
    BY DEF Init
  <1>4. name \in [part : Jobs \cup {None}, target : Files \cup {None}]
        /\ name.part = None /\ name.target = t
    BY <1>3, Numbers
  <1>5. file \in [Files -> [data : Seq(Block), mode : Mode]]
    <2>1. OldContent \in Seq(Block)
      BY DEF OldContent, Block
    <2>2. /\ [data |-> OldContent, mode |-> "kept"] \in [data : Seq(Block), mode : Mode]
          /\ [data |-> <<>>, mode |-> "default"] \in [data : Seq(Block), mode : Mode]
      BY <2>1 DEF Mode
    <2> QED
      BY <1>3, <2>2
  <1>6. TransferType
    BY <1>2, <1>4, <1>5 DEF Init, TransferType
  <1>7. \A j \in Jobs : Equipped(j)
    BY <1>2 DEF Equipped, Working
  <1>8. Apart /\ Alone
    BY <1>2, <1>4, Numbers DEF Apart, Alone, Active
  <1> QED
    BY <1>6, <1>7, <1>8 DEF BaseInv

\* While transfers do not overlap, a job under way is the only one.
LEMMA OthersRest ==
    ASSUME BaseInv, ~overlap, NEW j \in Jobs, job[j].pc \in Working, NEW k \in Jobs, k # j
    PROVE  job[k].pc \notin Working
  BY ActiveIsWorking DEF BaseInv, TransferType, Alone

-----------------------------------------------------------------------------
(* ModeKept.  Between the removal of the old file and the rename, however   *)
(* many attempts that takes, the part has its mode: it is set before the    *)
(* removal, and opening the part again keeps it.                            *)

\* Where the mode is.
ModePlace ==
    /\ name.target # None => file[name.target].mode = "kept"
    /\ name.target = None => name.part # None /\ file[name.part].mode = "kept"

\* What the job that replaces the file carries over.
Carries(j) ==
    /\ job[j].pc = "chmod" => job[j].mode = "kept"
    /\ job[j].pc = "remove" => name.part # None /\ file[name.part].mode = "kept"

ModeInv ==
    kind = "upload" /\ HadTarget /\ ~overlap => ModePlace /\ \A j \in Jobs : Carries(j)

\* It is enough to look at the job that takes the step.
LEMMA ModeMove ==
    ASSUME BaseInv, ModeInv, NEW j \in Jobs, job[j].pc \in Working, OnlyMoves(j),
           kind' = kind, overlap' = overlap, file'[Old].data = file[Old].data,
           kind = "upload" /\ ModePlace /\ Carries(j) => ModePlace' /\ Carries(j)'
    PROVE  ModeInv'
  <1> SUFFICES ASSUME kind = "upload", HadTarget, ~overlap
               PROVE  ModePlace' /\ \A k \in Jobs : Carries(k)'
    BY DEF ModeInv, HadTarget
  <1>1. ModePlace /\ Carries(j)
    BY DEF ModeInv
  <1>2. ASSUME NEW k \in Jobs, k # j PROVE Carries(k)'
    <2>1. job'[k].pc \notin Working
      BY <1>2, OthersRest DEF OnlyMoves
    <2> QED
      BY <2>1 DEF Carries, Working
  <1> QED
    BY <1>1, <1>2

\* A step that touches neither names nor modes.
LEMMA ModeSame ==
    ASSUME name' = name, \A f \in Files : file'[f].mode = file[f].mode, TransferType,
           NEW j \in Jobs, job'[j].pc \notin {"chmod", "remove"}
    PROVE  ModePlace => ModePlace' /\ Carries(j)'
  <1>1. name.target \in Files \cup {None} /\ name.part \in Files \cup {None}
    BY Numbers DEF TransferType
  <1> QED
    BY <1>1 DEF ModePlace, Carries

\* The steps of a job keep the mode.
LEMMA JobMode ==
    ASSUME BaseInv, ModeInv, NEW j \in Jobs, Step(j) \/ Cancel(j)
    PROVE  ModeInv'
  <1>0. TransferType /\ Equipped(j) /\ Apart /\ Old \in Files /\ Old \notin Jobs
    BY Numbers DEF BaseInv
  <1>1. CASE Stat(j) \/ ReadPart(j) \/ EndOfSource(j)
    <2>1. /\ OnlyMoves(j) /\ job[j].pc \in Working
          /\ job'[j].pc \notin {"chmod", "remove"}
      BY <1>0, <1>1, StatEffect, ReadEffect, EndOfSourceEffect DEF Working
    <2>2. UNCHANGED <<kind, name, file, overlap>>
      BY <1>1 DEF Stat, ReadPart, EndOfSource
    <2> QED
      BY <1>0, <2>1, <2>2, ModeSame, ModeMove
  <1>2. CASE Cancel(j) \/ Fail(j)
    <2>1. OnlyMoves(j) /\ job'[j].pc \notin {"chmod", "remove"}
      BY <1>0, <1>2, StopEffect
    <2>2. UNCHANGED <<kind, name, file, overlap>>
      BY <1>2 DEF Cancel, Fail
    <2>3. job[j].pc \in Working
      BY <1>0, <1>2, ActiveIsWorking DEF Cancel, Fail, TransferType, Working
    <2> QED
      BY <1>0, <2>1, <2>2, <2>3, ModeSame, ModeMove
  <1>3. CASE OpenPart(j)
    <2>1. /\ OnlyMoves(j) /\ job[j].pc = "open" /\ job'[j].pc = "copy"
          /\ Opened(j) \in Jobs
          /\ name' = [part |-> Opened(j), target |-> name.target]
          /\ \A f \in Files : f # Opened(j) => file'[f] = file[f]
          /\ \A f \in Files : file'[f].mode = file[f].mode
      BY <1>0, <1>3, OpenEffect
    <2>2. UNCHANGED <<kind, overlap>>
      BY <1>3 DEF OpenPart
    <2>3. file'[Old] = file[Old]
      BY <1>0, <2>1
    <2>4. name'.part = Opened(j) /\ name'.target = name.target
          /\ name.target \in Files \cup {None} /\ name.part \in Files \cup {None}
      BY <1>0, <2>1, Numbers DEF TransferType
    <2>5. ModePlace => ModePlace' /\ Carries(j)'
      BY <2>1, <2>4 DEF ModePlace, Carries, Opened
    <2> QED
      BY <2>1, <2>2, <2>3, <2>5, ModeMove DEF Working
  <1>4. CASE CopyBlock(j)
    <2>1. /\ OnlyMoves(j) /\ job[j].pc = "copy" /\ job'[j].pc = "copy" /\ job[j].file \in Jobs
          /\ \A f \in Files : f # job[j].file => file'[f] = file[f]
          /\ \A f \in Files : file'[f].mode = file[f].mode
      BY <1>0, <1>4, CopyEffect
    <2>2. UNCHANGED <<kind, name, overlap>>
      BY <1>4 DEF CopyBlock
    <2>3. file'[Old] = file[Old]
      BY <1>0, <2>1
    <2>4. ModePlace => ModePlace' /\ Carries(j)'
      BY <1>0, <2>1, <2>2, ModeSame
    <2> QED
      BY <2>1, <2>2, <2>3, <2>4, ModeMove DEF Working
  <1>5. CASE StatTarget(j)
    <2>1. /\ OnlyMoves(j) /\ job[j].pc = "replace" /\ job'[j].pc \in {"chmod", "rename"}
          /\ job'[j].pc = "chmod" =>
                name.target # None /\ job'[j].mode = file[name.target].mode
      BY <1>0, <1>5, StatTargetEffect
    <2>2. UNCHANGED <<kind, name, file, overlap>>
      BY <1>5 DEF StatTarget
    <2>3. ModePlace => ModePlace' /\ Carries(j)'
      BY <2>1, <2>2 DEF ModePlace, Carries
    <2> QED
      BY <2>1, <2>2, <2>3, ModeMove DEF Working
  <1>6. CASE KeepMode(j)
    <2>1. /\ OnlyMoves(j) /\ job[j].pc = "chmod" /\ job'[j].pc = "remove"
          /\ name.part # None /\ name.part \in Jobs
          /\ \A f \in Files : f # name.part => file'[f] = file[f]
          /\ file'[name.part].mode = job[j].mode
      BY <1>0, <1>6, KeepEffect
    <2>2. UNCHANGED <<kind, name, overlap>>
      BY <1>6 DEF KeepMode
    <2>3. file'[Old] = file[Old]
      BY <1>0, <2>1
    <2>4. name.target # None => name.target \in Files /\ name.target # name.part
      BY <1>0, <2>1 DEF TransferType, Apart
    <2>5. ModePlace /\ Carries(j) => ModePlace' /\ Carries(j)'
      BY <2>1, <2>2, <2>4 DEF ModePlace, Carries
    <2> QED
      BY <2>1, <2>2, <2>3, <2>5, ModeMove DEF Working
  <1>7. CASE RemoveTarget(j)
    <2>1. /\ OnlyMoves(j) /\ job[j].pc = "remove" /\ job'[j].pc = "rename"
          /\ name' = [part |-> name.part, target |-> None]
      BY <1>0, <1>7, RemoveEffect
    <2>2. UNCHANGED <<kind, file, overlap>>
      BY <1>7 DEF RemoveTarget
    <2>3. ModePlace /\ Carries(j) => ModePlace' /\ Carries(j)'
      BY <2>1, <2>2 DEF ModePlace, Carries
    <2> QED
      BY <2>1, <2>2, <2>3, ModeMove DEF Working
  <1>8. CASE Rename(j)
    <2>1. /\ OnlyMoves(j) /\ job[j].pc = "rename" /\ job'[j].pc = "done"
          /\ name.part # None
          /\ kind = "upload" => name.target = None
          /\ name' = [part |-> None, target |-> name.part]
      BY <1>0, <1>8, RenameEffect
    <2>2. UNCHANGED <<kind, file, overlap>>
      BY <1>8 DEF Rename
    <2>3. kind = "upload" /\ ModePlace => ModePlace' /\ Carries(j)'
      BY <2>1, <2>2 DEF ModePlace, Carries
    <2> QED
      BY <2>1, <2>2, <2>3, ModeMove DEF Working
  <1> QED
    BY <1>1, <1>2, <1>3, <1>4, <1>5, <1>6, <1>7, <1>8 DEF Step

\* Every step keeps the mode.
LEMMA ModeStep == BaseInv /\ ModeInv /\ [Next]_vars => ModeInv'
  <1> SUFFICES ASSUME BaseInv, ModeInv, [Next]_vars PROVE ModeInv'
    OBVIOUS
  <1>1. ASSUME UNCHANGED <<kind, job, name, file, overlap>> PROVE ModeInv'
    BY <1>1 DEF ModeInv, HadTarget, ModePlace, Carries
  <1>2. ASSUME NEW j \in Jobs, NEW c \in Conns, Start(j, c) PROVE ModeInv'
    <2>1. UNCHANGED <<kind, name, file>> /\ (overlap => overlap')
      BY <1>2 DEF Start, BaseInv, TransferType
    <2>2. OnlyMoves(j) /\ job'[j].pc \in {"stat", "failed"}
      BY <1>2, StartEffect DEF BaseInv
    <2>3. \A k \in Jobs : Carries(k) => Carries(k)'
      BY <2>1, <2>2 DEF Carries, OnlyMoves
    <2> QED
      BY <2>1, <2>3 DEF ModeInv, HadTarget, ModePlace
  <1>3. ASSUME NEW c \in Conns, Connect(c) \/ Drop(c) \/ Disconnect(c) \/ Close(c) PROVE ModeInv'
    BY <1>1, <1>3 DEF Connect, Drop, Disconnect, Close
  <1>4. ASSUME NEW v \in Versions, ChangeSource(v) PROVE ModeInv'
    BY <1>1, <1>4 DEF ChangeSource
  <1>5. CASE UNCHANGED vars
    BY <1>1, <1>5 DEF vars
  <1> QED
    BY <1>2, <1>3, <1>4, <1>5, JobMode DEF Next

\* A replaced file's permissions survive every sequence of attempts, for any
\* number of them and whatever ends them.
THEOREM PermissionsSurvive == Spec => []ModeKept
  <1>1. Init => ModeInv
    <2> SUFFICES ASSUME Init PROVE ModeInv
      OBVIOUS
    <2>1. PICK t \in {None, Old} :
            /\ name = [part |-> None, target |-> t]
            /\ file = [f \in Files |-> IF f = t THEN [data |-> OldContent, mode |-> "kept"]
                                                ELSE [data |-> <<>>, mode |-> "default"]]
      BY DEF Init
    <2>2. t = None => file[Old].data = <<>>
      BY <2>1, Numbers
    <2>3. t = Old => file[Old].mode = "kept"
      BY <2>1, Numbers
    <2>4. \A j \in Jobs : job[j].pc = "idle"
      BY BlankType DEF Init
    <2> QED
      BY <2>1, <2>2, <2>3, <2>4, Numbers DEF ModeInv, ModePlace, Carries, HadTarget
  <1>2. BaseInv /\ ModeInv /\ [Next]_vars => BaseInv' /\ ModeInv'
    BY BaseStep, ModeStep
  <1>3. ModeInv => ModeKept
    BY DEF ModeInv, ModePlace, ModeKept
  <1> QED
    BY <1>1, <1>2, <1>3, BaseInit, PTL DEF Spec


-----------------------------------------------------------------------------
(* TargetSafe and DoneDelivers.  The part is the beginning of the source,   *)
(* and the job that copies knows how much of it there is; a job past the    *)
(* copy has the whole source in the part.                                   *)

\* The first n blocks of a version.
Part(v, n) == [i \in 1 .. n |-> <<v, i>>]

\* What the job under way knows, as far as it is.
Knows(j) ==
    /\ job[j].pc = "resume" => job[j].total = Size[source]
    /\ job[j].pc = "open" /\ Live(j) =>
          job[j].done = IF name.part = None THEN 0 ELSE Len(file[name.part].data)
    /\ job[j].pc = "copy" =>
          /\ name.part # None
          /\ job[j].file = name.part
          /\ job[j].done \in 0 .. Size[source]
          /\ file[name.part].data = Part(source, job[j].done)
    /\ job[j].pc \in {"replace", "chmod", "remove", "rename"} =>
          name.part # None /\ file[name.part].data = Content(source)

\* The part is the beginning of the source.
PartSound == name.part # None =>
                \E n \in 0 .. Size[source] : file[name.part].data = Part(source, n)

\* What TargetSafe says of an undisturbed transfer.
TargetPlace ==
    \/ Whole(name.target)
    \/ name.target = None /\ ~HadTarget
    \/ name.target = None /\ name.part # None /\ file[name.part].data = Content(source)

TargetInv == Undisturbed => PartSound /\ TargetPlace /\ \A j \in Jobs : Knows(j)

\* The beginning of a version, and how long it is.
LEMMA PartFacts ==
    ASSUME NEW v \in Versions, NEW n \in Nat
    PROVE  Part(v, n) \in Seq(Block) /\ Len(Part(v, n)) = n
  <1>1. v \in Nat /\ \A i \in 1 .. n : <<v, i>> \in Block
    BY SizeAssumption DEF Block
  <1>2. Part(v, n) \in [1 .. n -> Block]
    BY <1>1 DEF Part
  <1> QED
    BY <1>2

\* All of it is the version, none of it is the empty file.
LEMMA PartEnds ==
    ASSUME NEW v \in Versions
    PROVE  Content(v) = Part(v, Size[v]) /\ <<>> = Part(v, 0) /\ Size[v] \in Nat
  <1>1. Size[v] \in Nat
    BY SizeAssumption
  <1>2. Part(v, 0) \in Seq(Block) /\ Len(Part(v, 0)) = 0
    BY PartFacts
  <1>3. <<>> = Part(v, 0)
    BY <1>2
  <1> QED
    BY <1>1, <1>3 DEF Content, Part

\* The next block, appended or written at the end, makes it one longer.
LEMMA PartNext ==
    ASSUME NEW v \in Versions, NEW n \in Nat
    PROVE  /\ Append(Part(v, n), <<v, n + 1>>) = Part(v, n + 1)
           /\ WriteAt(Part(v, n), n, <<v, n + 1>>) = Part(v, n + 1)
  <1> DEFINE p == Part(v, n)
             b == <<v, n + 1>>
             q == Part(v, n + 1)
  <1>1. p \in Seq(Block) /\ Len(p) = n /\ b \in Block
    <2>1. p \in Seq(Block) /\ Len(p) = n
      BY PartFacts
    <2>2. b \in Block
      BY SizeAssumption DEF Block
    <2> QED
      BY <2>1, <2>2
  <1>2. \A i \in 1 .. n : p[i] = <<v, i>>
    BY DEF Part
  <1>3. q = [i \in 1 .. (n + 1) |-> <<v, i>>]
    BY DEF Part
  <1>4. q \in Seq(Block) /\ Len(q) = n + 1
    BY PartFacts
  <1> HIDE DEF p, q
  <1>5. Append(p, b) = q
    <2>1. Append(p, b) \in Seq(Block) /\ Len(Append(p, b)) = n + 1
      BY <1>1
    <2>2. ASSUME NEW i \in 1 .. (n + 1) PROVE Append(p, b)[i] = q[i]
      <3>1. q[i] = <<v, i>>
        BY <1>3
      <3>2. CASE i = n + 1
        BY <1>1, <3>1, <3>2
      <3>3. CASE i # n + 1
        <4>1. i \in 1 .. n
          BY <3>3
        <4> QED
          BY <1>1, <1>2, <3>1, <4>1
      <3> QED
        BY <3>2, <3>3
    <2> HIDE DEF b
    <2>3. \A s, t \in Seq(Block) :
            Len(s) = Len(t) /\ (\A i \in 1 .. Len(s) : s[i] = t[i]) => s = t
      BY SeqEqual
    <2> QED
      BY <1>4, <2>1, <2>2, <2>3
  <1>6. WriteAt(p, n, b) = q
    <2>1. WriteAt(p, n, b) = [i \in 1 .. (n + 1) |-> IF i = n + 1 THEN b
                                                     ELSE IF i <= n THEN p[i] ELSE Hole]
      BY <1>1 DEF WriteAt
    <2>2. \A i \in 1 .. (n + 1) :
            (IF i = n + 1 THEN b ELSE IF i <= n THEN p[i] ELSE Hole) = <<v, i>>
      BY <1>2
    <2> QED
      BY <1>3, <2>1, <2>2
  <1> QED
    BY <1>5, <1>6 DEF p, q

\* What a block adds to a part that is the beginning of the source.
LEMMA WrittenPart ==
    ASSUME TransferType, NEW j \in Jobs, job[j].done \in Nat,
           file[job[j].file].data = Part(source, job[j].done)
    PROVE  Written(j) = Part(source, job[j].done + 1)
  <1> DEFINE o == job[j].done
             d == file[job[j].file].data
             b == <<source, o + 1>>
  <1>1. Append(Part(source, o), b) = Part(source, o + 1)
        /\ WriteAt(Part(source, o), o, b) = Part(source, o + 1)
    BY PartNext DEF TransferType
  <1>2. Written(j) = IF job[j].append THEN Append(d, b) ELSE WriteAt(d, o, b)
    BY DEF Written
  <1>3. d = Part(source, o)
    OBVIOUS
  <1> HIDE DEF b, d, o
  <1>4. Written(j) = Part(source, o + 1)
    BY <1>1, <1>2, <1>3, Zenon
  <1> QED
    BY <1>4 DEF o

\* It is enough to look at the job that takes the step.
LEMMA TargetMove ==
    ASSUME BaseInv, TargetInv, NEW j \in Jobs, job[j].pc \in Working, OnlyMoves(j),
           UNCHANGED <<source, changed, overlap>>,
           PartSound /\ TargetPlace /\ Knows(j) => PartSound' /\ TargetPlace' /\ Knows(j)'
    PROVE  TargetInv'
  <1> SUFFICES ASSUME Undisturbed
               PROVE  PartSound' /\ TargetPlace' /\ \A k \in Jobs : Knows(k)'
    BY DEF TargetInv, Undisturbed
  <1>1. PartSound /\ TargetPlace /\ Knows(j)
    BY DEF TargetInv
  <1>2. ASSUME NEW k \in Jobs, k # j PROVE Knows(k)'
    <2>1. job'[k].pc \notin Working
      BY <1>2, OthersRest DEF OnlyMoves, Undisturbed
    <2> QED
      BY <2>1 DEF Knows, Working
  <1> QED
    BY <1>1, <1>2

\* A step that touches neither names nor contents.
LEMMA PlaceSame ==
    ASSUME TransferType, name' = name, source' = source,
           \A f \in Files : file'[f].data = file[f].data
    PROVE  /\ PartSound <=> PartSound'
           /\ TargetPlace <=> TargetPlace'
           /\ name.part # None => file'[name.part].data = file[name.part].data
  <1>1. name.target \in Files \cup {None} /\ name.part \in Files \cup {None} /\ Old \in Files
    BY Numbers DEF TransferType
  <1>2. PartSound <=> PartSound'
    BY <1>1 DEF PartSound
  <1>3. (Whole(name.target) <=> Whole(name.target)') /\ (HadTarget <=> HadTarget')
    BY <1>1 DEF Whole, HadTarget
  <1>4. TargetPlace <=> TargetPlace'
    BY <1>1, <1>3 DEF TargetPlace
  <1> QED
    BY <1>1, <1>2, <1>4

\* The steps of a job under way.
LEMMA JobTarget ==
    ASSUME BaseInv, TargetInv, NEW j \in Jobs, Step(j) \/ Cancel(j)
    PROVE  TargetInv'
  <1>0. /\ TransferType /\ Equipped(j) /\ Apart /\ Old \in Files /\ Old \notin Jobs
        /\ name.target \in Files \cup {None} /\ name.part \in Jobs \cup {None}
        /\ Jobs \subseteq Files /\ None \notin Files
        /\ source \in Versions
    BY Numbers DEF BaseInv, TransferType
  <1>1. CASE Stat(j)
    <2>1. /\ OnlyMoves(j) /\ job[j].pc = "stat" /\ job'[j].pc = "resume"
          /\ job'[j].total = Size[source]
      BY <1>0, <1>1, StatEffect
    <2>2. UNCHANGED <<name, file, source, changed, overlap>>
      BY <1>1 DEF Stat
    <2>3. Knows(j)'
      BY <2>1, <2>2 DEF Knows
    <2> QED
      BY <1>0, <2>1, <2>2, <2>3, PlaceSame, TargetMove DEF Working
  <1>2. CASE ReadPart(j)
    <2>1. /\ OnlyMoves(j) /\ job[j].pc = "resume" /\ job'[j].pc = "open"
          /\ job'[j].conn = job[j].conn
          /\ job'[j].done = ResumeOffset(IF kind = "upload" /\ ~Live(j) THEN None ELSE name.part,
                                         job[j].total)
      BY <1>0, <1>2, ReadEffect
    <2>2. UNCHANGED <<conn, name, file, source, changed, overlap>>
      BY <1>2 DEF ReadPart
    <2>3. ASSUME PartSound, Knows(j) PROVE Knows(j)'
      <3> SUFFICES ASSUME Live(j)
                   PROVE  job'[j].done = IF name.part = None THEN 0 ELSE Len(file[name.part].data)
        BY <2>1, <2>2 DEF Knows, Live
      <3>1. job'[j].done = ResumeOffset(name.part, Size[source])
        BY <2>1, <2>3 DEF Knows
      <3>2. name.part # None => Len(file[name.part].data) <= Size[source]
        <4> SUFFICES ASSUME name.part # None PROVE Len(file[name.part].data) <= Size[source]
          OBVIOUS
        <4>1. PICK n \in 0 .. Size[source] : file[name.part].data = Part(source, n)
          BY <2>3 DEF PartSound
        <4>2. Size[source] \in Nat
          BY <1>0, PartEnds
        <4>3. n \in Nat /\ n <= Size[source]
          BY <4>2
        <4>4. Len(Part(source, n)) = n
          BY <1>0, <4>3, PartFacts
        <4> QED
          BY <4>1, <4>3, <4>4
      <3> QED
        BY <3>1, <3>2 DEF ResumeOffset
    <2> QED
      BY <1>0, <2>1, <2>2, <2>3, PlaceSame, TargetMove DEF Working
  <1>3. CASE OpenPart(j)
    <2> DEFINE p == Opened(j)
               o == job[j].done
    <2>1. /\ OnlyMoves(j) /\ job[j].pc = "open" /\ job'[j].pc = "copy" /\ Live(j)
          /\ job'[j].done = o /\ job'[j].file = p /\ p \in Jobs
          /\ name' = [part |-> p, target |-> name.target]
          /\ \A f \in Files : f # p => file'[f] = file[f]
          /\ file'[p].data = IF o = 0 THEN <<>> ELSE file[p].data
      BY <1>0, <1>3, OpenEffect
    <2>2. UNCHANGED <<source, changed, overlap>>
      BY <1>3 DEF OpenPart
    <2>3. name'.part = p /\ name'.target = name.target /\ p # None /\ p # Old /\ p # name.target
      BY <1>0, <2>1 DEF Apart, Opened
    <2>4. ASSUME PartSound, Knows(j)
          PROVE  /\ o \in 0 .. Size[source]
                 /\ file'[p].data = Part(source, o)
                 /\ name.part # None => file'[name.part].data = file[name.part].data
      <3>1. Size[source] \in Nat /\ <<>> = Part(source, 0)
        BY <1>0, PartEnds
      <3>2. CASE name.part = None
        BY <2>1, <2>4, <3>1, <3>2 DEF Knows
      <3>3. CASE name.part # None
        <4>1. p = name.part
          BY <3>3 DEF Opened
        <4>2. PICK n \in 0 .. Size[source] : file[name.part].data = Part(source, n)
          BY <2>4, <3>3 DEF PartSound
        <4>3. Len(Part(source, n)) = n
          BY <1>0, <3>1, PartFacts
        <4>4. o = n
          BY <2>1, <2>4, <3>3, <4>2, <4>3 DEF Knows
        <4> QED
          BY <2>1, <3>1, <4>1, <4>2, <4>4
      <3> QED
        BY <3>2, <3>3
    <2>5. HadTarget' <=> HadTarget
      BY <1>0, <2>1, <2>3 DEF HadTarget
    <2>6. Whole(name.target) => Whole(name.target)'
      BY <1>0, <2>1, <2>3 DEF Whole
    <2> HIDE DEF p, o
    <2>7. ASSUME PartSound, TargetPlace, Knows(j) PROVE PartSound' /\ TargetPlace' /\ Knows(j)'
      <3>1. PartSound'
        BY <2>2, <2>3, <2>4, <2>7 DEF PartSound
      <3>2. TargetPlace'
        <4>1. name.part # None => p = name.part
          BY DEF p, Opened
        <4> QED
          BY <2>2, <2>3, <2>4, <2>5, <2>6, <2>7, <4>1 DEF TargetPlace
      <3>3. Knows(j)'
        BY <2>1, <2>2, <2>3, <2>4, <2>7 DEF Knows
      <3> QED
        BY <3>1, <3>2, <3>3
    <2> QED
      BY <2>1, <2>2, <2>7, TargetMove DEF Working
  <1>4. CASE CopyBlock(j)
    <2> DEFINE p == job[j].file
               o == job[j].done
    <2>1. /\ OnlyMoves(j) /\ job[j].pc = "copy" /\ job'[j].pc = "copy" /\ p \in Jobs
          /\ job'[j].file = p /\ job'[j].done = o + 1 /\ o < Size[source] /\ o \in Nat
          /\ \A f \in Files : f # p => file'[f] = file[f]
          /\ file'[p].data = Written(j)
      BY <1>0, <1>4, CopyEffect
    <2>2. UNCHANGED <<name, source, changed, overlap>>
      BY <1>4 DEF CopyBlock
    <2>3. ASSUME PartSound, TargetPlace, Knows(j) PROVE PartSound' /\ TargetPlace' /\ Knows(j)'
      <3>1. p = name.part /\ name.part # None /\ file[p].data = Part(source, o)
        BY <2>1, <2>3 DEF Knows
      <3>2. file'[p].data = Part(source, o + 1)
        BY <1>0, <2>1, <3>1, WrittenPart
      <3>3. Size[source] \in Nat /\ Content(source) = Part(source, Size[source])
        BY <1>0, PartEnds
      <3>4. file[p].data # Content(source)
        <4>1. Len(Part(source, o)) = o /\ Len(Part(source, Size[source])) = Size[source]
          BY <1>0, <2>1, <3>3, PartFacts
        <4> QED
          BY <2>1, <3>1, <3>3, <4>1
      <3>5. p # Old /\ p # name.target
        BY <1>0, <2>1, <3>1 DEF Apart
      <3>6. (HadTarget' <=> HadTarget) /\ (Whole(name.target) => Whole(name.target)')
        BY <1>0, <2>1, <2>2, <3>5 DEF HadTarget, Whole
      <3>7. o + 1 \in 0 .. Size[source]
        BY <2>1, <3>3
      <3> HIDE DEF p, o
      <3>8. PartSound'
        BY <2>2, <3>1, <3>2, <3>7 DEF PartSound
      <3>9. TargetPlace'
        BY <2>2, <2>3, <3>1, <3>4, <3>6 DEF TargetPlace
      <3>10. Knows(j)'
        BY <2>1, <2>2, <3>1, <3>2, <3>7 DEF Knows
      <3> QED
        BY <3>8, <3>9, <3>10
    <2> QED
      BY <2>1, <2>2, <2>3, TargetMove DEF Working
  <1>5. CASE EndOfSource(j)
    <2>1. /\ OnlyMoves(j) /\ job[j].pc = "copy" /\ job'[j].pc \in {"rename", "replace"}
          /\ job[j].done >= Size[source]
      BY <1>0, <1>5, EndOfSourceEffect
    <2>2. UNCHANGED <<name, file, source, changed, overlap>>
      BY <1>5 DEF EndOfSource
    <2>3. ASSUME Knows(j) PROVE Knows(j)'
      <3>1. Size[source] \in Nat /\ Content(source) = Part(source, Size[source])
        BY <1>0, PartEnds
      <3>2. job[j].done \in 0 .. Size[source] /\ name.part # None
            /\ file[name.part].data = Part(source, job[j].done)
        BY <2>1, <2>3 DEF Knows
      <3>3. job[j].done = Size[source]
        BY <2>1, <3>1, <3>2
      <3>4. file[name.part].data = Content(source)
        BY <3>1, <3>2, <3>3
      <3> QED
        BY <2>1, <2>2, <3>2, <3>4 DEF Knows
    <2> QED
      BY <1>0, <2>1, <2>2, <2>3, PlaceSame, TargetMove DEF Working
  <1>6. CASE StatTarget(j)
    <2>1. OnlyMoves(j) /\ job[j].pc = "replace" /\ job'[j].pc \in {"chmod", "rename"}
      BY <1>0, <1>6, StatTargetEffect
    <2>2. UNCHANGED <<name, file, source, changed, overlap>>
      BY <1>6 DEF StatTarget
    <2>3. Knows(j) => Knows(j)'
      BY <2>1, <2>2 DEF Knows
    <2> QED
      BY <1>0, <2>1, <2>2, <2>3, PlaceSame, TargetMove DEF Working
  <1>7. CASE KeepMode(j)
    <2>1. /\ OnlyMoves(j) /\ job[j].pc = "chmod" /\ job'[j].pc = "remove"
          /\ \A f \in Files : file'[f].data = file[f].data
      BY <1>0, <1>7, KeepEffect
    <2>2. UNCHANGED <<name, source, changed, overlap>>
      BY <1>7 DEF KeepMode
    <2>3. Knows(j) => Knows(j)'
      BY <1>0, <2>1, <2>2, PlaceSame DEF Knows
    <2> QED
      BY <1>0, <2>1, <2>2, <2>3, PlaceSame, TargetMove DEF Working
  <1>8. CASE RemoveTarget(j)
    <2>1. /\ OnlyMoves(j) /\ job[j].pc = "remove" /\ job'[j].pc = "rename"
          /\ name' = [part |-> name.part, target |-> None]
      BY <1>0, <1>8, RemoveEffect
    <2>2. UNCHANGED <<file, source, changed, overlap>>
      BY <1>8 DEF RemoveTarget
    <2>3. name'.part = name.part /\ name'.target = None
      BY <2>1
    <2>4. ASSUME PartSound, Knows(j) PROVE PartSound' /\ TargetPlace' /\ Knows(j)'
      <3>1. name.part # None /\ file[name.part].data = Content(source)
        BY <2>1, <2>4 DEF Knows
      <3> QED
        BY <2>1, <2>2, <2>3, <2>4, <3>1 DEF PartSound, TargetPlace, Knows
    <2> QED
      BY <2>1, <2>2, <2>4, TargetMove DEF Working
  <1>9. CASE Rename(j)
    <2>1. /\ OnlyMoves(j) /\ job[j].pc = "rename" /\ job'[j].pc = "done"
          /\ name.part # None
          /\ name' = [part |-> None, target |-> name.part]
      BY <1>0, <1>9, RenameEffect
    <2>2. UNCHANGED <<file, source, changed, overlap>>
      BY <1>9 DEF Rename
    <2>3. name'.part = None /\ name'.target = name.part
      BY <2>1
    <2>4. ASSUME Knows(j) PROVE PartSound' /\ TargetPlace' /\ Knows(j)'
      <3>1. file[name.part].data = Content(source)
        BY <2>1, <2>4 DEF Knows
      <3>2. Whole(name.target)'
        BY <1>0, <2>1, <2>2, <2>3, <3>1 DEF Whole
      <3> QED
        BY <2>1, <2>3, <3>2 DEF PartSound, TargetPlace, Knows
    <2> QED
      BY <2>1, <2>2, <2>4, TargetMove DEF Working
  <1>10. CASE Cancel(j) \/ Fail(j)
    <2>1. OnlyMoves(j) /\ job'[j].pc \in {"cancelled", "failed"}
      BY <1>0, <1>10, StopEffect
    <2>2. UNCHANGED <<name, file, source, changed, overlap>>
      BY <1>10 DEF Cancel, Fail
    <2>3. job[j].pc \in Working
      BY <1>0, <1>10, ActiveIsWorking DEF Cancel, Fail, TransferType, Working
    <2>4. Knows(j)'
      BY <2>1 DEF Knows
    <2> QED
      BY <1>0, <2>1, <2>2, <2>3, <2>4, PlaceSame, TargetMove
  <1> QED
    BY <1>1, <1>2, <1>3, <1>4, <1>5, <1>6, <1>7, <1>8, <1>9, <1>10 DEF Step

\* Every step keeps it.
LEMMA TargetStep == BaseInv /\ TargetInv /\ [Next]_vars => TargetInv'
  <1> SUFFICES ASSUME BaseInv, TargetInv, [Next]_vars PROVE TargetInv'
    OBVIOUS
  <1>1. ASSUME NEW j \in Jobs, NEW c \in Conns, Start(j, c) PROVE TargetInv'
    <2>1. UNCHANGED <<conn, source, name, file, changed>> /\ (overlap => overlap')
      BY <1>1 DEF Start, BaseInv, TransferType
    <2>2. OnlyMoves(j) /\ job'[j].pc \in {"stat", "failed"}
      BY <1>1, StartEffect DEF BaseInv
    <2>3. \A k \in Jobs : Knows(k) => Knows(k)'
      BY <2>1, <2>2 DEF Knows, OnlyMoves, Live
    <2> QED
      BY <2>1, <2>3 DEF TargetInv, Undisturbed, PartSound, TargetPlace, Whole, HadTarget
  <1>2. ASSUME NEW c \in Conns, Connect(c) \/ Drop(c) \/ Disconnect(c) \/ Close(c)
        PROVE  TargetInv'
    <2>1. /\ UNCHANGED <<job, source, name, file, changed, overlap>>
          /\ \A j \in Jobs : job[j].pc \in Working /\ Live(j)' => Live(j)
      BY <1>2, ConnBase
    <2>2. \A k \in Jobs : Knows(k) => Knows(k)'
      BY <2>1 DEF Knows, Working
    <2> QED
      BY <2>1, <2>2 DEF TargetInv, Undisturbed, PartSound, TargetPlace, Whole, HadTarget
  <1>3. ASSUME NEW v \in Versions, ChangeSource(v) PROVE TargetInv'
    <2>1. /\ UNCHANGED <<conn, job, name, file, overlap>>
          /\ changed' = (changed \/ name.part # None \/ \E j \in Jobs : Active(j))
      BY <1>3 DEF ChangeSource
    <2> SUFFICES ASSUME Undisturbed' PROVE PartSound' /\ TargetPlace' /\ \A j \in Jobs : Knows(j)'
      BY DEF TargetInv
    <2>2. Undisturbed /\ name.part = None /\ \A j \in Jobs : ~Active(j)
      BY <2>1 DEF Undisturbed
    <2>3. ASSUME NEW j \in Jobs PROVE Knows(j)'
      <3>1. job'[j].pc \notin Working
        BY <2>1, <2>2, ActiveIsWorking DEF BaseInv, TransferType
      <3> QED
        BY <3>1 DEF Knows, Working
    <2> QED
      BY <2>1, <2>2, <2>3 DEF TargetInv, PartSound, TargetPlace, Whole, HadTarget
  <1>4. CASE UNCHANGED vars
    <2>1. UNCHANGED <<conn, job, source, name, file, changed, overlap>>
      BY <1>4 DEF vars
    <2>2. \A k \in Jobs : Knows(k) => Knows(k)'
      BY <2>1 DEF Knows, Live
    <2> QED
      BY <2>1, <2>2 DEF TargetInv, Undisturbed, PartSound, TargetPlace, Whole, HadTarget
  <1> QED
    BY <1>1, <1>2, <1>3, <1>4, JobTarget DEF Next

\* It holds at first: the target is not there, or it is the old file.
LEMMA TargetInit == Init => TargetInv
  <1> SUFFICES ASSUME Init PROVE TargetInv
    OBVIOUS
  <1>1. PICK t \in {None, Old} :
          /\ name = [part |-> None, target |-> t]
          /\ file = [f \in Files |-> IF f = t THEN [data |-> OldContent, mode |-> "kept"]
                                              ELSE [data |-> <<>>, mode |-> "default"]]
    BY DEF Init
  <1>2. t = None => file[Old].data = <<>>
    BY <1>1, Numbers
  <1>3. t = Old => file[Old].data = OldContent
    BY <1>1, Numbers
  <1>4. \A j \in Jobs : job[j].pc = "idle"
    BY BlankType DEF Init
  <1>5. name.part = None /\ name.target = t
    BY <1>1
  <1>6. TargetPlace
    BY <1>2, <1>3, <1>5, Numbers DEF TargetPlace, Whole, HadTarget
  <1> QED
    BY <1>4, <1>5, <1>6 DEF TargetInv, PartSound, Knows

\* However often a transfer is dropped, cancelled and resumed, for any number
\* of attempts and every size, its target is the file that was there or a
\* whole version of the source, and a file that an upload replaces is not
\* lost.
THEOREM TargetNeverBroken == Spec => []TargetSafe
  <1>1. BaseInv /\ TargetInv /\ [Next]_vars => BaseInv' /\ TargetInv'
    BY BaseStep, TargetStep
  <1>2. TargetInv => TargetSafe
    BY DEF TargetInv, TargetPlace, TargetSafe
  <1> QED
    BY <1>1, <1>2, BaseInit, TargetInit, PTL DEF Spec

\* A transfer that reports success has delivered what the source holds,
\* whichever attempt it is.
THEOREM SuccessDelivers == Spec => DoneDelivers
  <1> DEFINE Delivers == \A j \in Jobs :
                             job[j].pc # "done" /\ job'[j].pc = "done" /\ Undisturbed =>
                                 file[name'.target].data = Content(source)
  <1>1. ASSUME BaseInv, TargetInv, [Next]_vars PROVE [Delivers]_vars
    <2> SUFFICES ASSUME NEW j \in Jobs, job[j].pc # "done", job'[j].pc = "done", Undisturbed, Next
                 PROVE  file[name'.target].data = Content(source)
      BY <1>1 DEF vars
    <2>0. TransferType /\ (\A k \in Jobs : Equipped(k))
      BY <1>1 DEF BaseInv
    <2>1. ASSUME NEW k \in Jobs, Step(k) \/ Cancel(k) PROVE k = j /\ Rename(j)
      <3>1. ASSUME OnlyMoves(k), job'[k].pc # "done" PROVE FALSE
        BY <3>1 DEF OnlyMoves
      <3>2. Rename(k)
        <4> SUFFICES ASSUME ~Rename(k) PROVE FALSE
          OBVIOUS
        <4> QED
          BY <2>0, <2>1, <3>1, StatEffect, ReadEffect, OpenEffect, CopyEffect, EndOfSourceEffect,
             StatTargetEffect, KeepEffect, RemoveEffect, StopEffect DEF Step
      <3>3. OnlyMoves(k)
        BY <2>0, <3>2, RenameEffect
      <3> QED
        BY <3>2, <3>3 DEF OnlyMoves
    <2>2. ASSUME NEW k \in Jobs, NEW c \in Conns, Start(k, c) PROVE FALSE
      <3>1. OnlyMoves(k) /\ job'[k].pc # "done"
        BY <2>0, <2>2, StartEffect
      <3> QED
        BY <3>1 DEF OnlyMoves
    <2>3. job' # job
      OBVIOUS
    <2>4. \E k \in Jobs : Step(k) \/ Cancel(k)
      BY <2>2, <2>3 DEF Next, Connect, Drop, Disconnect, Close, ChangeSource
    <2>5. Rename(j)
      BY <2>1, <2>4
    <2>6. job[j].pc = "rename" /\ name' = [part |-> None, target |-> name.part]
      BY <2>0, <2>5, RenameEffect
    <2>7. file[name.part].data = Content(source)
      BY <1>1, <2>6 DEF TargetInv, Knows
    <2> QED
      BY <2>6, <2>7
  <1>2. BaseInv /\ TargetInv /\ [Next]_vars => BaseInv' /\ TargetInv'
    BY BaseStep, TargetStep
  <1> QED
    BY <1>1, <1>2, BaseInit, TargetInit, PTL DEF Spec, DoneDelivers

-----------------------------------------------------------------------------
(* The file tree.  Numbers and paths first.                                 *)

\* Every non-empty set of numbers has a least one.
LEMMA Least ==
    ASSUME NEW T, T \subseteq Nat, T # {}
    PROVE  \E x \in T : \A y \in T : x <= y
  <1> DEFINE R == OpToRel(<, Nat)
  <1>1. IsWellFoundedOn(R, Nat)
    BY NatLessThanWellFounded
  <1>2. \A x, y \in Nat : x < y => <<x, y>> \in R
    BY DEF OpToRel
  <1> HIDE DEF R
  <1>3. PICK x \in T : \A y \in T : ~(<<y, x>> \in R)
    BY <1>1, WFMin
  <1>4. ASSUME NEW y \in T PROVE x <= y
    <2>1. x \in Nat /\ y \in Nat
      OBVIOUS
    <2>2. ~(y < x)
      BY <1>2, <1>3, <2>1
    <2> QED
      BY <2>1, <2>2
  <1> QED
    BY <1>4

\* What holds of 0 and goes on from each number to the next holds up to n.
LEMMA Climb ==
    ASSUME NEW n \in Nat, NEW G, 0 \in G, \A i \in 0 .. (n - 1) : i \in G => i + 1 \in G
    PROVE  \A i \in 0 .. n : i \in G
  <1> DEFINE T == {i \in 0 .. n : i \notin G}
  <1> SUFFICES ASSUME T # {} PROVE FALSE
    OBVIOUS
  <1>0. T \subseteq Nat
    OBVIOUS
  <1> HIDE DEF T
  <1>1. PICK x \in T : \A y \in T : x <= y
    BY <1>0, Least
  <1> USE DEF T
  <1>2. x \in 0 .. n /\ x \notin G /\ x # 0
    OBVIOUS
  <1>3. x - 1 \in 0 .. (n - 1) /\ x - 1 \in 0 .. n
    BY <1>2
  <1>4. x - 1 \in G
    BY <1>1, <1>2, <1>3
  <1> QED
    BY <1>2, <1>3, <1>4

-----------------------------------------------------------------------------
(* Paths.                                                                   *)

\* The first i names of a path.
Pre(p, i) == SubSeq(p, 1, i)

\* A beginning of a path is a path, of the names the path begins with.
LEMMA PreFacts ==
    ASSUME NEW p \in Seq(Names), NEW i \in 0 .. Len(p)
    PROVE  Pre(p, i) \in Seq(Names) /\ Len(Pre(p, i)) = i /\ \A k \in 1 .. i : Pre(p, i)[k] = p[k]
  <1>1. Pre(p, i) = [k \in 1 .. i |-> p[k]]
    BY DEF Pre
  <1>2. \A k \in 1 .. i : p[k] \in Names
    BY ElementOfSeq
  <1>3. [k \in 1 .. i |-> p[k]] \in [1 .. i -> Names]
    BY <1>2
  <1>4. Pre(p, i) \in Seq(Names)
    BY <1>1, <1>3
  <1>5. Len(Pre(p, i)) = i
    BY <1>1, <1>3
  <1> QED
    BY <1>1, <1>4, <1>5

\* A beginning of a beginning is a beginning.
LEMMA PrePre ==
    ASSUME NEW p \in Seq(Names), NEW j \in 0 .. Len(p), NEW i \in 0 .. j
    PROVE  Pre(Pre(p, j), i) = Pre(p, i)
  <1>1. i \in 0 .. Len(p) /\ Len(Pre(p, j)) = j
    BY PreFacts
  <1>2. Pre(p, j) \in Seq(Names) /\ i \in 0 .. Len(Pre(p, j))
    BY <1>1, PreFacts
  <1>3. Pre(Pre(p, j), i) \in Seq(Names) /\ Len(Pre(Pre(p, j), i)) = i
    BY <1>2, PreFacts
  <1>4. Pre(p, i) \in Seq(Names) /\ Len(Pre(p, i)) = i
    BY <1>1, PreFacts
  <1>5. \A k \in 1 .. i : Pre(Pre(p, j), i)[k] = Pre(p, i)[k]
    <2> TAKE k \in 1 .. i
    <2>1. Pre(Pre(p, j), i)[k] = Pre(p, j)[k]
      BY <1>2, PreFacts
    <2>2. Pre(p, j)[k] = p[k]
      <3>1. k \in 1 .. j
        OBVIOUS
      <3> QED
        BY <3>1, PreFacts
    <2>3. Pre(p, i)[k] = p[k]
      BY <1>1, PreFacts
    <2> QED
      BY <2>1, <2>2, <2>3
  <1> QED
    BY <1>3, <1>4, <1>5, SeqEqual

\* The longest beginning and the shortest.
LEMMA PreAll ==
    ASSUME NEW p \in Seq(Names)
    PROVE  Pre(p, Len(p)) = p /\ Pre(p, 0) = Root
  <1>1. Len(p) \in Nat /\ 0 \in 0 .. Len(p) /\ Len(p) \in 0 .. Len(p)
    OBVIOUS
  <1>2. /\ Pre(p, Len(p)) \in Seq(Names) /\ Len(Pre(p, Len(p))) = Len(p)
        /\ \A k \in 1 .. Len(p) : Pre(p, Len(p))[k] = p[k]
    BY <1>1, PreFacts
  <1>3. Pre(p, Len(p)) = p
    BY <1>2, SeqEqual
  <1>4. Pre(p, 0) \in Seq(Names) /\ Len(Pre(p, 0)) = 0
    BY <1>1, PreFacts
  <1>5. Pre(p, 0) = <<>>
    BY <1>4
  <1> QED
    BY <1>3, <1>5 DEF Root

\* A path with a name after it, and back.
LEMMA AppendFacts ==
    ASSUME NEW p \in Seq(Names), NEW n \in Names
    PROVE  /\ Append(p, n) \in Seq(Names) /\ Len(Append(p, n)) = Len(p) + 1
           /\ Append(p, n) # Root
           /\ Front(Append(p, n)) = p /\ Last(Append(p, n)) = n
           /\ \A i \in 0 .. Len(p) : Pre(Append(p, n), i) = Pre(p, i)
  <1> DEFINE a == Append(p, n)
  <1>1. /\ a \in Seq(Names) /\ Len(a) = Len(p) + 1 /\ a[Len(p) + 1] = n
        /\ \A k \in 1 .. Len(p) : a[k] = p[k]
        /\ Len(p) \in Nat
    OBVIOUS
  <1> HIDE DEF a
  <1>2. ASSUME NEW i \in 0 .. Len(p) PROVE Pre(a, i) = Pre(p, i)
    <2>1. i \in 0 .. Len(a)
      BY <1>1
    <2>2. Pre(a, i) \in Seq(Names) /\ Len(Pre(a, i)) = i /\ \A k \in 1 .. i : Pre(a, i)[k] = a[k]
      BY <1>1, <2>1, PreFacts
    <2>3. Pre(p, i) \in Seq(Names) /\ Len(Pre(p, i)) = i /\ \A k \in 1 .. i : Pre(p, i)[k] = p[k]
      BY PreFacts
    <2>4. \A k \in 1 .. i : k \in 1 .. Len(p)
      BY <1>1
    <2>5. \A k \in 1 .. i : Pre(a, i)[k] = Pre(p, i)[k]
      BY <1>1, <2>2, <2>3, <2>4
    <2> QED
      BY <2>2, <2>3, <2>5, SeqEqual
  <1>3. Front(a) = Pre(a, Len(p))
    BY <1>1 DEF Front, Pre
  <1>4. Pre(a, Len(p)) = p
    BY <1>1, <1>2, PreAll
  <1>5. Last(a) = n
    BY <1>1 DEF Last
  <1>6. a # Root
    BY <1>1 DEF Root
  <1> QED
    BY <1>1, <1>2, <1>3, <1>4, <1>5, <1>6 DEF a

\* A path that is not the root is its folder with its last name.
LEMMA FrontFacts ==
    ASSUME NEW p \in Seq(Names), p # Root
    PROVE  /\ Len(p) \in Nat \ {0}
           /\ Front(p) = Pre(p, Len(p) - 1) /\ Front(p) \in Seq(Names)
           /\ Len(Front(p)) = Len(p) - 1
           /\ Last(p) \in Names /\ Append(Front(p), Last(p)) = p
  <1>1. Len(p) \in Nat \ {0}
    BY DEF Root
  <1>2. Front(p) = Pre(p, Len(p) - 1)
    BY DEF Front, Pre
  <1> DEFINE f == Pre(p, Len(p) - 1)
  <1>3. f \in Seq(Names) /\ Len(f) = Len(p) - 1 /\ \A k \in 1 .. (Len(p) - 1) : f[k] = p[k]
    BY <1>1, PreFacts
  <1> HIDE DEF f
  <1>4. Last(p) = p[Len(p)] /\ p[Len(p)] \in Names
    BY <1>1, ElementOfSeq DEF Last
  <1> DEFINE n == p[Len(p)]
             a == Append(f, n)
  <1> HIDE DEF n
  <1>5. n \in Names
    BY <1>4 DEF n
  <1>6. /\ a \in Seq(Names) /\ Len(a) = Len(f) + 1 /\ a[Len(f) + 1] = n
        /\ \A k \in 1 .. Len(f) : a[k] = f[k]
    BY <1>3, <1>5
  <1> HIDE DEF a
  <1>7. Len(a) = Len(p) /\ a[Len(p)] = n /\ \A k \in 1 .. (Len(p) - 1) : a[k] = p[k]
    BY <1>1, <1>3, <1>6
  <1>8. \A k \in 1 .. Len(a) : a[k] = p[k]
    <2> TAKE k \in 1 .. Len(a)
    <2>1. CASE k = Len(p)
      BY <1>7, <2>1 DEF n
    <2>2. CASE k # Len(p)
      BY <1>1, <1>7, <2>2
    <2> QED
      BY <2>1, <2>2
  <1>9. a = p
    BY <1>6, <1>7, <1>8, SeqEqual
  <1> QED
    BY <1>1, <1>2, <1>3, <1>4, <1>9 DEF a, f, n

\* What is under a folder begins with its path.
LEMMA UnderFacts ==
    ASSUME NEW r \in Seq(Names), NEW p \in Seq(Names)
    PROVE  Under(r, p) <=> Len(r) <= Len(p) /\ Pre(p, Len(r)) = r
  <1>1. SubSeq(r, 1, Len(r)) = r
    BY PreAll DEF Pre
  <1> QED
    BY <1>1 DEF Under, IsPrefix, Pre

\* The folders on the way to an entry are folders of the tree, up to the root.
LEMMA PrefixDirs ==
    ASSUME NEW g, DOMAIN g \subseteq Seq(Names),
           \A q \in DOMAIN g \ {Root} : Is(g, Front(q), "dir"),
           NEW p \in DOMAIN g, NEW i \in Nat, i < Len(p)
    PROVE  Is(g, Pre(p, i), "dir")
  <1>0. p \in Seq(Names) /\ Len(p) \in Nat
    OBVIOUS
  <1> DEFINE m == Len(p) - 1
             G == {k \in 0 .. m : Is(g, Pre(p, m - k), "dir")}
  <1>1. m \in Nat
    BY <1>0
  <1>2. Is(g, Pre(p, m), "dir")
    <2>1. p # Root
      BY <1>0, <1>1 DEF Root
    <2>2. Front(p) = Pre(p, m)
      BY <1>0, <2>1, FrontFacts
    <2> QED
      BY <2>1, <2>2
  <1> HIDE DEF m
  <1>3. 0 \in G
    <2>1. m - 0 = m
      BY <1>1
    <2> QED
      BY <1>1, <1>2, <2>1
  <1>4. ASSUME NEW k \in 0 .. (m - 1), k \in G PROVE k + 1 \in G
    <2> DEFINE q == Pre(p, m - k)
    <2>1. m - k \in 1 .. Len(p) /\ m - (k + 1) = (m - k) - 1 /\ m - (k + 1) \in 0 .. (m - k)
      BY <1>0, <1>1 DEF m
    <2>2. q \in DOMAIN g
      BY <1>4 DEF Is, Exists
    <2>3. q \in Seq(Names) /\ Len(q) = m - k
      BY <1>0, <2>1, PreFacts
    <2>4. q # Root
      BY <2>1, <2>3 DEF Root
    <2>5. Front(q) = Pre(q, m - (k + 1))
      BY <2>1, <2>3, <2>4, FrontFacts
    <2>6. Pre(q, m - (k + 1)) = Pre(p, m - (k + 1))
      BY <1>0, <2>1, PrePre
    <2> QED
      BY <1>1, <2>2, <2>4, <2>5, <2>6
  <1> HIDE DEF G
  <1>5. \A k \in 0 .. m : k \in G
    BY <1>1, <1>3, <1>4, Climb
  <1>6. m - i \in 0 .. m /\ m - (m - i) = i
    BY <1>0, <1>1 DEF m
  <1> QED
    BY <1>5, <1>6 DEF G

-----------------------------------------------------------------------------
(* Where links lead.                                                        *)

\* The paths that Real goes through from p on.
Chain(g, p, f) ==
    /\ f[0] = p /\ Real(g, p) = f[MaxDepth]
    /\ \A n \in 1 .. MaxDepth : f[n] = Follow(g, f[n - 1])

\* The function that Real defines by recursion exists.
LEMMA RealSteps ==
    ASSUME NEW g, NEW p, MaxDepth \in Nat
    PROVE  \E f : Chain(g, p, f)
  <1> DEFINE Steps(f, n) == f = [k \in 0 .. n |-> IF k = 0 THEN p ELSE Follow(g, f[k - 1])]
             G == {n \in Nat : \E f : Steps(f, n)}
  <1>1. 0 \in G
    <2> DEFINE h == [k \in 0 .. 0 |-> p]
    <2>1. Steps(h, 0)
      OBVIOUS
    <2> QED
      BY <2>1
  <1>2. ASSUME NEW n \in 0 .. (MaxDepth - 1), n \in G PROVE n + 1 \in G
    <2>1. PICK f : Steps(f, n)
      BY <1>2
    <2> DEFINE h == [k \in 0 .. (n + 1) |-> IF k = 0 THEN p ELSE Follow(g, f[k - 1])]
    <2>2. ASSUME NEW k \in 0 .. n PROVE h[k] = f[k]
      <3>1. k \in 0 .. (n + 1)
        OBVIOUS
      <3> QED
        BY <2>1, <3>1
    <2>3. \A k \in 0 .. (n + 1) : k # 0 => k - 1 \in 0 .. n
      OBVIOUS
    <2>4. \A k \in 0 .. (n + 1) : h[k] = IF k = 0 THEN p ELSE Follow(g, h[k - 1])
      BY <2>2, <2>3
    <2>5. h = [k \in 0 .. (n + 1) |-> h[k]]
      OBVIOUS
    <2> HIDE DEF h
    <2>6. Steps(h, n + 1)
      BY <2>4, <2>5
    <2> QED
      BY <2>6
  <1>3. \A n \in 0 .. MaxDepth : n \in G
    <2> HIDE DEF G
    <2> QED
      BY <1>1, <1>2, Climb
  <1> DEFINE after == CHOOSE f : Steps(f, MaxDepth)
  <1>4. Steps(after, MaxDepth)
    <2>1. \E f : Steps(f, MaxDepth)
      BY <1>3
    <2> QED
      BY <2>1
  <1>5. Real(g, p) = after[MaxDepth]
    BY DEF Real
  <1> HIDE DEF after
  <1>6. after[0] = p /\ \A n \in 1 .. MaxDepth : after[n] = Follow(g, after[n - 1])
    BY <1>4
  <1> QED
    BY <1>5, <1>6 DEF Chain

\* A path that leads nowhere else is its own real path.
LEMMA RealFix ==
    ASSUME NEW g, NEW p, MaxDepth \in Nat, Follow(g, p) = p
    PROVE  Real(g, p) = p
  <1>1p. PICK f : Chain(g, p, f)
    BY RealSteps
  <1>1. /\ f[0] = p /\ Real(g, p) = f[MaxDepth]
        /\ \A n \in 1 .. MaxDepth : f[n] = Follow(g, f[n - 1])
    BY <1>1p DEF Chain
  <1> DEFINE G == {n \in Nat : f[n] = p}
  <1>2. 0 \in G
    BY <1>1
  <1>3. ASSUME NEW n \in 0 .. (MaxDepth - 1), n \in G PROVE n + 1 \in G
    <2>1. n + 1 \in 1 .. MaxDepth /\ (n + 1) - 1 = n
      OBVIOUS
    <2>2. f[n + 1] = Follow(g, f[n])
      BY <1>1, <2>1
    <2> QED
      BY <1>3, <2>2
  <1>4. \A n \in 0 .. MaxDepth : n \in G
    <2> HIDE DEF G
    <2> QED
      BY <1>2, <1>3, Climb
  <1> QED
    BY <1>1, <1>4

\* No link on the way to p, p itself included.
Clean(g, p) == \A i \in 1 .. Len(p) : ~Is(g, Pre(p, i), "link")

\* A path without links is its own canonical form.
LEMMA CleanReal ==
    ASSUME NEW g, NEW p, MaxDepth \in Nat, Clean(g, p)
    PROVE  Real(g, p) = p
  <1>1. Follow(g, p) = p
    BY DEF Follow, Clean, Is, Exists, Pre
  <1> QED
    BY <1>1, RealFix

\* No link on the way to p, p itself apart.
NearClean(g, p) == \A i \in 1 .. (Len(p) - 1) : ~Is(g, Pre(p, i), "link")

\* A path without links on the way is what lstat looks at.
LEMMA NearCleanLReal ==
    ASSUME NEW g, NEW p \in Seq(Names), MaxDepth \in Nat, NearClean(g, p)
    PROVE  LReal(g, p) = p
  <1>1. CASE p = Root
    BY <1>1 DEF LReal
  <1>2. CASE p # Root
    <2>1. /\ Len(p) \in Nat \ {0} /\ Front(p) = Pre(p, Len(p) - 1) /\ Len(Front(p)) = Len(p) - 1
          /\ Append(Front(p), Last(p)) = p
      BY <1>2, FrontFacts
    <2>2. ASSUME NEW i \in 1 .. (Len(p) - 1) PROVE Pre(Front(p), i) = Pre(p, i)
      <3>1. Len(p) - 1 \in 0 .. Len(p) /\ i \in 0 .. (Len(p) - 1)
        BY <2>1
      <3> QED
        BY <2>1, <3>1, PrePre
    <2>3. Clean(g, Front(p))
      BY <2>1, <2>2 DEF Clean, NearClean
    <2>4. Real(g, Front(p)) = Front(p)
      BY <2>3, CleanReal
    <2> QED
      BY <1>2, <2>1, <2>4 DEF LReal
  <1> QED
    BY <1>1, <1>2

\* Sequences of the elements of a finite set hold every one.
LEMMA SetToSeqsFacts ==
    ASSUME NEW S, IsFiniteSet(S), NEW s \in SetToSeqs(S)
    PROVE  s \in Seq(S) /\ \A x \in S : \E i \in 1 .. Len(s) : s[i] = x
  <1> DEFINE n == Cardinality(S)
  <1>1. n \in Nat
    BY FS_CardinalityType
  <1>2. s \in [1 .. n -> S] /\ \A i, j \in 1 .. n : i # j => s[i] # s[j]
    BY DEF SetToSeqs
  <1>3. IsFiniteSet(1 .. n) /\ Cardinality(1 .. n) = n
    BY <1>1, FS_Interval
  <1>4. s \in Injection(1 .. n, S)
    BY <1>2 DEF Injection, IsInjective
  <1>5. s \in Surjection(1 .. n, S)
    BY <1>3, <1>4, FS_Injection
  <1>6. s \in Seq(S) /\ Len(s) = n
    BY <1>1, <1>2
  <1>7. \A x \in S : \E i \in 1 .. n : s[i] = x
    BY <1>5 DEF Surjection
  <1> QED
    BY <1>6, <1>7

\* A path is under itself,
LEMMA UnderSelf ==
    ASSUME NEW p \in Seq(Names)
    PROVE  Under(p, p)
  BY PreAll, UnderFacts

\* under what its folders are under,
LEMMA UnderTrans ==
    ASSUME NEW p \in Seq(Names), NEW q \in Seq(Names), NEW r \in Seq(Names), Under(p, q), Under(q, r)
    PROVE  Under(p, r)
  <1>1. Len(p) \in Nat /\ Len(q) \in Nat /\ Len(r) \in Nat
    OBVIOUS
  <1>2. Len(p) <= Len(q) /\ Pre(q, Len(p)) = p
    BY UnderFacts
  <1>3. Len(q) <= Len(r) /\ Pre(r, Len(q)) = q
    BY UnderFacts
  <1>4. Len(q) \in 0 .. Len(r) /\ Len(p) \in 0 .. Len(q) /\ Len(p) <= Len(r)
    BY <1>1, <1>2, <1>3
  <1>5. Pre(Pre(r, Len(q)), Len(p)) = Pre(r, Len(p))
    BY <1>4, PrePre
  <1> QED
    BY <1>2, <1>3, <1>4, <1>5, UnderFacts

\* and under its folder.
LEMMA UnderAppend ==
    ASSUME NEW p \in Seq(Names), NEW n \in Names
    PROVE  Under(p, Append(p, n))
  <1>1. Len(p) \in Nat /\ Len(p) \in 0 .. Len(p)
    OBVIOUS
  <1>2. Append(p, n) \in Seq(Names) /\ Len(Append(p, n)) = Len(p) + 1
    BY AppendFacts
  <1>3. Pre(Append(p, n), Len(p)) = p
    BY <1>1, AppendFacts, PreAll
  <1>4. Len(p) <= Len(Append(p, n))
    BY <1>1, <1>2
  <1> QED
    BY <1>2, <1>3, <1>4, UnderFacts

\* Below p: one name further on the way.
LEMMA UnderNext ==
    ASSUME NEW p \in Seq(Names), NEW q \in Seq(Names), Under(p, q), p # q
    PROVE  /\ Len(p) < Len(q)
           /\ \E n \in Names : Append(p, n) = Pre(q, Len(p) + 1) /\ Under(Append(p, n), q)
  <1>1. Len(p) \in Nat /\ Len(q) \in Nat
    OBVIOUS
  <1>2. Len(p) <= Len(q) /\ Pre(q, Len(p)) = p
    BY UnderFacts
  <1>3. Len(p) # Len(q)
    BY <1>2, PreAll
  <1>4. Len(p) < Len(q) /\ Len(p) + 1 \in 0 .. Len(q) /\ Len(p) \in 0 .. (Len(p) + 1)
    BY <1>1, <1>2, <1>3
  <1> DEFINE a == Pre(q, Len(p) + 1)
  <1>5. a \in Seq(Names) /\ Len(a) = Len(p) + 1
    BY <1>4, PreFacts
  <1>6. Pre(a, Len(p)) = p
    BY <1>2, <1>4, PrePre
  <1> HIDE DEF a
  <1>7. a # Root /\ Len(a) - 1 = Len(p)
    BY <1>1, <1>5 DEF Root
  <1>8. Front(a) = p /\ Last(a) \in Names /\ Append(Front(a), Last(a)) = a
    BY <1>5, <1>6, <1>7, FrontFacts
  <1>9. Under(a, q)
    <2>1. Len(a) <= Len(q) /\ Pre(q, Len(a)) = a
      BY <1>4, <1>5 DEF a
    <2> QED
      BY <1>5, <2>1, UnderFacts
  <1> QED
    BY <1>4, <1>8, <1>9 DEF a

\* The paths a server accepts are sequences of names.
LEMMA PathsAreSeqs == ASSUME MaxDepth \in Nat PROVE Paths \subseteq Seq(Names)
  BY DEF Paths

\* Two sequences, one after the other.
LEMMA JoinFacts ==
    ASSUME NEW S, NEW s \in Seq(S), NEW t \in Seq(S)
    PROVE  /\ s \o t \in Seq(S) /\ Len(s \o t) = Len(s) + Len(t)
           /\ \A i \in 1 .. Len(s) : (s \o t)[i] = s[i]
           /\ \A i \in 1 .. Len(t) : (s \o t)[Len(s) + i] = t[i]
           /\ Len(s) \in Nat /\ Len(t) \in Nat
  <1>1. s \o t \in Seq(S) /\ Len(s \o t) = Len(s) + Len(t) /\ Len(s) \in Nat /\ Len(t) \in Nat
    OBVIOUS
  <1>2. ASSUME NEW i \in 1 .. Len(s) PROVE (s \o t)[i] = s[i]
    OBVIOUS
  <1>3. ASSUME NEW i \in 1 .. Len(t) PROVE (s \o t)[Len(s) + i] = t[i]
    <2>1. Len(s) + i \in 1 .. (Len(s) + Len(t)) /\ ~(Len(s) + i <= Len(s)) /\ (Len(s) + i) - Len(s) = i
      BY <1>1
    <2> QED
      BY <1>1, <2>1
  <1> QED
    BY <1>1, <1>2, <1>3

-----------------------------------------------------------------------------
(* Removal: its inductive invariant, for a tree b, the folder or file v      *)
(* that is to go, the tree g so far and the requests todo.                   *)

\* The requests of a removal that was resolved.
RemoveRequest ==
    [op : {"lstat", "empty", "unlink", "rmdir"}, from : Seq(Names), to : {Root}, mode : {"any"}]

\* A request that stays under v, with no link on the way to it.
Aimed(b, v) ==
    {r \in RemoveRequest :
        /\ v \in DOMAIN b /\ Under(v, r.from)
        /\ NearClean(b, r.from)
        /\ r.op = "empty" => Is(b, r.from, "dir")}

\* Entries under v went away, and nothing else happened to the tree.
Shrunk(b, v, g) ==
    /\ DOMAIN g \subseteq DOMAIN b
    /\ \A p \in DOMAIN g : g[p] = b[p]
    /\ \A p \in DOMAIN b : Under(v, p) \/ p \in DOMAIN g

\* No entry is without its folder.
Tidy(g) == \A p \in DOMAIN g \ {Root} : Is(g, Front(p), "dir")

\* The request r takes the entry p away, or leads to one that does.
Takes(r, p) == IF r.op \in {"lstat", "empty"} THEN Under(r.from, p) ELSE r.from = p

\* What is left under v is still to be taken.
Covered(v, g, todo) ==
    \A p \in DOMAIN g : Under(v, p) => \E i \in 1 .. Len(todo) : Takes(todo[i], p)

\* A removal under way, or ended.
Removing(b, v, g, todo, result) ==
    /\ todo \in Seq(Aimed(b, v))
    /\ Shrunk(b, v, g) /\ Tidy(g)
    /\ result \in {"busy", "ok", "failed"}
    /\ result = "failed" \/ Covered(v, g, todo)
    /\ result = "busy" <=> todo # <<>>

\* A request that was answered: what it covered is gone, or covered by the
\* requests it led to.
LEMMA RemoveStep ==
    ASSUME NEW b, NEW v, NEW g, NEW todo, Removing(b, v, g, todo, "busy"),
           NEW h, NEW more \in Seq(Aimed(b, v)),
           DOMAIN h \subseteq DOMAIN g, Shrunk(b, v, h), Tidy(h),
           \A p \in DOMAIN h : Under(v, p) /\ Takes(Head(todo), p) =>
               \E i \in 1 .. Len(more) : Takes(more[i], p)
    PROVE  LET rest == more \o Tail(todo)
           IN Removing(b, v, h, rest, IF rest = <<>> THEN "ok" ELSE "busy")
  <1> DEFINE A == Aimed(b, v)
             t == Tail(todo)
             rest == more \o t
  <1>1. todo \in Seq(A) /\ todo # <<>> /\ Covered(v, g, todo)
    BY DEF Removing
  <1> HIDE DEF A
  <1>2. /\ t \in Seq(A) /\ Len(t) = Len(todo) - 1 /\ Len(todo) \in Nat \ {0}
        /\ \A i \in 1 .. Len(t) : t[i] = todo[i + 1]
    BY <1>1
  <1>3. Head(todo) = todo[1] /\ more \in Seq(A)
    BY <1>1 DEF A
  <1> HIDE DEF t
  <1>4. /\ rest \in Seq(A) /\ Len(rest) = Len(more) + Len(t)
        /\ \A i \in 1 .. Len(more) : rest[i] = more[i]
        /\ \A i \in 1 .. Len(t) : rest[Len(more) + i] = t[i]
        /\ Len(more) \in Nat /\ Len(t) \in Nat
    BY <1>2, <1>3, JoinFacts
  <1> HIDE DEF rest
  <1>5. ASSUME NEW p \in DOMAIN h, Under(v, p)
        PROVE  \E i \in 1 .. Len(rest) : Takes(rest[i], p)
    <2>1. PICK i \in 1 .. Len(todo) : Takes(todo[i], p)
      BY <1>1, <1>5 DEF Covered
    <2>2. CASE i = 1
      <3>1. PICK k \in 1 .. Len(more) : Takes(more[k], p)
        BY <1>3, <1>5, <2>1, <2>2
      <3>2. k \in 1 .. Len(rest) /\ rest[k] = more[k]
        BY <1>4
      <3> QED
        BY <3>1, <3>2
    <2>3. CASE i # 1
      <3>1. i - 1 \in 1 .. Len(t) /\ (i - 1) + 1 = i
        BY <1>2, <2>3
      <3>2. t[i - 1] = todo[i]
        BY <1>2, <3>1
      <3>3. Len(more) + (i - 1) \in 1 .. Len(rest) /\ rest[Len(more) + (i - 1)] = todo[i]
        BY <1>4, <3>1, <3>2
      <3> QED
        BY <2>1, <3>3
    <2> QED
      BY <2>2, <2>3
  <1>6. Covered(v, h, rest)
    BY <1>5 DEF Covered
  <1> QED
    BY <1>4, <1>6 DEF Removing, A, rest, t

\* The first request, and the way to it in the tree as it is now.
LEMMA RemoveHead ==
    ASSUME TreesOK, NEW b \in Trees, NEW v, NEW g, NEW todo, Removing(b, v, g, todo, "busy"),
           NEW r, r = Head(todo)
    PROVE  /\ r \in Aimed(b, v) /\ r.from \in Seq(Names) /\ r.to = Root /\ r.mode = "any"
           /\ v \in DOMAIN b /\ v \in Seq(Names) /\ Under(v, r.from)
           /\ r.op \in {"lstat", "empty", "unlink", "rmdir"}
           /\ DOMAIN b \subseteq Seq(Names) /\ DOMAIN g \subseteq Seq(Names)
           /\ NearClean(b, r.from) /\ NearClean(g, r.from) /\ LReal(g, r.from) = r.from
           /\ r.op = "empty" => Is(b, r.from, "dir") /\ Real(g, r.from) = r.from
  <1>1. todo \in Seq(Aimed(b, v)) /\ todo # <<>> /\ Shrunk(b, v, g)
    BY DEF Removing
  <1>2. r \in Aimed(b, v)
    <2> DEFINE A == Aimed(b, v)
    <2> HIDE DEF A
    <2>1. todo \in Seq(A) /\ todo # <<>>
      BY <1>1 DEF A
    <2>2. r \in A
      BY <2>1
    <2> QED
      BY <2>2 DEF A
  <1>3. r \in RemoveRequest
    BY <1>2 DEF Aimed
  <1>4. /\ r.from \in Seq(Names) /\ r.to = Root /\ r.mode = "any"
        /\ r.op \in {"lstat", "empty", "unlink", "rmdir"}
    BY <1>3 DEF RemoveRequest
  <1>5. /\ v \in DOMAIN b /\ Under(v, r.from) /\ NearClean(b, r.from)
        /\ r.op = "empty" => Is(b, r.from, "dir")
    BY <1>2 DEF Aimed
  <1>6. MaxDepth \in Nat /\ DOMAIN b \subseteq Seq(Names)
    BY PathsAreSeqs DEF TreesOK, IsTree
  <1>7. DOMAIN g \subseteq DOMAIN b /\ \A p : Is(g, p, "link") => Is(b, p, "link")
    BY <1>1 DEF Shrunk, Is, Exists
  <1>8. NearClean(g, r.from)
    BY <1>5, <1>7 DEF NearClean
  <1>9. LReal(g, r.from) = r.from
    BY <1>4, <1>6, <1>8, NearCleanLReal
  <1>10. ASSUME r.op = "empty" PROVE Real(g, r.from) = r.from
    <2> DEFINE p == r.from
    <2>1. p \in Seq(Names) /\ Len(p) \in Nat /\ Pre(p, Len(p)) = p
      BY <1>4, PreAll
    <2>2. ~Is(b, p, "link")
      BY <1>5, <1>10 DEF Is
    <2> HIDE DEF p
    <2>3. ~Is(g, Pre(p, Len(p)), "link")
      BY <1>7, <2>1, <2>2
    <2>4. \A i \in 1 .. Len(p) : i = Len(p) \/ i \in 1 .. (Len(p) - 1)
      BY <2>1
    <2>5. Clean(g, p)
      BY <1>8, <2>3, <2>4 DEF Clean, NearClean, p
    <2> QED
      BY <1>6, <2>5, CleanReal DEF p
  <1> QED
    BY <1>2, <1>4, <1>5, <1>6, <1>7, <1>8, <1>9, <1>10

\* What the trees a server may hold are.
LEMMA TreeFacts ==
    ASSUME TreesOK, NEW b \in Trees
    PROVE  /\ Tidy(b) /\ DOMAIN b \subseteq Seq(Names) /\ MaxDepth \in Nat
           /\ \A v : Shrunk(b, v, b)
  BY PathsAreSeqs DEF TreesOK, IsTree, Shrunk, Tidy

\* unlink and rmdir take one entry, with nothing in it.
LEMMA RemoveOne ==
    ASSUME TreesOK, NEW b \in Trees, NEW v, NEW g, NEW todo, Removing(b, v, g, todo, "busy"),
           NEW r, r = Head(todo), r.op \in {"unlink", "rmdir"},
           \A q \in DOMAIN g \ {Root} : Front(q) # r.from
    PROVE  LET rest == <<>> \o Tail(todo)
           IN Removing(b, v, [q \in DOMAIN g \ {r.from} |-> g[q]], rest,
                       IF rest = <<>> THEN "ok" ELSE "busy")
  <1> DEFINE p == r.from
             h == [q \in DOMAIN g \ {p} |-> g[q]]
  <1>1. Shrunk(b, v, g) /\ Tidy(g)
    BY DEF Removing
  <1>2. Under(v, p)
    BY RemoveHead
  <1>3. DOMAIN h = DOMAIN g \ {p} /\ \A q \in DOMAIN h : h[q] = g[q]
    OBVIOUS
  <1>4. Shrunk(b, v, h)
    <2>1. DOMAIN g \subseteq DOMAIN b /\ \A q \in DOMAIN g : g[q] = b[q]
      BY <1>1 DEF Shrunk
    <2>2. \A q \in DOMAIN h : h[q] = b[q]
      BY <2>1
    <2>3. \A q \in DOMAIN b : Under(v, q) \/ q \in DOMAIN h
      BY <1>1, <1>2, <1>3 DEF Shrunk
    <2> QED
      BY <1>3, <2>1, <2>2, <2>3 DEF Shrunk
  <1> HIDE DEF h
  <1>5. Tidy(h)
    <2>1. ASSUME NEW q \in DOMAIN h \ {Root} PROVE Is(h, Front(q), "dir")
      <3>1. q \in DOMAIN g \ {Root}
        BY <1>3
      <3>2. Is(g, Front(q), "dir") /\ Front(q) # p
        BY <1>1, <3>1 DEF Tidy
      <3> QED
        BY <1>3, <3>2 DEF Is, Exists
    <2> QED
      BY <2>1 DEF Tidy
  <1>6. <<>> \in Seq(Aimed(b, v)) /\ DOMAIN h \subseteq DOMAIN g
    BY <1>3
  <1>7. \A q \in DOMAIN h : ~Takes(r, q)
    BY <1>3 DEF Takes
  <1>8. LET rest == <<>> \o Tail(todo)
        IN Removing(b, v, h, rest, IF rest = <<>> THEN "ok" ELSE "busy")
    BY <1>4, <1>5, <1>6, <1>7, RemoveStep
  <1> QED
    BY <1>8 DEF h

\* A request below the victim is a request of a removal.
LEMMA AimedAt ==
    ASSUME NEW b, NEW v, NEW p \in Seq(Names), NEW o \in {"lstat", "empty", "unlink", "rmdir"},
           v \in DOMAIN b, Under(v, p), NearClean(b, p), o = "empty" => Is(b, p, "dir")
    PROVE  Req(o, p) \in Aimed(b, v) /\ Req(o, p).op = o /\ Req(o, p).from = p
  <1>1. Req(o, p) = [op |-> o, from |-> p, to |-> Root, mode |-> "any"]
    BY DEF Req, Request
  <1>2. Req(o, p) \in RemoveRequest /\ Req(o, p).op = o /\ Req(o, p).from = p
    BY <1>1 DEF RemoveRequest
  <1> QED
    BY <1>2 DEF Aimed

\* remove_resolved: a folder is emptied, anything else unlinked.
LEMMA RemoveLstat ==
    ASSUME TreesOK, NEW b \in Trees, NEW v, NEW g, NEW todo, Removing(b, v, g, todo, "busy"),
           NEW r, r = Head(todo), r.op = "lstat", Exists(g, r.from)
    PROVE  LET rest == << Req(IF g[r.from].type = "dir" THEN "empty" ELSE "unlink", r.from) >>
                           \o Tail(todo)
           IN Removing(b, v, g, rest, IF rest = <<>> THEN "ok" ELSE "busy")
  <1> DEFINE p == r.from
             o == IF g[p].type = "dir" THEN "empty" ELSE "unlink"
             more == << Req(o, p) >>
  <1>1. Shrunk(b, v, g) /\ Tidy(g)
    BY DEF Removing
  <1>2. /\ p \in Seq(Names) /\ v \in DOMAIN b /\ Under(v, p) /\ NearClean(b, p)
        /\ DOMAIN g \subseteq Seq(Names)
    BY RemoveHead
  <1>3. o \in {"lstat", "empty", "unlink", "rmdir"} /\ (o = "empty" => Is(b, p, "dir"))
    BY <1>1 DEF Shrunk, Is, Exists
  <1>4. Req(o, p) \in Aimed(b, v) /\ Req(o, p).op = o /\ Req(o, p).from = p
    <2> HIDE DEF o, p
    <2> QED
      BY <1>2, <1>3, AimedAt
  <1>5. ASSUME NEW q \in DOMAIN g, Takes(r, q) PROVE Takes(Req(o, p), q)
    <2>1. Under(p, q)
      BY <1>5 DEF Takes
    <2>2. CASE g[p].type = "dir"
      BY <1>4, <2>1, <2>2 DEF Takes
    <2>3. CASE g[p].type # "dir"
      <3>1. q \in Seq(Names) /\ Len(p) \in Nat
        BY <1>2
      <3>2. p = q
        <4> SUFFICES ASSUME p # q PROVE FALSE
          OBVIOUS
        <4>1. Len(p) < Len(q) /\ Pre(q, Len(p)) = p
          BY <1>2, <2>1, <3>1, UnderNext, UnderFacts
        <4>2. Is(g, Pre(q, Len(p)), "dir")
          BY <1>1, <1>2, <3>1, <4>1, PrefixDirs DEF Tidy
        <4> QED
          BY <2>3, <4>1, <4>2 DEF Is
      <3> QED
        BY <1>4, <2>3, <3>2 DEF Takes
    <2> QED
      BY <2>2, <2>3
  <1> HIDE DEF o
  <1>6. more \in Seq(Aimed(b, v)) /\ 1 \in 1 .. Len(more) /\ more[1] = Req(o, p)
    BY <1>4
  <1>7. \A q \in DOMAIN g : Under(v, q) /\ Takes(r, q) => \E i \in 1 .. Len(more) : Takes(more[i], q)
    BY <1>5, <1>6
  <1> HIDE DEF more
  <1>8. LET rest == more \o Tail(todo)
        IN Removing(b, v, g, rest, IF rest = <<>> THEN "ok" ELSE "busy")
    BY <1>1, <1>6, <1>7, RemoveStep
  <1> QED
    BY <1>8 DEF more, o

\* read_dir: every entry of the folder is looked at, then the folder goes.
LEMMA RemoveEmpty ==
    ASSUME TreesOK, NEW b \in Trees, NEW v, NEW g, NEW todo, Removing(b, v, g, todo, "busy"),
           NEW r, r = Head(todo), r.op = "empty",
           NEW s \in SetToSeqs(Children(g, r.from))
    PROVE  LET rest == ([i \in 1 .. Len(s) |-> Req("lstat", Append(r.from, s[i]))]
                          \o << Req("rmdir", r.from) >>) \o Tail(todo)
           IN Removing(b, v, g, rest, IF rest = <<>> THEN "ok" ELSE "busy")
  <1> DEFINE p == r.from
             C == Children(g, p)
             A == Aimed(b, v)
             looks == [i \in 1 .. Len(s) |-> Req("lstat", Append(p, s[i]))]
             last == << Req("rmdir", p) >>
             more == looks \o last
  <1>1. Shrunk(b, v, g) /\ Tidy(g)
    BY DEF Removing
  <1>2. /\ p \in Seq(Names) /\ v \in DOMAIN b /\ v \in Seq(Names) /\ Under(v, p)
        /\ NearClean(b, p) /\ Is(b, p, "dir") /\ DOMAIN g \subseteq Seq(Names)
    BY RemoveHead
  <1>3. C \subseteq Names /\ IsFiniteSet(C)
    <2>1. C \subseteq Names /\ IsFiniteSet(Names)
      BY DEF Children, TreesOK
    <2> QED
      BY <2>1, FS_Subset
  <1>4. s \in Seq(C) /\ \A n \in C : \E i \in 1 .. Len(s) : s[i] = n
    BY <1>3, SetToSeqsFacts
  <1>5. Len(s) \in Nat /\ \A i \in 1 .. Len(s) : s[i] \in Names
    <2> HIDE DEF C
    <2> QED
      BY <1>3, <1>4
  <1>6. ASSUME NEW n \in Names
        PROVE  /\ Req("lstat", Append(p, n)) \in A
               /\ Req("lstat", Append(p, n)).op = "lstat"
               /\ Req("lstat", Append(p, n)).from = Append(p, n)
    <2> DEFINE a == Append(p, n)
    <2>1. /\ a \in Seq(Names) /\ Len(a) = Len(p) + 1 /\ Len(p) \in Nat /\ Under(p, a)
          /\ \A i \in 0 .. Len(p) : Pre(a, i) = Pre(p, i)
      BY <1>2, AppendFacts, UnderAppend
    <2> HIDE DEF a
    <2>2. Under(v, a)
      BY <1>2, <2>1, UnderTrans
    <2>3. NearClean(b, a)
      <3>1. Pre(p, Len(p)) = p /\ ~Is(b, p, "link")
        BY <1>2, PreAll DEF Is
      <3>2. ASSUME NEW i \in 1 .. (Len(a) - 1) PROVE ~Is(b, Pre(a, i), "link")
        <4>1. i \in 0 .. Len(p) /\ (i = Len(p) \/ i \in 1 .. (Len(p) - 1))
          BY <2>1
        <4> QED
          BY <1>2, <2>1, <3>1, <4>1 DEF NearClean
      <3> QED
        BY <3>2 DEF NearClean
    <2>4. /\ Req("lstat", a) \in Aimed(b, v)
          /\ Req("lstat", a).op = "lstat" /\ Req("lstat", a).from = a
      BY <1>2, <2>1, <2>2, <2>3, AimedAt
    <2> QED
      BY <2>4 DEF a
  <1>7. Req("rmdir", p) \in A /\ Req("rmdir", p).op = "rmdir" /\ Req("rmdir", p).from = p
    BY <1>2, AimedAt
  <1> HIDE DEF A
  <1>8. looks \in Seq(A) /\ Len(looks) = Len(s)
    <2>1. \A i \in 1 .. Len(s) : Req("lstat", Append(p, s[i])) \in A
      BY <1>5, <1>6
    <2>2. looks \in [1 .. Len(s) -> A]
      BY <2>1
    <2> HIDE DEF looks
    <2> QED
      BY <1>5, <2>2
  <1>9. \A i \in 1 .. Len(s) : looks[i] = Req("lstat", Append(p, s[i]))
    OBVIOUS
  <1>10. last \in Seq(A) /\ Len(last) = 1 /\ last[1] = Req("rmdir", p)
    BY <1>7
  <1> HIDE DEF looks, last
  <1>11. /\ more \in Seq(A) /\ Len(more) = Len(s) + 1
         /\ \A i \in 1 .. Len(s) : more[i] = looks[i]
         /\ more[Len(s) + 1] = Req("rmdir", p)
    <2>0. looks \in Seq(A) /\ last \in Seq(A)
      BY <1>8, <1>10
    <2>1. /\ more \in Seq(A) /\ Len(more) = Len(looks) + Len(last)
          /\ \A i \in 1 .. Len(looks) : more[i] = looks[i]
          /\ \A i \in 1 .. Len(last) : more[Len(looks) + i] = last[i]
      <3> HIDE DEF C
      <3> QED
        BY <2>0, JoinFacts
    <2>2. 1 \in 1 .. Len(last)
      BY <1>10
    <2> QED
      BY <1>8, <1>10, <2>1, <2>2
  <1> HIDE DEF more
  <1>12. ASSUME NEW q \in DOMAIN g, Takes(r, q)
         PROVE  \E i \in 1 .. Len(more) : Takes(more[i], q)
    <2>1. Under(p, q) /\ q \in Seq(Names)
      BY <1>2, <1>12 DEF Takes
    <2>2. CASE p = q
      <3>1. Len(s) + 1 \in 1 .. Len(more) /\ Takes(more[Len(s) + 1], q)
        BY <1>5, <1>7, <1>11, <2>2 DEF Takes
      <3> QED
        BY <3>1
    <2>3. CASE p # q
      <3>1. PICK n \in Names : Append(p, n) = Pre(q, Len(p) + 1) /\ Under(Append(p, n), q)
        BY <1>2, <2>1, <2>3, UnderNext
      <3>2. Len(p) \in Nat /\ Len(q) \in Nat /\ Len(p) < Len(q)
        BY <1>2, <2>1, <2>3, UnderNext
      <3>3. Pre(q, Len(p) + 1) \in DOMAIN g
        <4>1. CASE Len(p) + 1 = Len(q)
          BY <2>1, <4>1, PreAll
        <4>2. CASE Len(p) + 1 # Len(q)
          <5>1. Len(p) + 1 \in Nat /\ Len(p) + 1 < Len(q)
            BY <3>2, <4>2
          <5>2. Is(g, Pre(q, Len(p) + 1), "dir")
            BY <1>1, <1>2, <5>1, PrefixDirs DEF Tidy
          <5> QED
            BY <5>2 DEF Is, Exists
        <4> QED
          BY <4>1, <4>2
      <3>4. n \in C
        BY <3>1, <3>3 DEF Children, Exists
      <3>5. PICK i \in 1 .. Len(s) : s[i] = n
        BY <1>4, <3>4
      <3>6. more[i] = Req("lstat", Append(p, n)) /\ i \in 1 .. Len(more)
        BY <1>5, <1>9, <1>11, <3>5
      <3>7. Takes(more[i], q)
        BY <1>6, <3>1, <3>6 DEF Takes
      <3> QED
        BY <3>6, <3>7
    <2> QED
      BY <2>2, <2>3
  <1>13. LET rest == more \o Tail(todo)
         IN Removing(b, v, g, rest, IF rest = <<>> THEN "ok" ELSE "busy")
    BY <1>1, <1>11, <1>12, RemoveStep DEF A
  <1> QED
    BY <1>13 DEF more, looks, last

-----------------------------------------------------------------------------
(* Removal: the theorem.                                                    *)

\* A call has its fields and no other.
CallShape ==
    call = [op |-> call.op, from |-> call.from, to |-> call.to,
            result |-> call.result, todo |-> call.todo]

\* A removal that has not resolved its path.
Resolving ==
    /\ fs = before /\ call.result = "busy"
    /\ call.todo = << Request("resolve", Source, Target, "new") >>

\* The inductive invariant of removal.
RemoveInv ==
    /\ before \in Trees /\ CallShape
    /\ call = Idle => fs = before
    /\ call.op = "remove" =>
          Resolving \/ Removing(before, Real(before, Source), fs, call.todo, call.result)

\* What a request that succeeds leaves of the call.
LEMMA DoesFacts ==
    ASSUME CallShape, NEW tree, NEW more, Does(tree, more)
    PROVE  LET rest == more \o Tail(call.todo)
           IN /\ fs' = tree /\ before' = before
              /\ call'.op = call.op /\ call'.from = call.from /\ call'.to = call.to
              /\ call'.todo = rest
              /\ call'.result = IF rest = <<>> THEN "ok" ELSE "busy"
              /\ CallShape'
  <1> DEFINE rest == more \o Tail(call.todo)
             res == IF rest = <<>> THEN "ok" ELSE "busy"
  <1>1. fs' = tree /\ before' = before /\ call' = [call EXCEPT !.todo = rest, !.result = res]
    BY DEF Does
  <1> HIDE DEF rest, res
  <1>2. call' = [op |-> call.op, from |-> call.from, to |-> call.to, result |-> res, todo |-> rest]
    BY <1>1 DEF CallShape
  <1>3. /\ call'.op = call.op /\ call'.from = call.from /\ call'.to = call.to
        /\ call'.todo = rest /\ call'.result = res
    BY <1>2
  <1>4. CallShape'
    BY <1>2, <1>3 DEF CallShape
  <1> QED
    BY <1>1, <1>3, <1>4 DEF rest, res

\* The paths a call works on are those it was given, and stay.
LEMMA SamePaths ==
    ASSUME call'.from = call.from, call'.to = call.to
    PROVE  Source' = Source /\ Target' = Target
  BY DEF Source, Target

\* What every answer leaves alone, and which requests there are.
LEMMA AnswersFacts ==
    ASSUME CallShape, Answers
    PROVE  /\ Busy /\ before' = before /\ CallShape'
           /\ call'.op = call.op /\ call'.from = call.from /\ call'.to = call.to
           /\ Source' = Source /\ Target' = Target /\ call'.result # "none"
           /\ Asked.op \in {"truncate", "store", "mkdir", "exclusive", "chmod", "rename", "resolve",
                            "lstat", "unlink", "empty", "rmdir", "stat", "list", "create", "fill"}
  <1>1. \E tree, more : Does(tree, more)
    BY DEF Answers, Truncate, Store, Mkdir, CreateFile, Chmod, RenameEntry, Resolve, RemoveResolved,
           Unlink, Empty, Rmdir, Metadata, List, Create, Fill
  <1>2. Busy /\ Asked.op \in {"truncate", "store", "mkdir", "exclusive", "chmod", "rename", "resolve",
                            "lstat", "unlink", "empty", "rmdir", "stat", "list", "create", "fill"}
    BY DEF Answers, Truncate, Store, Mkdir, CreateFile, Chmod, RenameEntry, Resolve, RemoveResolved,
           Unlink, Empty, Rmdir, Metadata, List, Create, Fill, Now, Asked
  <1>3. PICK tree, more : Does(tree, more)
    BY <1>1
  <1>4. call'.from = call.from /\ call'.to = call.to
    BY <1>3, DoesFacts
  <1> QED
    BY <1>2, <1>3, <1>4, DoesFacts, SamePaths

\* The request a removal has at the head decides which action answers it.
LEMMA AnswerOfRemoval ==
    ASSUME Answers
    PROVE  /\ Asked.op = "resolve" => Resolve
           /\ Asked.op = "lstat" => RemoveResolved
           /\ Asked.op = "unlink" => Unlink
           /\ Asked.op = "empty" => Empty
           /\ Asked.op = "rmdir" => Rmdir
  BY DEF Answers, Truncate, Store, Mkdir, CreateFile, Chmod, RenameEntry, Resolve, RemoveResolved,
         Unlink, Empty, Rmdir, Metadata, List, Create, Fill, Now, Asked

\* A removal that was refused or cut off.
LEMMA RemoveFailed ==
    ASSUME NEW b, NEW v, NEW g, Shrunk(b, v, g), Tidy(g)
    PROVE  Removing(b, v, g, <<>>, "failed")
  <1>1. <<>> \in Seq(Aimed(b, v))
    OBVIOUS
  <1> QED
    BY <1>1 DEF Removing

\* resolve: the removal starts at an entry of the tree.
LEMMA RemoveResolve ==
    ASSUME TreesOK, NEW b \in Trees, NEW v \in DOMAIN b, NEW t, t = <<>>
    PROVE  LET rest == << Req("lstat", v) >> \o t
           IN Removing(b, v, b, rest, IF rest = <<>> THEN "ok" ELSE "busy")
  <1>1. Tidy(b) /\ v \in Seq(Names) /\ DOMAIN b \subseteq Seq(Names) /\ Shrunk(b, v, b)
    BY TreeFacts
  <1>2. NearClean(b, v)
    <2>1. ASSUME NEW i \in 1 .. (Len(v) - 1) PROVE ~Is(b, Pre(v, i), "link")
      <3>1. i \in Nat /\ i < Len(v)
        BY <1>1
      <3>2. Is(b, Pre(v, i), "dir")
        BY <1>1, <3>1, PrefixDirs DEF Tidy
      <3> QED
        BY <3>2 DEF Is
    <2> QED
      BY <2>1 DEF NearClean
  <1> DEFINE q == Req("lstat", v)
             rest == << q >>
  <1>3. q \in Aimed(b, v) /\ q.op = "lstat" /\ q.from = v
    <2>1. "lstat" \in {"lstat", "empty", "unlink", "rmdir"} /\ "lstat" # "empty" /\ Under(v, v)
      BY <1>1, UnderSelf
    <2> QED
      BY <1>1, <1>2, <2>1, AimedAt
  <1> HIDE DEF q
  <1>4. rest \in Seq(Aimed(b, v)) /\ Len(rest) = 1 /\ rest[1] = q /\ rest # <<>>
    BY <1>3
  <1>5. rest \o t = rest
    BY <1>4
  <1> HIDE DEF rest
  <1>6. Covered(v, b, rest)
    <2>1. 1 \in 1 .. Len(rest)
      BY <1>4
    <2> QED
      BY <1>3, <1>4, <2>1 DEF Covered, Takes
  <1>7. Removing(b, v, b, rest, "busy")
    BY <1>1, <1>4, <1>6 DEF Removing
  <1> QED
    BY <1>4, <1>5, <1>7 DEF rest, q

\* An answered request of a removal keeps its invariant.
LEMMA RemoveAnswer ==
    ASSUME TreesOK, RemoveInv, Answers, call.op = "remove"
    PROVE  RemoveInv'
  <1> DEFINE v == Real(before, Source)
             t == Tail(call.todo)
  <1>1. before \in Trees /\ CallShape
    BY DEF RemoveInv
  <1>2. /\ Busy /\ before' = before /\ CallShape'
        /\ call'.op = call.op /\ Source' = Source /\ call'.result # "none"
    BY <1>1, AnswersFacts
  <1>3. call' # Idle
    BY <1>2 DEF Idle
  <1> SUFFICES Removing(before, v, fs', call'.todo, call'.result)
    BY <1>1, <1>2, <1>3 DEF RemoveInv
  <1>4. CASE Resolving
    <2>1. /\ Asked = Request("resolve", Source, Target, "new") /\ t = <<>> /\ fs = before
      BY <1>4 DEF Resolving, Asked
    <2>2. Asked.op = "resolve" /\ Asked.from = Source
      BY <2>1 DEF Request
    <2>3. Resolve
      BY <2>2, AnswerOfRemoval
    <2>4. v \in DOMAIN before /\ Does(fs, << Req("lstat", v) >>)
      BY <2>1, <2>2, <2>3 DEF Resolve, Canonical, Exists
    <2>5. LET rest == << Req("lstat", v) >> \o t
          IN Removing(before, v, before, rest, IF rest = <<>> THEN "ok" ELSE "busy")
      BY <1>1, <2>1, <2>4, RemoveResolve
    <2> QED
      BY <1>1, <2>1, <2>4, <2>5, DoesFacts
  <1>5. CASE Removing(before, v, fs, call.todo, call.result)
    <2> DEFINE r == Asked
               p == r.from
    <2>1. Removing(before, v, fs, call.todo, "busy") /\ r = Head(call.todo)
      BY <1>2, <1>5 DEF Busy, Asked
    <2>2. /\ r.op \in {"lstat", "empty", "unlink", "rmdir"} /\ LReal(fs, p) = p
          /\ r.op = "empty" => Real(fs, p) = p
          /\ DOMAIN fs \subseteq Seq(Names)
      BY <1>1, <2>1, RemoveHead
    <2>3. CASE r.op = "lstat"
      <3>1. RemoveResolved
        BY <2>3, AnswerOfRemoval
      <3>2. /\ Exists(fs, p)
            /\ Does(fs, << Req(IF fs[p].type = "dir" THEN "empty" ELSE "unlink", p) >>)
        BY <2>2, <3>1 DEF RemoveResolved
      <3> DEFINE more == << Req(IF fs[p].type = "dir" THEN "empty" ELSE "unlink", p) >>
      <3>3. LET rest == more \o Tail(call.todo)
            IN Removing(before, v, fs, rest, IF rest = <<>> THEN "ok" ELSE "busy")
        BY <1>1, <2>1, <2>3, <3>2, RemoveLstat
      <3>4. Does(fs, more)
        BY <3>2
      <3> HIDE DEF more
      <3> QED
        BY <1>1, <3>3, <3>4, DoesFacts
    <2>4. CASE r.op = "unlink"
      <3>1. Unlink
        BY <2>4, AnswerOfRemoval
      <3>2. ~Is(fs, p, "dir") /\ Does([q \in DOMAIN fs \ {p} |-> fs[q]], <<>>)
        BY <2>2, <3>1 DEF Unlink, Without
      <3>3. \A q \in DOMAIN fs \ {Root} : Front(q) # p
        BY <2>1, <3>2 DEF Removing, Tidy
      <3> DEFINE h == [q \in DOMAIN fs \ {p} |-> fs[q]]
      <3>4. LET rest == <<>> \o Tail(call.todo)
            IN Removing(before, v, h, rest, IF rest = <<>> THEN "ok" ELSE "busy")
        BY <1>1, <2>1, <2>4, <3>3, RemoveOne
      <3>5. Does(h, <<>>)
        BY <3>2
      <3> HIDE DEF h
      <3> QED
        BY <1>1, <3>4, <3>5, DoesFacts
    <2>5. CASE r.op = "rmdir"
      <3>1. Rmdir
        BY <2>5, AnswerOfRemoval
      <3>2. Children(fs, p) = {} /\ Does([q \in DOMAIN fs \ {p} |-> fs[q]], <<>>)
        BY <2>2, <3>1 DEF Rmdir, Without
      <3>3. ASSUME NEW q \in DOMAIN fs \ {Root}, Front(q) = p PROVE FALSE
        <4>1. Last(q) \in Names /\ Append(p, Last(q)) = q
          BY <2>2, <3>3, FrontFacts
        <4> QED
          BY <3>2, <4>1 DEF Children, Exists
      <3> DEFINE h == [q \in DOMAIN fs \ {p} |-> fs[q]]
      <3>4. LET rest == <<>> \o Tail(call.todo)
            IN Removing(before, v, h, rest, IF rest = <<>> THEN "ok" ELSE "busy")
        BY <1>1, <2>1, <2>5, <3>3, RemoveOne
      <3>5. Does(h, <<>>)
        BY <3>2
      <3> HIDE DEF h
      <3> QED
        BY <1>1, <3>4, <3>5, DoesFacts
    <2>6. CASE r.op = "empty"
      <3>1. Empty
        BY <2>6, AnswerOfRemoval
      <3>2. PICK s \in SetToSeqs(Children(fs, p)) :
               Does(fs, [i \in 1 .. Len(s) |-> Req("lstat", Append(p, s[i]))]
                          \o << Req("rmdir", p) >>)
        BY <2>2, <2>6, <3>1 DEF Empty
      <3> DEFINE more == [i \in 1 .. Len(s) |-> Req("lstat", Append(p, s[i]))]
                          \o << Req("rmdir", p) >>
      <3>3. LET rest == more \o Tail(call.todo)
            IN Removing(before, v, fs, rest, IF rest = <<>> THEN "ok" ELSE "busy")
        BY <1>1, <2>1, <2>6, RemoveEmpty
      <3>4. Does(fs, more)
        BY <3>2
      <3> HIDE DEF more
      <3> QED
        BY <1>1, <3>3, <3>4, DoesFacts
    <2> QED
      BY <2>2, <2>3, <2>4, <2>5, <2>6
  <1> QED
    BY <1>4, <1>5 DEF RemoveInv

\* Removal's invariant holds in the beginning,
LEMMA RemoveInvInit == ASSUME TreesOK, TreeInit PROVE RemoveInv
  <1>1. call = Idle /\ fs = before /\ before \in Trees
    BY DEF TreeInit
  <1>2. CallShape /\ call.op # "remove"
    BY <1>1 DEF CallShape, Idle
  <1> QED
    BY <1>1, <1>2 DEF RemoveInv

\* in every step,
LEMMA RemoveInvNext == ASSUME TreesOK, RemoveInv, [TreeNext]_treeVars PROVE RemoveInv'
  <1>1. before \in Trees /\ CallShape
    BY DEF RemoveInv
  <1>2. CASE UNCHANGED treeVars
    <2>1. fs' = fs /\ call' = call /\ before' = before
      BY <1>2 DEF treeVars
    <2>2. Source' = Source /\ Target' = Target
      BY <2>1, SamePaths
    <2> QED
      BY <2>1, <2>2 DEF RemoveInv, CallShape, Resolving
  <1>3. ASSUME NEW o \in DOMAIN First, NEW from \in Named, NEW to \in Named, Begin(o, from, to)
        PROVE  RemoveInv'
    <2> DEFINE q == << Request(First[o], RemotePath(from), RemotePath(to), "new") >>
    <2>1. /\ call = Idle /\ fs' = fs /\ before' = before
          /\ call' = [op |-> o, from |-> from, to |-> to, result |-> "busy", todo |-> q]
      BY <1>3 DEF Begin
    <2> HIDE DEF q
    <2>2. /\ call'.op = o /\ call'.from = from /\ call'.to = to /\ call'.result = "busy"
          /\ call'.todo = q /\ CallShape'
      BY <2>1 DEF CallShape
    <2>3. call' # Idle
      BY <2>2 DEF Idle
    <2>4. ASSUME o = "remove" PROVE Resolving'
      <3>1. First[o] = "resolve"
        BY <2>4 DEF First
      <3>2. Source' = RemotePath(from) /\ Target' = RemotePath(to)
        BY <2>2 DEF Source, Target
      <3> QED
        BY <1>1, <2>1, <2>2, <3>1, <3>2 DEF Resolving, RemoveInv, q
    <2> QED
      BY <1>1, <2>1, <2>2, <2>3, <2>4 DEF RemoveInv
  <1>4. CASE Answers
    <2>1. CASE call.op = "remove"
      BY <1>4, <2>1, RemoveAnswer
    <2>2. CASE call.op # "remove"
      <3>1. /\ before' = before /\ CallShape' /\ call'.op = call.op /\ call'.result # "none"
        BY <1>1, <1>4, AnswersFacts
      <3>2. call' # Idle
        BY <3>1 DEF Idle
      <3> QED
        BY <1>1, <2>2, <3>1, <3>2 DEF RemoveInv
    <2> QED
      BY <2>1, <2>2
  <1>5. CASE Fails
    <2>1. /\ call' = [op |-> call.op, from |-> call.from, to |-> call.to,
                      result |-> "failed", todo |-> <<>>]
          /\ fs' = fs /\ before' = before
      BY <1>1, <1>5 DEF Fails, CallShape
    <2>2. /\ call'.op = call.op /\ call'.from = call.from /\ call'.to = call.to
          /\ call'.result = "failed" /\ call'.todo = <<>> /\ CallShape'
      BY <2>1 DEF CallShape
    <2>5. Source' = Source
      BY <2>2, SamePaths
    <2>3. call' # Idle
      BY <2>2 DEF Idle
    <2>4. ASSUME call.op = "remove"
          PROVE  Removing(before, Real(before, Source), fs, <<>>, "failed")
      <3> DEFINE v == Real(before, Source)
      <3>1. CASE Resolving
        BY <1>1, <3>1, TreeFacts, RemoveFailed DEF Resolving
      <3>2. CASE Removing(before, v, fs, call.todo, call.result)
        BY <3>2, RemoveFailed DEF Removing
      <3> QED
        BY <2>4, <3>1, <3>2 DEF RemoveInv
    <2> QED
      BY <1>1, <2>1, <2>2, <2>3, <2>4, <2>5 DEF RemoveInv
  <1> QED
    BY <1>2, <1>3, <1>4, <1>5 DEF TreeNext

\* and says what is to be proved.
LEMMA RemoveInvExact == ASSUME TreesOK, RemoveInv PROVE RemoveExact
  <1> SUFFICES ASSUME call.op = "remove"
               PROVE  /\ \A p \in DOMAIN before :
                            Under(Real(before, Source), p) \/ (Exists(fs, p) /\ fs[p] = before[p])
                      /\ \A p \in DOMAIN fs \ {Root} : Is(fs, Front(p), "dir")
                      /\ call.result = "ok" =>
                            ~ \E p \in DOMAIN fs : Under(Real(before, Source), p)
    BY DEF RemoveExact
  <1> DEFINE v == Real(before, Source)
  <1>1. CASE Resolving
    <2>1. fs = before /\ call.result = "busy" /\ Tidy(before)
      BY <1>1, TreeFacts DEF Resolving, RemoveInv
    <2> QED
      BY <2>1 DEF Tidy, Exists
  <1>2. CASE Removing(before, v, fs, call.todo, call.result)
    <2>1. Shrunk(before, v, fs) /\ Tidy(fs)
      BY <1>2 DEF Removing
    <2>2. ASSUME call.result = "ok" PROVE ~ \E p \in DOMAIN fs : Under(v, p)
      <3>1. Covered(v, fs, <<>>)
        BY <1>2, <2>2 DEF Removing
      <3> QED
        BY <3>1 DEF Covered
    <2> QED
      BY <2>1, <2>2 DEF Shrunk, Tidy, Exists
  <1> QED
    BY <1>1, <1>2 DEF RemoveInv

\* remove and remove_resolved (sftp_client.rs) take nothing from outside the
\* folder they work on, though links in it lead outside, wherever an error or a
\* dropped connection stops them; they leave no entry without its folder, and
\* nothing of that folder once they report success.  The folder is what
\* remote_path makes of the name they were given, another one if the name ends
\* in white space.  For every tree, with links of any kind, of any depth and
\* breadth, and every way of trimming its names.
THEOREM RemovesExactly == TreeSpec => []RemoveExact
  <1>1. TreeInit => RemoveInv
    BY TreesAssumption, RemoveInvInit
  <1>2. RemoveInv /\ [TreeNext]_treeVars => RemoveInv'
    BY TreesAssumption, RemoveInvNext
  <1>3. RemoveInv => RemoveExact
    BY TreesAssumption, RemoveInvExact
  <1> QED
    BY <1>1, <1>2, <1>3, PTL DEF TreeSpec

-----------------------------------------------------------------------------
(* Paths below paths.                                                       *)

\* The path s, below p.
Below(p, s) == p \o s

\* Length, beginning and elements of a path below a path.
LEMMA BelowFacts ==
    ASSUME NEW x \in Seq(Names), NEW y \in Seq(Names)
    PROVE  /\ Below(x, y) \in Seq(Names) /\ Len(Below(x, y)) = Len(x) + Len(y)
           /\ Len(x) \in Nat /\ Len(y) \in Nat
           /\ Under(x, Below(x, y)) /\ Below(x, <<>>) = x /\ Below(<<>>, x) = x
           /\ \A i \in 0 .. Len(x) : Pre(Below(x, y), i) = Pre(x, i)
           /\ \A i \in 1 .. Len(x) : Below(x, y)[i] = x[i]
           /\ \A i \in 1 .. Len(y) : Below(x, y)[Len(x) + i] = y[i]
  <1> DEFINE a == Below(x, y)
  <1>1. /\ a \in Seq(Names) /\ Len(a) = Len(x) + Len(y) /\ Len(x) \in Nat /\ Len(y) \in Nat
        /\ \A i \in 1 .. Len(x) : a[i] = x[i]
        /\ \A i \in 1 .. Len(y) : a[Len(x) + i] = y[i]
    BY JoinFacts DEF Below
  <1>2. Below(x, <<>>) = x /\ Below(<<>>, x) = x
    BY DEF Below
  <1> HIDE DEF a
  <1>3. ASSUME NEW i \in 0 .. Len(x) PROVE Pre(a, i) = Pre(x, i)
    <2>1. i \in 0 .. Len(a)
      BY <1>1
    <2>2. Pre(a, i) \in Seq(Names) /\ Len(Pre(a, i)) = i /\ \A k \in 1 .. i : Pre(a, i)[k] = a[k]
      BY <1>1, <2>1, PreFacts
    <2>3. Pre(x, i) \in Seq(Names) /\ Len(Pre(x, i)) = i /\ \A k \in 1 .. i : Pre(x, i)[k] = x[k]
      BY PreFacts
    <2>4. \A k \in 1 .. i : k \in 1 .. Len(x)
      BY <1>1
    <2>5. \A k \in 1 .. i : Pre(a, i)[k] = Pre(x, i)[k]
      BY <1>1, <2>2, <2>3, <2>4
    <2> QED
      BY <2>2, <2>3, <2>5, SeqEqual
  <1>4. Pre(a, Len(x)) = x /\ Len(x) <= Len(a)
    <2>1. Len(x) \in 0 .. Len(x)
      BY <1>1
    <2> QED
      BY <1>1, <1>3, <2>1, PreAll
  <1>5. Under(x, a)
    BY <1>1, <1>4, UnderFacts
  <1> QED
    BY <1>1, <1>2, <1>3, <1>5 DEF a

\* A name below a path below a path,
LEMMA BelowAppend ==
    ASSUME NEW x \in Seq(Names), NEW y \in Seq(Names), NEW n \in Names
    PROVE  Below(x, Append(y, n)) = Append(Below(x, y), n)
  BY DEF Below

\* and below a path.
LEMMA BelowOne ==
    ASSUME NEW x \in Seq(Names), NEW n \in Names
    PROVE  Below(x, << n >>) = Append(x, n) /\ << n >> \in Seq(Names) /\ Len(<< n >>) = 1
  BY DEF Below

\* Below is associative,
LEMMA BelowBelow ==
    ASSUME NEW x \in Seq(Names), NEW y \in Seq(Names), NEW z \in Seq(Names)
    PROVE  Below(Below(x, y), z) = Below(x, Below(y, z))
  BY DEF Below

\* and can be undone.
LEMMA BelowCancel ==
    ASSUME NEW x \in Seq(Names), NEW y \in Seq(Names), NEW z \in Seq(Names), Below(x, y) = Below(x, z)
    PROVE  y = z
  <1>1. /\ Len(Below(x, y)) = Len(x) + Len(y) /\ Len(x) \in Nat /\ Len(y) \in Nat
        /\ \A i \in 1 .. Len(y) : Below(x, y)[Len(x) + i] = y[i]
    BY BelowFacts
  <1>2. /\ Len(Below(x, z)) = Len(x) + Len(z) /\ Len(z) \in Nat
        /\ \A i \in 1 .. Len(z) : Below(x, z)[Len(x) + i] = z[i]
    BY BelowFacts
  <1>3. Len(y) = Len(z)
    BY <1>1, <1>2
  <1>4. \A i \in 1 .. Len(y) : y[i] = z[i]
    BY <1>1, <1>2, <1>3
  <1> QED
    BY <1>3, <1>4, SeqEqual

\* What is under x is x, and a path below it.
LEMMA BelowUnder ==
    ASSUME NEW x \in Seq(Names), NEW y \in Seq(Names), NEW z \in Seq(Names)
    PROVE  Under(y, z) => Under(Below(x, y), Below(x, z))
  <1> SUFFICES ASSUME Under(y, z) PROVE Under(Below(x, y), Below(x, z))
    OBVIOUS
  <1> DEFINE a == Below(x, y)
             c == Below(x, z)
  <1>1. Len(y) <= Len(z) /\ Pre(z, Len(y)) = y
    BY UnderFacts
  <1>2. /\ a \in Seq(Names) /\ Len(a) = Len(x) + Len(y) /\ Len(x) \in Nat /\ Len(y) \in Nat
        /\ \A i \in 1 .. Len(x) : a[i] = x[i]
        /\ \A i \in 1 .. Len(y) : a[Len(x) + i] = y[i]
    BY BelowFacts
  <1>3. /\ c \in Seq(Names) /\ Len(c) = Len(x) + Len(z) /\ Len(z) \in Nat
        /\ \A i \in 1 .. Len(x) : c[i] = x[i]
        /\ \A i \in 1 .. Len(z) : c[Len(x) + i] = z[i]
    BY BelowFacts
  <1> HIDE DEF a, c
  <1>4. Len(a) \in 0 .. Len(c) /\ Len(y) \in 0 .. Len(z)
    BY <1>1, <1>2, <1>3
  <1>5. /\ Pre(c, Len(a)) \in Seq(Names) /\ Len(Pre(c, Len(a))) = Len(a)
        /\ \A k \in 1 .. Len(a) : Pre(c, Len(a))[k] = c[k]
    BY <1>3, <1>4, PreFacts
  <1>6. \A k \in 1 .. Len(y) : y[k] = z[k]
    BY <1>1, <1>4, PreFacts
  <1>7. ASSUME NEW k \in 1 .. Len(a) PROVE c[k] = a[k]
    <2>1. CASE k \in 1 .. Len(x)
      BY <1>2, <1>3, <2>1
    <2>2. CASE k \notin 1 .. Len(x)
      <3>1. k - Len(x) \in 1 .. Len(y) /\ k - Len(x) \in 1 .. Len(z) /\ Len(x) + (k - Len(x)) = k
        BY <1>1, <1>2, <1>3, <2>2
      <3>2. a[k] = y[k - Len(x)] /\ c[k] = z[k - Len(x)]
        BY <1>2, <1>3, <3>1
      <3> QED
        BY <1>6, <3>1, <3>2
    <2> QED
      BY <2>1, <2>2
  <1>8. Pre(c, Len(a)) = a
    BY <1>2, <1>5, <1>7, SeqEqual
  <1>9. Under(a, c)
    <2>1. a \in Seq(Names) /\ c \in Seq(Names) /\ Len(a) <= Len(c)
      BY <1>2, <1>3, <1>4
    <2> QED
      BY <1>8, <2>1, UnderFacts
  <1> QED
    BY <1>9 DEF a, c

-----------------------------------------------------------------------------
(* Links.                                                                   *)

\* Follow replaces the first link on the way.
LEMMA FollowAt ==
    ASSUME NEW g, NEW p \in Seq(Names), NEW i \in 1 .. Len(p), Is(g, Pre(p, i), "link"),
           \A k \in 1 .. (i - 1) : ~Is(g, Pre(p, k), "link")
    PROVE  Follow(g, p) = Below(g[Pre(p, i)].to, SubSeq(p, i + 1, Len(p)))
  <1> DEFINE links == {k \in 1 .. Len(p) : SubSeq(p, 1, k) \in DOMAIN g
                                            /\ g[SubSeq(p, 1, k)].type = "link"}
             first == CHOOSE k \in links : \A m \in links : k <= m
  <1>1. \A k \in 1 .. Len(p) : k \in links <=> Is(g, Pre(p, k), "link")
    BY DEF Is, Exists, Pre
  <1>2. Follow(g, p) = IF links = {} THEN p
                       ELSE g[SubSeq(p, 1, first)].to \o SubSeq(p, first + 1, Len(p))
    BY DEF Follow
  <1>3. links \subseteq 1 .. Len(p)
    OBVIOUS
  <1> HIDE DEF links
  <1>4. i \in links
    BY <1>1
  <1>5. \A m \in links : i <= m
    <2> TAKE m \in links
    <2>1. m \in 1 .. Len(p) /\ Is(g, Pre(p, m), "link")
      BY <1>1, <1>3
    <2> QED
      BY <2>1
  <1>6. first \in links /\ \A m \in links : first <= m
    BY <1>4, <1>5
  <1> HIDE DEF first
  <1>7. first = i
    BY <1>3, <1>4, <1>5, <1>6
  <1> QED
    BY <1>2, <1>4, <1>7 DEF Pre, Below

\* A path that is not clean has a first link.
LEMMA FirstLink ==
    ASSUME NEW g, NEW p \in Seq(Names), ~Clean(g, p)
    PROVE  \E i \in 1 .. Len(p) : /\ Is(g, Pre(p, i), "link")
                                  /\ \A k \in 1 .. (i - 1) : ~Is(g, Pre(p, k), "link")
  <1> DEFINE T == {k \in 1 .. Len(p) : Is(g, Pre(p, k), "link")}
  <1>1. T # {} /\ T \subseteq Nat
    BY DEF Clean
  <1>2. PICK i \in T : \A m \in T : i <= m
    <2> HIDE DEF T
    <2> QED
      BY <1>1, Least
  <1>3. \A k \in 1 .. (i - 1) : k \in 1 .. Len(p) /\ ~(i <= k)
    OBVIOUS
  <1> QED
    BY <1>2, <1>3

\* What is left of a path after its first i names.
LEMMA AfterFacts ==
    ASSUME NEW p \in Seq(Names), NEW i \in 0 .. Len(p)
    PROVE  /\ SubSeq(p, i + 1, Len(p)) \in Seq(Names) /\ Len(SubSeq(p, i + 1, Len(p))) = Len(p) - i
           /\ \A k \in 1 .. (Len(p) - i) : SubSeq(p, i + 1, Len(p))[k] = p[i + k]
  <1>1. i + 1 \in Int /\ Len(p) \in Int /\ Len(p) \in Nat
    OBVIOUS
  <1>2. \A k \in (i + 1) .. Len(p) : p[k] \in Names
    BY <1>1, ElementOfSeq
  <1> DEFINE w == SubSeq(p, i + 1, Len(p))
  <1>3. /\ w \in Seq(Names)
        /\ Len(w) = IF i + 1 <= Len(p) THEN Len(p) - (i + 1) + 1 ELSE 0
        /\ \A k \in 1 .. (Len(p) - (i + 1) + 1) : w[k] = p[i + 1 + k - 1]
    BY <1>1, <1>2, SubSeqProperties
  <1> HIDE DEF w
  <1>4. Len(w) = Len(p) - i
    BY <1>1, <1>3
  <1>5. ASSUME NEW k \in 1 .. (Len(p) - i) PROVE w[k] = p[i + k]
    <2>1. k \in 1 .. (Len(p) - (i + 1) + 1) /\ i + 1 + k - 1 = i + k
      BY <1>1
    <2> QED
      BY <1>3, <2>1
  <1> QED
    BY <1>3, <1>4, <1>5 DEF w

\* Where the links of a tree point.
LinksOK(g) == \A p \in DOMAIN g : g[p].type = "link" => g[p].to \in Seq(Names)

\* Without links there is nothing to follow.
LEMMA CleanFollow ==
    ASSUME NEW g, NEW p, Clean(g, p)
    PROVE  Follow(g, p) = p
  BY DEF Follow, Clean, Is, Exists, Pre

\* As long as there is a link on the way to p, the rest of a path is kept.
LEMMA FollowBelow ==
    ASSUME NEW g, LinksOK(g), NEW p \in Seq(Names), NEW u \in Seq(Names), ~Clean(g, p)
    PROVE  Follow(g, Below(p, u)) = Below(Follow(g, p), u) /\ Follow(g, p) \in Seq(Names)
  <1> DEFINE a == Below(p, u)
  <1>1. PICK i \in 1 .. Len(p) : /\ Is(g, Pre(p, i), "link")
                                 /\ \A k \in 1 .. (i - 1) : ~Is(g, Pre(p, k), "link")
    BY FirstLink
  <1>2. /\ a \in Seq(Names) /\ Len(a) = Len(p) + Len(u) /\ Len(p) \in Nat /\ Len(u) \in Nat
        /\ \A k \in 0 .. Len(p) : Pre(a, k) = Pre(p, k)
    BY BelowFacts
  <1>3. i \in 1 .. Len(a) /\ i \in 0 .. Len(p) /\ \A k \in 1 .. (i - 1) : k \in 0 .. Len(p)
    BY <1>2
  <1> DEFINE t == g[Pre(p, i)].to
             w == SubSeq(p, i + 1, Len(p))
             z == SubSeq(a, i + 1, Len(a))
  <1>4. t \in Seq(Names)
    BY <1>1 DEF LinksOK, Is, Exists
  <1>5. z = Below(w, u)
    <2>1. w \in Seq(Names) /\ Len(w) = Len(p) - i /\ \A k \in 1 .. (Len(p) - i) : w[k] = p[i + k]
      BY <1>2, <1>3, AfterFacts
    <2>2. z \in Seq(Names) /\ Len(z) = Len(a) - i /\ \A k \in 1 .. (Len(a) - i) : z[k] = a[i + k]
      <3>1. a \in Seq(Names) /\ i \in 0 .. Len(a)
        BY <1>2, <1>3
      <3> HIDE DEF a
      <3> QED
        BY <3>1, AfterFacts
    <2>3. /\ Below(w, u) \in Seq(Names) /\ Len(Below(w, u)) = Len(w) + Len(u)
          /\ \A k \in 1 .. Len(w) : (Below(w, u))[k] = w[k]
          /\ \A k \in 1 .. Len(u) : (Below(w, u))[Len(w) + k] = u[k]
      <3>1. w \in Seq(Names)
        BY <2>1
      <3> HIDE DEF w, a, z, t
      <3> QED
        BY <3>1, BelowFacts
    <2>4. /\ \A k \in 1 .. Len(p) : a[k] = p[k]
          /\ \A k \in 1 .. Len(u) : a[Len(p) + k] = u[k]
      BY BelowFacts
    <2> DEFINE x == Below(w, u)
    <2> HIDE DEF a, w, z, x
    <2>5. ASSUME NEW k \in 1 .. Len(z) PROVE z[k] = x[k]
      <3>1. CASE k <= Len(w)
        <4>1. k \in 1 .. Len(w) /\ i + k \in 1 .. Len(p) /\ k \in 1 .. (Len(p) - i)
          BY <1>2, <2>1, <3>1, <2>2
        <4> QED
          BY <2>1, <2>2, <2>3, <2>4, <4>1 DEF x
      <3>2. CASE ~(k <= Len(w))
        <4>1. /\ k - Len(w) \in 1 .. Len(u) /\ Len(w) + (k - Len(w)) = k
              /\ i + k = Len(p) + (k - Len(w)) /\ k \in 1 .. (Len(a) - i)
          BY <1>2, <2>1, <2>2, <3>2
        <4>2. x[k] = u[k - Len(w)]
          BY <2>3, <4>1 DEF x
        <4>3. z[k] = a[i + k]
          BY <2>2, <4>1
        <4>4. a[i + k] = u[k - Len(w)]
          BY <2>4, <4>1
        <4> QED
          BY <4>2, <4>3, <4>4
      <3> QED
        BY <3>1, <3>2
    <2>6. x \in Seq(Names) /\ Len(z) = Len(x)
      BY <1>2, <2>1, <2>2, <2>3 DEF x
    <2>7. z = x
      BY <2>2, <2>5, <2>6, SeqEqual
    <2> QED
      BY <2>7 DEF x
  <1>6. w \in Seq(Names)
    BY <1>2
  <1>7. Follow(g, p) = Below(t, w)
    BY <1>1, FollowAt
  <1>8. Follow(g, a) = Below(g[Pre(a, i)].to, z)
    <2> HIDE DEF a
    <2>1. Is(g, Pre(a, i), "link") /\ \A k \in 1 .. (i - 1) : ~Is(g, Pre(a, k), "link")
      BY <1>1, <1>2, <1>3
    <2> QED
      BY <1>2, <1>3, <2>1, FollowAt
  <1>9. g[Pre(a, i)].to = t
    BY <1>2, <1>3
  <1> HIDE DEF t, w, z
  <1>10. Below(t, Below(w, u)) = Below(Below(t, w), u) /\ Below(t, w) \in Seq(Names)
    BY <1>4, <1>6, BelowFacts, BelowBelow
  <1> QED
    BY <1>5, <1>7, <1>8, <1>9, <1>10

\* The path Real finds is a path.
LEMMA RealType ==
    ASSUME NEW g, LinksOK(g), NEW p \in Seq(Names), MaxDepth \in Nat
    PROVE  Real(g, p) \in Seq(Names)
  <1>1p. PICK f : Chain(g, p, f)
    BY RealSteps
  <1>1. /\ f[0] = p /\ Real(g, p) = f[MaxDepth]
        /\ \A n \in 1 .. MaxDepth : f[n] = Follow(g, f[n - 1])
    BY <1>1p DEF Chain
  <1> DEFINE G == {n \in Nat : f[n] \in Seq(Names)}
  <1>2. 0 \in G
    BY <1>1
  <1>3. ASSUME NEW n \in 0 .. (MaxDepth - 1), n \in G PROVE n + 1 \in G
    <2>1. n + 1 \in 1 .. MaxDepth /\ (n + 1) - 1 = n /\ f[n] \in Seq(Names)
      BY <1>3
    <2>2. f[n + 1] = Follow(g, f[n])
      BY <1>1, <2>1
    <2>3. <<>> \in Seq(Names)
      OBVIOUS
    <2>4. Follow(g, f[n]) \in Seq(Names)
      BY <2>1, <2>3, CleanFollow, FollowBelow
    <2> QED
      BY <2>1, <2>2, <2>4
  <1>4. \A n \in 0 .. MaxDepth : n \in G
    <2> HIDE DEF G
    <2> QED
      BY <1>2, <1>3, Climb
  <1> QED
    BY <1>1, <1>4

\* What is below a path is below where it leads, if no link is there.
LEMMA RealBelow ==
    ASSUME NEW g, LinksOK(g), NEW p \in Seq(Names), NEW u \in Seq(Names), MaxDepth \in Nat,
           Clean(g, Below(Real(g, p), u))
    PROVE  Real(g, Below(p, u)) = Below(Real(g, p), u)
  <1>1p. PICK f : Chain(g, p, f)
    BY RealSteps
  <1>1. /\ f[0] = p /\ Real(g, p) = f[MaxDepth]
        /\ \A n \in 1 .. MaxDepth : f[n] = Follow(g, f[n - 1])
    BY <1>1p DEF Chain
  <1>2p. PICK h : Chain(g, Below(p, u), h)
    BY RealSteps
  <1>2. /\ h[0] = Below(p, u) /\ Real(g, Below(p, u)) = h[MaxDepth]
        /\ \A n \in 1 .. MaxDepth : h[n] = Follow(g, h[n - 1])
    BY <1>2p DEF Chain
  \* Once there is no link on the way, the path stays as it is.
  <1>3. ASSUME NEW n \in 0 .. MaxDepth, Clean(g, f[n]) PROVE f[MaxDepth] = f[n]
    <2> DEFINE G == {k \in Nat : f[n + k] = f[n]}
               m == MaxDepth - n
    <2>1. 0 \in G /\ m \in Nat
      OBVIOUS
    <2>2. ASSUME NEW k \in 0 .. (m - 1), k \in G PROVE k + 1 \in G
      <3>1. n + (k + 1) \in 1 .. MaxDepth /\ (n + (k + 1)) - 1 = n + k /\ k + 1 \in Nat
        OBVIOUS
      <3>2. f[n + (k + 1)] = Follow(g, f[n + k])
        BY <1>1, <3>1
      <3>3. f[n + (k + 1)] = f[n]
        BY <1>3, <2>2, <3>2, CleanFollow
      <3> QED
        BY <3>1, <3>3
    <2>3. \A k \in 0 .. m : k \in G
      <3> HIDE DEF G, m
      <3> QED
        BY <2>1, <2>2, Climb
    <2>4. m \in 0 .. m /\ n + m = MaxDepth
      OBVIOUS
    <2> QED
      BY <2>3, <2>4
  <1> DEFINE G == {n \in Nat : f[n] \in Seq(Names) /\ h[n] = Below(f[n], u)}
  <1>4. 0 \in G
    BY <1>1, <1>2
  <1>5. ASSUME NEW n \in 0 .. (MaxDepth - 1), n \in G PROVE n + 1 \in G
    <2>1. /\ n + 1 \in 1 .. MaxDepth /\ (n + 1) - 1 = n /\ n \in 0 .. MaxDepth
          /\ f[n] \in Seq(Names) /\ h[n] = Below(f[n], u)
      BY <1>5
    <2>2. f[n + 1] = Follow(g, f[n]) /\ h[n + 1] = Follow(g, h[n])
      BY <1>1, <1>2, <2>1
    <2>3. CASE Clean(g, f[n])
      <3>1. f[n] = Real(g, p) /\ Follow(g, f[n]) = f[n]
        BY <1>1, <1>3, <2>1, <2>3, CleanFollow
      <3>2. Follow(g, h[n]) = h[n]
        BY <2>1, <3>1, CleanFollow
      <3> QED
        BY <2>1, <2>2, <3>1, <3>2
    <2>4. CASE ~Clean(g, f[n])
      <3>1. Follow(g, h[n]) = Below(Follow(g, f[n]), u) /\ Follow(g, f[n]) \in Seq(Names)
        BY <2>1, <2>4, FollowBelow
      <3> QED
        BY <2>1, <2>2, <3>1
    <2> QED
      BY <2>3, <2>4
  <1>6. \A n \in 0 .. MaxDepth : n \in G
    <2> HIDE DEF G
    <2> QED
      BY <1>4, <1>5, Climb
  <1> QED
    BY <1>1, <1>2, <1>6

\* What a call that does not follow the last link acts on, if it is no link.
LEMMA LRealReal ==
    ASSUME NEW g, LinksOK(g), NEW p \in Seq(Names), MaxDepth \in Nat, Clean(g, LReal(g, p))
    PROVE  Real(g, p) = LReal(g, p)
  <1>1. CASE p = Root
    BY <1>1, CleanReal DEF LReal
  <1>2. CASE p # Root
    <2> DEFINE f == Front(p)
               n == Last(p)
    <2>1. f \in Seq(Names) /\ n \in Names /\ Append(f, n) = p
      BY <1>2, FrontFacts
    <2>2. LReal(g, p) = Append(Real(g, f), n)
      BY <1>2 DEF LReal
    <2> HIDE DEF f, n
    <2>3. Real(g, f) \in Seq(Names)
      BY <2>1, RealType
    <2>4. << n >> \in Seq(Names) /\ p = Below(f, << n >>) /\ LReal(g, p) = Below(Real(g, f), << n >>)
      BY <2>1, <2>2, <2>3, BelowOne
    <2>5. Real(g, Below(f, << n >>)) = Below(Real(g, f), << n >>)
      BY <2>1, <2>4, RealBelow
    <2> QED
      BY <2>4, <2>5
  <1> QED
    BY <1>1, <1>2

\* An entry of a tree that is no link has no link on the way.
LEMMA EntryClean ==
    ASSUME NEW g, DOMAIN g \subseteq Seq(Names), Tidy(g), NEW p \in DOMAIN g, g[p].type # "link"
    PROVE  Clean(g, p)
  <1>0. p \in Seq(Names) /\ Len(p) \in Nat
    OBVIOUS
  <1>1. ASSUME NEW i \in 1 .. Len(p) PROVE ~Is(g, Pre(p, i), "link")
    <2>1. CASE i = Len(p)
      BY <1>0, <2>1, PreAll DEF Is
    <2>2. CASE i # Len(p)
      <3>1. i \in Nat /\ i < Len(p)
        BY <1>0, <2>2
      <3>2. Is(g, Pre(p, i), "dir")
        BY <3>1, PrefixDirs DEF Tidy
      <3> QED
        BY <3>2 DEF Is
    <2> QED
      BY <2>1, <2>2
  <1> QED
    BY <1>1 DEF Clean

\* Below a path that leads to an entry, there is nothing but its children.
LEMMA BelowEntry ==
    ASSUME NEW g, DOMAIN g \subseteq Seq(Names), Tidy(g), LinksOK(g), MaxDepth \in Nat,
           NEW p \in Seq(Names), Real(g, p) \in DOMAIN g, g[Real(g, p)].type # "link",
           NEW u \in Seq(Names), NEW n \in Names, Under(<< n >>, u),
           Append(Real(g, p), n) \notin DOMAIN g
    PROVE  Real(g, Below(p, u)) \notin DOMAIN g
  <1> DEFINE d == Real(g, p)
             a == Below(d, u)
  <1>1. d \in Seq(Names) /\ a \in Seq(Names) /\ d \in DOMAIN g /\ Clean(g, d)
    BY BelowFacts, EntryClean
  <1>2. Len(a) = Len(d) + Len(u) /\ Len(d) \in Nat /\ Len(u) \in Nat /\ Len(u) >= 1
    <2>1. Len(<< n >>) = 1 /\ << n >> \in Seq(Names)
      OBVIOUS
    <2>2. Len(<< n >>) <= Len(u)
      BY <2>1, UnderFacts
    <2> QED
      BY <1>1, <2>1, <2>2, BelowFacts
  <1>3. Under(Append(d, n), a)
    <2> DEFINE o == << n >>
    <2>1. o \in Seq(Names) /\ Below(d, o) = Append(d, n) /\ Under(o, u)
      BY <1>1, BelowOne
    <2> HIDE DEF o, d
    <2>2. Under(Below(d, o), Below(d, u))
      BY <1>1, <2>1, BelowUnder
    <2> QED
      BY <2>1, <2>2
  <1> DEFINE c == Append(d, n)
  <1>4. c \in Seq(Names) /\ Len(c) = Len(d) + 1 /\ c \notin DOMAIN g
    BY <1>1, AppendFacts
  <1>5. Len(c) <= Len(a) /\ Pre(a, Len(c)) = c
    BY <1>1, <1>3, <1>4, UnderFacts
  <1>6. \A i \in 0 .. Len(d) : Pre(a, i) = Pre(d, i)
    BY <1>1, BelowFacts
  <1> HIDE DEF d, a, c
  <1>7. ASSUME NEW i \in 1 .. Len(a), Pre(a, i) \in DOMAIN g PROVE i <= Len(d)
    <2> SUFFICES ASSUME ~(i <= Len(d)) PROVE FALSE
      OBVIOUS
    <2> DEFINE e == Pre(a, i)
    <2>1. i \in 0 .. Len(a) /\ Len(c) \in 0 .. i
      BY <1>2, <1>4
    <2>2. e \in Seq(Names) /\ Len(e) = i /\ Pre(e, Len(c)) = c
      BY <1>1, <1>5, <2>1, PreFacts, PrePre
    <2>3. e # c
      BY <1>4, <1>7
    <2>4. Len(c) # i
      BY <2>2, <2>3, PreAll
    <2>5. Len(c) \in Nat /\ Len(c) < Len(e)
      BY <1>2, <1>4, <2>1, <2>2, <2>4
    <2>6. Is(g, Pre(e, Len(c)), "dir")
      BY <1>7, <2>5, PrefixDirs DEF Tidy
    <2> QED
      BY <1>4, <2>2, <2>6 DEF Is, Exists
  <1>8. Clean(g, a)
    <2>1. ASSUME NEW i \in 1 .. Len(a) PROVE ~Is(g, Pre(a, i), "link")
      <3> SUFFICES ASSUME Pre(a, i) \in DOMAIN g PROVE ~Is(g, Pre(a, i), "link")
        BY DEF Is, Exists
      <3>0. i <= Len(d)
        BY <1>7
      <3>1. i \in 1 .. Len(d) /\ i \in 0 .. Len(d)
        BY <1>2, <3>0
      <3> QED
        BY <1>1, <1>6, <3>1 DEF Clean
    <2> QED
      BY <2>1 DEF Clean
  <1>9. Real(g, Below(p, u)) = a
    BY <1>8, RealBelow DEF a, d
  <1>10. a \notin DOMAIN g
    <2>1. Len(a) \in 1 .. Len(a) /\ ~(Len(a) <= Len(d))
      BY <1>2
    <2>2. Pre(a, Len(a)) = a
      BY <1>1, PreAll
    <2> QED
      BY <1>7, <2>1, <2>2
  <1> QED
    BY <1>9, <1>10

-----------------------------------------------------------------------------
(* Copy: its inductive invariant, for a tree b, the source and the target    *)
(* asked for, the tree g so far and the set W of the requests to be made.    *)

\* The permissions a copy carries over or meets.
Modes(b) == {b[p].mode : p \in DOMAIN b} \cup {"default", "new", "any"}

\* The requests of a copy.
CopyRequest(b) ==
    [op : {"stat", "mkdir", "create", "fill", "list", "chmod"},
     from : Seq(Names), to : Seq(Names), mode : Modes(b)]

\* Entries that are no links were added under q, and nothing else happened to
\* the tree.
Grown(b, q, g) ==
    /\ DOMAIN b \subseteq DOMAIN g /\ \A p \in DOMAIN b : g[p] = b[p]
    /\ \A p \in DOMAIN g \ DOMAIN b :
          /\ p \in Seq(Names) /\ Len(p) <= MaxDepth /\ Under(q, p) /\ q \notin DOMAIN b
          /\ g[p] = Node(g[p].type, g[p].data, g[p].mode, Root)
          /\ g[p].type \in {"dir", "file"} /\ g[p].mode \in Modes(b)
    /\ Tidy(g)

\* The request r is about what is at s below the source and the target.
Placed(src, tgt, r, s) ==
    IF r.op = "chmod" THEN r.from = Below(tgt, s)
                      ELSE r.from = Below(src, s) /\ r.to = Below(tgt, s)

\* A request writes only to what the copy made.
FitAt(b, src, tgt, g, r, s) ==
    LET q == LReal(b, tgt)
    IN /\ Placed(src, tgt, r, s) /\ Len(s) <= MaxDepth
       /\ LReal(b, Below(tgt, s)) = Below(q, s)
       /\ s # <<>> => q \notin DOMAIN b
       /\ r.op \in {"fill", "list", "chmod"} => Below(q, s) \in DOMAIN g \ DOMAIN b
       /\ r.op = "list" => Is(g, Below(q, s), "dir")

\* A request that is fit to be made.
Fit(b, src, tgt, g, r) == \E s \in Seq(Names) : FitAt(b, src, tgt, g, r, s)

\* A folder that is to be copied to somewhere inside it: that never ends.
Inside(p, d) == Under(p, d) /\ p # d

\* A request to copy a folder into itself,
Trap(b, src, tgt, g, r) ==
    \E s \in Seq(Names) :
        /\ r.op \in {"stat", "mkdir", "list"} /\ Placed(src, tgt, r, s)
        /\ Is(g, Real(b, Below(src, s)), "dir")
        /\ Inside(Real(b, Below(src, s)), Below(LReal(b, tgt), s))

\* and a copy that has one.
Trapped(b, src, tgt, g, W) == \E r \in W : Trap(b, src, tgt, g, r)

\* What a request reads was there before the copy began.
Sound(b, src, tgt, r) ==
    \A s \in Seq(Names) : Placed(src, tgt, r, s) =>
        LET p == Real(b, Below(src, s))
        IN /\ r.op = "stat" => LReal(b, Below(src, s)) \in DOMAIN b
           /\ r.op \in {"mkdir", "list"} => Is(b, p, "dir") /\ ~Inside(p, Below(LReal(b, tgt), s))
           /\ r.op \in {"create", "fill"} => Is(b, p, "file")
           /\ r.op # "stat" => p \in DOMAIN b /\ r.mode = b[p].mode

\* A request of one of the kinds ops is to be made for s.
Pending(src, tgt, W, ops, s) == \E r \in W : r.op \in ops /\ Placed(src, tgt, r, s)

\* What was made at s is like what it was made from, but for what is pending.
Alike(b, src, tgt, g, W, s) ==
    LET p == Real(b, Below(src, s))
        d == Below(LReal(b, tgt), s)
    IN /\ p \in DOMAIN b /\ g[d].type = b[p].type /\ b[p].type # "link"
       /\ g[d].data = b[p].data \/ Pending(src, tgt, W, {"fill"}, s)
       /\ g[d].mode = b[p].mode \/ Pending(src, tgt, W, {"list", "chmod"}, s)

\* The request r is to make what is at s.
Makes(src, tgt, r, s) ==
    \E u \in Seq(Names) :
        /\ r.op \in {"stat", "mkdir", "create", "list"}
        /\ Placed(src, tgt, r, u) /\ Under(u, s)
        /\ r.op = "create" => u = s
        /\ r.op = "list" => u # s

\* The copy of s is there.
Made(b, tgt, g, s) == Below(LReal(b, tgt), s) \in DOMAIN g \ DOMAIN b

\* Requests read what was there, what was made is like what it was made from,
\* and what is to be made has a request.
Orderly(b, src, tgt, g, W) ==
    /\ \A r \in W : Sound(b, src, tgt, r)
    /\ Real(b, src) \in DOMAIN b
    /\ \A s \in Seq(Names) : Made(b, tgt, g, s) => Alike(b, src, tgt, g, W, s)
    /\ \A s \in Seq(Names) : Real(b, Below(src, s)) \in DOMAIN b =>
          Made(b, tgt, g, s) \/ \E r \in W : Makes(src, tgt, r, s)

\* LeadsIntoCopy, of a tree, a source and a target.
Leads(b, src, tgt) ==
    \E s \in Paths : /\ Is(b, LReal(b, Below(src, s)), "link")
                     /\ Under(LReal(b, tgt), Real(b, Below(src, s)))

\* The copy so far harmed nothing, whatever it is going to do ...
Harmless(b, src, tgt, g, W) ==
    /\ W \subseteq CopyRequest(b)
    /\ Grown(b, LReal(b, tgt), g)
    /\ \A r \in W : Fit(b, src, tgt, g, r)

\* ... and is on its way to be exact, unless it can not succeed.
OnCourse(b, src, tgt, g, W) ==
    Leads(b, src, tgt) \/ Trapped(b, src, tgt, g, W) \/ Orderly(b, src, tgt, g, W)

\* The fields of a node.
LEMMA NodeFields ==
    ASSUME NEW t, NEW c, NEW m, NEW to
    PROVE  /\ Node(t, c, m, to).type = t /\ Node(t, c, m, to).data = c
           /\ Node(t, c, m, to).mode = m /\ Node(t, c, m, to).to = to
  BY DEF Node

\* The entries of a tree.
LEMMA NodeFacts ==
    ASSUME TreesOK, NEW b \in Trees, NEW p \in DOMAIN b
    PROVE  /\ b[p] = Node(b[p].type, b[p].data, b[p].mode, b[p].to)
           /\ b[p].type \in {"dir", "file", "link"}
           /\ b[p].type # "link" => b[p].to = Root
           /\ b[p].type = "dir" => b[p].data = "none"
           /\ b[p].type = "link" => b[p].to \in Seq(Names)
           /\ b[p].mode \in Modes(b)
  <1>1. Paths \subseteq Seq(Names)
    BY PathsAreSeqs DEF TreesOK
  <1>2. \/ b[p] = Dir(b[p].mode)
        \/ b[p] = File(b[p].data, b[p].mode)
        \/ b[p] = Link(b[p].to) /\ b[p].to \in Paths
    BY DEF TreesOK, IsTree
  <1>3. b[p].mode \in Modes(b)
    BY DEF Modes
  <1> DEFINE x == b[p]
  <1> HIDE DEF x
  <1> SUFFICES /\ x = Node(x.type, x.data, x.mode, x.to)
               /\ x.type \in {"dir", "file", "link"}
               /\ x.type # "link" => x.to = Root
               /\ x.type = "dir" => x.data = "none"
               /\ x.type = "link" => x.to \in Seq(Names)
    BY <1>3 DEF x
  <1>4. CASE x = Dir(x.mode)
    <2>1. x.type = "dir" /\ x.data = "none" /\ x.to = Root
      BY <1>4, NodeFields DEF Dir
    <2> QED
      BY <1>4, <2>1 DEF Dir
  <1>5. CASE x = File(x.data, x.mode)
    <2>1. x.type = "file" /\ x.to = Root
      BY <1>5, NodeFields DEF File
    <2> QED
      BY <1>5, <2>1 DEF File
  <1>6. CASE x = Link(x.to) /\ x.to \in Paths
    <2>1. x.type = "link" /\ x.data = "none" /\ x.mode = "any"
      BY <1>6, NodeFields DEF Link
    <2> QED
      BY <1>1, <1>6, <2>1 DEF Link
  <1> QED
    BY <1>2, <1>4, <1>5, <1>6 DEF x

\* What stays as it is while a copy adds entries.
LEMMA GrownFacts ==
    ASSUME TreesOK, NEW b \in Trees, NEW q, NEW g, Grown(b, q, g)
    PROVE  /\ MaxDepth \in Nat /\ DOMAIN b \subseteq DOMAIN g /\ DOMAIN g \subseteq Seq(Names)
           /\ DOMAIN b \subseteq Seq(Names)
           /\ Root \in DOMAIN b /\ Tidy(b) /\ Tidy(g) /\ LinksOK(b) /\ LinksOK(g)
           /\ \A p : Is(g, p, "link") <=> Is(b, p, "link")
           /\ \A p \in DOMAIN b : g[p] = b[p]
           /\ \A p : Clean(g, p) <=> Clean(b, p)
           /\ \A p \in DOMAIN g : g[p].mode \in Modes(b)
           /\ \A p \in DOMAIN g : g[p].type \in {"dir", "file", "link"}
  <1>1. /\ MaxDepth \in Nat /\ DOMAIN b \subseteq Seq(Names) /\ Tidy(b) /\ Root \in DOMAIN b
    BY TreeFacts DEF TreesOK, IsTree
  <1>2. /\ DOMAIN b \subseteq DOMAIN g /\ (\A p \in DOMAIN b : g[p] = b[p]) /\ Tidy(g)
        /\ \A p \in DOMAIN g \ DOMAIN b : /\ p \in Seq(Names) /\ g[p].type \in {"dir", "file"}
                                          /\ g[p].mode \in Modes(b)
    BY DEF Grown
  <1>3. DOMAIN g \subseteq Seq(Names)
    BY <1>1, <1>2
  <1>4. \A p : Is(g, p, "link") <=> Is(b, p, "link")
    BY <1>2 DEF Is, Exists
  <1>5. LinksOK(b)
    BY NodeFacts DEF LinksOK
  <1>6. LinksOK(g)
    BY <1>2, <1>5 DEF LinksOK
  <1>7. \A p : Clean(g, p) <=> Clean(b, p)
    BY <1>4 DEF Clean
  <1>8. \A p \in DOMAIN g : g[p].mode \in Modes(b) /\ g[p].type \in {"dir", "file", "link"}
    BY <1>2, NodeFacts
  <1> QED
    BY <1>1, <1>2, <1>3, <1>4, <1>5, <1>6, <1>7, <1>8

\* What a copy adds is no link, and so turns no path elsewhere: the next link,
LEMMA FollowSame ==
    ASSUME TreesOK, NEW b \in Trees, NEW q, NEW g, Grown(b, q, g), NEW p \in Seq(Names)
    PROVE  Follow(g, p) = Follow(b, p) /\ Follow(b, p) \in Seq(Names)
  <1>1. /\ LinksOK(b) /\ (Clean(g, p) <=> Clean(b, p))
        /\ \A x : Is(g, x, "link") <=> Is(b, x, "link")
        /\ \A x \in DOMAIN b : g[x] = b[x]
    BY GrownFacts
  <1>2. CASE Clean(b, p)
    BY <1>1, <1>2, CleanFollow
  <1>3. CASE ~Clean(b, p)
    <2>1. PICK i \in 1 .. Len(p) : /\ Is(b, Pre(p, i), "link")
                                   /\ \A k \in 1 .. (i - 1) : ~Is(b, Pre(p, k), "link")
      BY <1>3, FirstLink
    <2>2. Is(g, Pre(p, i), "link") /\ \A k \in 1 .. (i - 1) : ~Is(g, Pre(p, k), "link")
      BY <1>1, <2>1
    <2>3. Follow(b, p) = Below(b[Pre(p, i)].to, SubSeq(p, i + 1, Len(p)))
      BY <2>1, FollowAt
    <2>4. Follow(g, p) = Below(g[Pre(p, i)].to, SubSeq(p, i + 1, Len(p)))
      BY <2>2, FollowAt
    <2>5. g[Pre(p, i)] = b[Pre(p, i)]
      BY <1>1, <2>1 DEF Is, Exists
    <2>6. <<>> \in Seq(Names)
      OBVIOUS
    <2>7. Follow(b, p) \in Seq(Names)
      BY <1>1, <1>3, <2>6, FollowBelow
    <2> QED
      BY <2>3, <2>4, <2>5, <2>7
  <1> QED
    BY <1>2, <1>3

\* the canonical form
LEMMA RealSame ==
    ASSUME TreesOK, NEW b \in Trees, NEW q, NEW g, Grown(b, q, g), NEW p \in Seq(Names)
    PROVE  Real(g, p) = Real(b, p) /\ Real(b, p) \in Seq(Names)
  <1>0. MaxDepth \in Nat /\ LinksOK(b)
    BY GrownFacts
  <1>1p. PICK f : Chain(b, p, f)
    BY <1>0, RealSteps
  <1>1. /\ f[0] = p /\ Real(b, p) = f[MaxDepth]
        /\ \A n \in 1 .. MaxDepth : f[n] = Follow(b, f[n - 1])
    BY <1>1p DEF Chain
  <1>2p. PICK h : Chain(g, p, h)
    BY <1>0, RealSteps
  <1>2. /\ h[0] = p /\ Real(g, p) = h[MaxDepth]
        /\ \A n \in 1 .. MaxDepth : h[n] = Follow(g, h[n - 1])
    BY <1>2p DEF Chain
  <1> DEFINE G == {n \in Nat : f[n] \in Seq(Names) /\ h[n] = f[n]}
  <1>3. 0 \in G
    BY <1>1, <1>2
  <1>4. ASSUME NEW n \in 0 .. (MaxDepth - 1), n \in G PROVE n + 1 \in G
    <2>1. /\ n + 1 \in 1 .. MaxDepth /\ (n + 1) - 1 = n /\ n + 1 \in Nat
          /\ f[n] \in Seq(Names) /\ h[n] = f[n]
      BY <1>0, <1>4
    <2>2. f[n + 1] = Follow(b, f[n]) /\ h[n + 1] = Follow(g, h[n])
      BY <1>1, <1>2, <2>1
    <2>3. Follow(g, f[n]) = Follow(b, f[n]) /\ Follow(b, f[n]) \in Seq(Names)
      BY <2>1, FollowSame
    <2> QED
      BY <2>1, <2>2, <2>3
  <1>5. \A n \in 0 .. MaxDepth : n \in G
    <2> HIDE DEF G
    <2> QED
      BY <1>0, <1>3, <1>4, Climb
  <1> QED
    BY <1>0, <1>1, <1>2, <1>5

\* and what lstat looks at are the ones from before the copy.
LEMMA LRealSame ==
    ASSUME TreesOK, NEW b \in Trees, NEW q, NEW g, Grown(b, q, g), NEW p \in Seq(Names)
    PROVE  LReal(g, p) = LReal(b, p) /\ LReal(b, p) \in Seq(Names)
  <1>1. CASE p = Root
    BY <1>1 DEF LReal
  <1>2. CASE p # Root
    <2>1. Front(p) \in Seq(Names) /\ Last(p) \in Names
      BY <1>2, FrontFacts
    <2>2. Real(g, Front(p)) = Real(b, Front(p)) /\ Real(b, Front(p)) \in Seq(Names)
      BY <2>1, RealSame
    <2>3. Append(Real(b, Front(p)), Last(p)) \in Seq(Names)
      BY <2>1, <2>2, AppendFacts
    <2> QED
      BY <1>2, <2>2, <2>3 DEF LReal
  <1> QED
    BY <1>1, <1>2

-----------------------------------------------------------------------------
(* Copy: what every step keeps.                                             *)

\* A request is about one place.
LEMMA PlacedOnce ==
    ASSUME NEW src \in Seq(Names), NEW tgt \in Seq(Names), NEW r,
           NEW s \in Seq(Names), NEW u \in Seq(Names), Placed(src, tgt, r, s), Placed(src, tgt, r, u)
    PROVE  s = u
  <1>1. Below(tgt, s) = Below(tgt, u)
    BY DEF Placed
  <1> QED
    BY <1>1, BelowCancel

\* The tree h is g with more entries.
Extends(g, h) == DOMAIN g \subseteq DOMAIN h /\ \A p : Is(g, p, "dir") => Is(h, p, "dir")

\* A step that adds fit requests and fit entries harms nothing.
LEMMA HarmlessStep ==
    ASSUME NEW b, NEW src, NEW tgt, NEW g, NEW h, NEW r, NEW W, NEW M,
           Harmless(b, src, tgt, g, {r} \cup W), Grown(b, LReal(b, tgt), h), Extends(g, h),
           M \subseteq CopyRequest(b), \A m \in M : Fit(b, src, tgt, h, m)
    PROVE  Harmless(b, src, tgt, h, M \cup W)
  <1>1. ASSUME NEW x \in W PROVE Fit(b, src, tgt, h, x)
    <2>1. Fit(b, src, tgt, g, x)
      BY DEF Harmless
    <2> QED
      BY <2>1 DEF Fit, FitAt, Extends
  <1> QED
    BY <1>1 DEF Harmless

\* A step keeps a copy on its course when it passes a trap on and keeps order.
LEMMA CourseStep ==
    ASSUME NEW b, NEW src, NEW tgt, NEW g, NEW h, NEW r, NEW W, NEW M,
           OnCourse(b, src, tgt, g, {r} \cup W), Extends(g, h),
           Trap(b, src, tgt, g, r) => Trapped(b, src, tgt, h, M),
           Orderly(b, src, tgt, g, {r} \cup W) /\ ~Leads(b, src, tgt) =>
               Trapped(b, src, tgt, h, M) \/ Orderly(b, src, tgt, h, M \cup W)
    PROVE  OnCourse(b, src, tgt, h, M \cup W)
  <1>1. ASSUME NEW x \in W, Trap(b, src, tgt, g, x) PROVE Trap(b, src, tgt, h, x)
    BY <1>1 DEF Trap, Extends
  <1>2. Trapped(b, src, tgt, g, {r} \cup W) => Trapped(b, src, tgt, h, M \cup W)
    BY <1>1 DEF Trapped
  <1>3. Trapped(b, src, tgt, h, M) => Trapped(b, src, tgt, h, M \cup W)
    BY DEF Trapped
  <1> QED
    BY <1>2, <1>3 DEF OnCourse

\* What becomes of the copy of s in a step that answers r with the requests M.
Kept(b, src, tgt, g, h, r, M, s) ==
    LET p == Real(b, Below(src, s))
        d == Below(LReal(b, tgt), s)
    IN /\ h[d].type = g[d].type
       /\ h[d].data \in {g[d].data, b[p].data}
       /\ h[d].mode \in {g[d].mode, b[p].mode}
       /\ Placed(src, tgt, r, s) /\ r.op = "fill" => h[d].data = b[p].data
       /\ Placed(src, tgt, r, s) /\ r.op \in {"list", "chmod"} =>
             h[d].mode = b[p].mode \/ Pending(src, tgt, M, {"chmod"}, s)

\* A step keeps order when it keeps what was made and answers for what it made.
LEMMA OrderlyStep ==
    ASSUME NEW b, NEW src, NEW tgt, NEW g, NEW h, NEW r, NEW W, NEW M,
           Orderly(b, src, tgt, g, {r} \cup W), Extends(g, h),
           \A m \in M : Sound(b, src, tgt, m),
           \A s \in Seq(Names) : Made(b, tgt, g, s) => Kept(b, src, tgt, g, h, r, M, s),
           \A s \in Seq(Names) : Made(b, tgt, h, s) /\ ~Made(b, tgt, g, s) =>
               Alike(b, src, tgt, h, M, s),
           \A s \in Seq(Names) : Real(b, Below(src, s)) \in DOMAIN b /\ Makes(src, tgt, r, s) =>
               Made(b, tgt, h, s) \/ \E m \in M : Makes(src, tgt, m, s)
    PROVE  Orderly(b, src, tgt, h, M \cup W)
  <1>1. \A x \in M \cup W : Sound(b, src, tgt, x)
    BY DEF Orderly
  <1>2. ASSUME NEW s \in Seq(Names), Made(b, tgt, h, s)
        PROVE  Alike(b, src, tgt, h, M \cup W, s)
    <2>1. CASE Made(b, tgt, g, s)
      <3> DEFINE p == Real(b, Below(src, s))
                 d == Below(LReal(b, tgt), s)
      <3>1. Alike(b, src, tgt, g, {r} \cup W, s) /\ Kept(b, src, tgt, g, h, r, M, s)
        BY <2>1 DEF Orderly
      <3>2. p \in DOMAIN b /\ h[d].type = b[p].type /\ b[p].type # "link"
        BY <3>1 DEF Alike, Kept
      <3>3. h[d].data = b[p].data \/ Pending(src, tgt, M \cup W, {"fill"}, s)
        <4>1. g[d].data = b[p].data \/ Pending(src, tgt, {r} \cup W, {"fill"}, s)
          BY <3>1 DEF Alike
        <4>2. Pending(src, tgt, {r} \cup W, {"fill"}, s) =>
                (Placed(src, tgt, r, s) /\ r.op = "fill") \/ Pending(src, tgt, M \cup W, {"fill"}, s)
          BY DEF Pending
        <4> QED
          BY <3>1, <4>1, <4>2 DEF Kept
      <3>4. h[d].mode = b[p].mode \/ Pending(src, tgt, M \cup W, {"list", "chmod"}, s)
        <4>1. g[d].mode = b[p].mode \/ Pending(src, tgt, {r} \cup W, {"list", "chmod"}, s)
          BY <3>1 DEF Alike
        <4>2. Pending(src, tgt, {r} \cup W, {"list", "chmod"}, s) =>
                \/ Placed(src, tgt, r, s) /\ r.op \in {"list", "chmod"}
                \/ Pending(src, tgt, M \cup W, {"list", "chmod"}, s)
          BY DEF Pending
        <4>3. Pending(src, tgt, M, {"chmod"}, s) => Pending(src, tgt, M \cup W, {"list", "chmod"}, s)
          BY DEF Pending
        <4> QED
          BY <3>1, <4>1, <4>2, <4>3 DEF Kept
      <3> QED
        BY <3>2, <3>3, <3>4 DEF Alike
    <2>2. CASE ~Made(b, tgt, g, s)
      <3>1. Alike(b, src, tgt, h, M, s)
        BY <1>2, <2>2
      <3>2. \A ops : Pending(src, tgt, M, ops, s) => Pending(src, tgt, M \cup W, ops, s)
        BY DEF Pending
      <3> QED
        BY <3>1, <3>2 DEF Alike
    <2> QED
      BY <2>1, <2>2
  <1>3. ASSUME NEW s \in Seq(Names), Real(b, Below(src, s)) \in DOMAIN b
        PROVE  Made(b, tgt, h, s) \/ \E x \in M \cup W : Makes(src, tgt, x, s)
    <2>1. Made(b, tgt, g, s) \/ \E x \in {r} \cup W : Makes(src, tgt, x, s)
      BY <1>3 DEF Orderly
    <2>2. Made(b, tgt, g, s) => Made(b, tgt, h, s)
      BY DEF Made, Extends
    <2> QED
      BY <1>3, <2>1, <2>2
  <1> QED
    BY <1>1, <1>2, <1>3 DEF Orderly

\* Putting an entry that is no link where the copy goes.
Put(g, d, x) == [p \in DOMAIN g \cup {d} |-> IF p = d THEN x ELSE g[p]]

\* What putting x at d does to the tree.
PutFacts(b, q, g, d, x, h) ==
    /\ Grown(b, q, h) /\ Extends(g, h) /\ DOMAIN h = DOMAIN g \cup {d} /\ h[d] = x
    /\ \A p \in DOMAIN g : p # d => h[p] = g[p]

\* A new entry in a folder of the copy, or a copied entry changed.
LEMMA GrownPut ==
    ASSUME NEW b, NEW q, NEW g, Grown(b, q, g), NEW d \in Seq(Names), d \notin DOMAIN b, d # Root,
           Len(d) <= MaxDepth, Under(q, d), q \notin DOMAIN b,
           Is(g, Front(d), "dir"), NEW x, x = Node(x.type, x.data, x.mode, Root),
           x.type = "dir" \/ x.type = "file", x.mode \in Modes(b),
           d \in DOMAIN g => g[d].type = x.type
    PROVE  PutFacts(b, q, g, d, x, Put(g, d, x))
  <1> DEFINE h == Put(g, d, x)
  <1>1. DOMAIN h = DOMAIN g \cup {d} /\ h[d] = x /\ \A p \in DOMAIN g : p # d => h[p] = g[p]
    BY DEF Put
  <1> HIDE DEF h
  <1>2. Extends(g, h)
    <2>1. ASSUME NEW p, Is(g, p, "dir") PROVE Is(h, p, "dir")
      <3>1. p \in DOMAIN g /\ g[p].type = "dir"
        BY <2>1 DEF Is, Exists
      <3> QED
        BY <1>1, <3>1 DEF Is, Exists
    <2> QED
      BY <1>1, <2>1 DEF Extends
  <1>3. /\ DOMAIN b \subseteq DOMAIN g /\ (\A p \in DOMAIN b : g[p] = b[p]) /\ Tidy(g)
    BY DEF Grown
  <1>4. DOMAIN b \subseteq DOMAIN h /\ \A p \in DOMAIN b : h[p] = b[p]
    BY <1>1, <1>3
  <1>5. ASSUME NEW p \in DOMAIN h \ DOMAIN b
        PROVE  /\ p \in Seq(Names) /\ Len(p) <= MaxDepth /\ Under(q, p) /\ q \notin DOMAIN b
               /\ h[p] = Node(h[p].type, h[p].data, h[p].mode, Root)
               /\ h[p].type \in {"dir", "file"} /\ h[p].mode \in Modes(b)
    <2>1. CASE p = d
      BY <1>1, <2>1
    <2>2. CASE p # d
      <3>1. p \in DOMAIN g \ DOMAIN b /\ h[p] = g[p]
        BY <1>1, <2>2
      <3> QED
        BY <3>1 DEF Grown
    <2> QED
      BY <2>1, <2>2
  <1>6. Tidy(h)
    <2>1. ASSUME NEW p \in DOMAIN h \ {Root} PROVE Is(h, Front(p), "dir")
      <3>1. Is(g, Front(p), "dir")
        BY <1>1, <1>3 DEF Tidy
      <3> QED
        BY <1>2, <3>1 DEF Extends
    <2> QED
      BY <2>1 DEF Tidy
  <1>7. Grown(b, q, h)
    BY <1>4, <1>5, <1>6 DEF Grown
  <1> QED
    BY <1>1, <1>2, <1>7 DEF h, PutFacts

-----------------------------------------------------------------------------
(* Copy: the steps.                                                         *)

\* The fields of a request,
LEMMA RequestFacts ==
    ASSUME NEW o, NEW from, NEW to, NEW mode
    PROVE  /\ Request(o, from, to, mode).op = o /\ Request(o, from, to, mode).from = from
           /\ Request(o, from, to, mode).to = to /\ Request(o, from, to, mode).mode = mode
  BY DEF Request

\* and its type.
LEMMA RequestType ==
    ASSUME NEW b, NEW o \in {"stat", "mkdir", "create", "fill", "list", "chmod"},
           NEW from \in Seq(Names), NEW to \in Seq(Names), NEW mode \in Modes(b)
    PROVE  Request(o, from, to, mode) \in CopyRequest(b)
  BY DEF Request, CopyRequest

\* What is known of a copy's first request.
LEMMA CopyHead ==
    ASSUME NEW b, NEW src, NEW tgt, NEW g, NEW r, NEW W, Harmless(b, src, tgt, g, {r} \cup W)
    PROVE  /\ r \in CopyRequest(b) /\ r.from \in Seq(Names) /\ r.to \in Seq(Names)
           /\ r.mode \in Modes(b)
           /\ \A o : [r EXCEPT !.op = o] = Request(o, r.from, r.to, r.mode)
           /\ Grown(b, LReal(b, tgt), g)
           /\ \E s \in Seq(Names) : FitAt(b, src, tgt, g, r, s)
  <1>1. r \in CopyRequest(b) /\ Fit(b, src, tgt, g, r) /\ Grown(b, LReal(b, tgt), g)
    BY DEF Harmless
  <1>2. /\ r.from \in Seq(Names) /\ r.to \in Seq(Names) /\ r.mode \in Modes(b)
        /\ \A o : [r EXCEPT !.op = o] = Request(o, r.from, r.to, r.mode)
    BY <1>1 DEF CopyRequest, Request
  <1> QED
    BY <1>1, <1>2 DEF Fit

\* The paths at s below the source and below the target.
LEMMA CopyAt ==
    ASSUME TreesOK, NEW b \in Trees, NEW src \in Seq(Names), NEW tgt \in Seq(Names), NEW g,
           Grown(b, LReal(b, tgt), g), NEW s \in Seq(Names),
           NEW q, q = LReal(b, tgt)
    PROVE  /\ q \in Seq(Names) /\ Below(src, s) \in Seq(Names) /\ Below(tgt, s) \in Seq(Names)
           /\ Below(q, s) \in Seq(Names) /\ Under(q, Below(q, s))
           /\ Real(g, Below(src, s)) = Real(b, Below(src, s)) /\ Real(b, Below(src, s)) \in Seq(Names)
           /\ LReal(g, Below(tgt, s)) = LReal(b, Below(tgt, s))
           /\ LReal(b, Below(tgt, s)) = Below(q, s) /\ Below(q, s) \in DOMAIN g \ DOMAIN b =>
                 Real(g, Below(tgt, s)) = Below(q, s) /\ Real(b, Below(tgt, s)) = Below(q, s)
  <1>1. q \in Seq(Names)
    BY LRealSame
  <1>2. /\ Below(src, s) \in Seq(Names) /\ Below(tgt, s) \in Seq(Names)
        /\ Below(q, s) \in Seq(Names) /\ Under(q, Below(q, s))
    BY <1>1, BelowFacts
  <1>3. Real(g, Below(src, s)) = Real(b, Below(src, s)) /\ Real(b, Below(src, s)) \in Seq(Names)
    BY <1>2, RealSame
  <1>4. LReal(g, Below(tgt, s)) = LReal(b, Below(tgt, s))
    BY <1>2, LRealSame
  <1>5. ASSUME LReal(b, Below(tgt, s)) = Below(q, s), Below(q, s) \in DOMAIN g \ DOMAIN b
        PROVE  Real(g, Below(tgt, s)) = Below(q, s) /\ Real(b, Below(tgt, s)) = Below(q, s)
    <2> DEFINE d == Below(q, s)
               t == Below(tgt, s)
    <2>1. /\ DOMAIN g \subseteq Seq(Names) /\ Tidy(g) /\ LinksOK(b) /\ MaxDepth \in Nat
          /\ (Clean(g, d) <=> Clean(b, d))
      BY GrownFacts
    <2>2. g[d].type # "link"
      BY <1>5 DEF Grown
    <2>3. Clean(g, d)
      BY <1>5, <2>1, <2>2, EntryClean
    <2>4. Real(b, t) = d
      BY <1>2, <1>5, <2>1, <2>3, LRealReal
    <2>5. Real(g, t) = Real(b, t)
      BY <1>2, RealSame
    <2> QED
      BY <2>4, <2>5
  <1> QED
    BY <1>1, <1>2, <1>3, <1>4, <1>5

\* What is there below a path is in what the path leads to.
LEMMA Reached ==
    ASSUME TreesOK, NEW b \in Trees, NEW p \in Seq(Names),
           Real(b, p) \in DOMAIN b, b[Real(b, p)].type # "link",
           NEW u \in Seq(Names), u # <<>>, Real(b, Below(p, u)) \in DOMAIN b
    PROVE  \E n \in Names : Append(Real(b, p), n) \in DOMAIN b /\ Under(<< n >>, u)
  <1>1. DOMAIN b \subseteq Seq(Names) /\ Tidy(b) /\ LinksOK(b) /\ MaxDepth \in Nat
    BY TreeFacts, NodeFacts DEF LinksOK
  <1> DEFINE n == u[1]
             o == << n >>
  <1>2. n \in Names /\ Len(u) \in Nat \ {0}
    BY ElementOfSeq
  <1> HIDE DEF n
  <1>3. o \in Seq(Names) /\ Len(o) = 1 /\ o[1] = n
    BY <1>2
  <1> HIDE DEF o
  <1>4. Under(o, u)
    <2>1. 1 \in 0 .. Len(u)
      BY <1>2
    <2>2. Pre(u, 1) \in Seq(Names) /\ Len(Pre(u, 1)) = 1 /\ \A k \in 1 .. 1 : Pre(u, 1)[k] = u[k]
      BY <2>1, PreFacts
    <2>3. \A k \in 1 .. 1 : Pre(u, 1)[k] = o[k]
      BY <1>3, <2>2 DEF n
    <2>4. Pre(u, 1) = o
      BY <1>3, <2>2, <2>3, SeqEqual
    <2>5. Len(o) <= Len(u) /\ Pre(u, Len(o)) = o
      BY <1>2, <1>3, <2>4
    <2> QED
      BY <1>3, <2>5, UnderFacts
  <1>5. Append(Real(b, p), n) \in DOMAIN b
    BY <1>1, <1>2, <1>4, BelowEntry DEF o
  <1> QED
    BY <1>2, <1>4, <1>5 DEF o

\* A path under another is one below it.
LEMMA UnderBelow ==
    ASSUME NEW s \in Seq(Names), NEW v \in Seq(Names), Under(s, v)
    PROVE  \E u \in Seq(Names) : v = Below(s, u)
  <1> DEFINE u == SubSeq(v, Len(s) + 1, Len(v))
  <1>1. Len(s) <= Len(v) /\ Pre(v, Len(s)) = s /\ Len(s) \in Nat /\ Len(v) \in Nat
    BY UnderFacts
  <1>2. u \in Seq(Names) /\ Len(u) = Len(v) - Len(s)
        /\ \A k \in 1 .. (Len(v) - Len(s)) : u[k] = v[Len(s) + k]
    <2>1. u = [k \in 1 .. (Len(v) - Len(s)) |-> v[Len(s) + k]]
      BY <1>1
    <2>2. \A k \in 1 .. (Len(v) - Len(s)) : v[Len(s) + k] \in Names
      BY <1>1
    <2> QED
      BY <1>1, <2>1, <2>2
  <1> HIDE DEF u
  <1> DEFINE a == Below(s, u)
  <1>3. /\ a \in Seq(Names) /\ Len(a) = Len(s) + Len(u)
        /\ \A i \in 1 .. Len(s) : a[i] = s[i]
        /\ \A i \in 1 .. Len(u) : a[Len(s) + i] = u[i]
    BY <1>2, BelowFacts
  <1> HIDE DEF a
  <1>4. \A i \in 1 .. Len(s) : s[i] = v[i]
    <2>1. Len(s) \in 0 .. Len(v)
      BY <1>1
    <2>2. \A k \in 1 .. Len(s) : Pre(v, Len(s))[k] = v[k]
      BY <2>1, PreFacts
    <2> QED
      BY <1>1, <2>2
  <1>5. ASSUME NEW i \in 1 .. Len(v) PROVE a[i] = v[i]
    <2>1. CASE i <= Len(s)
      BY <1>1, <1>3, <1>4, <2>1
    <2>2. CASE ~(i <= Len(s))
      <3>1. /\ i - Len(s) \in 1 .. Len(u) /\ i - Len(s) \in 1 .. (Len(v) - Len(s))
            /\ Len(s) + (i - Len(s)) = i
        BY <1>1, <1>2, <2>2
      <3> QED
        BY <1>2, <1>3, <3>1
    <2> QED
      BY <1>1, <2>1, <2>2
  <1>6. Len(a) = Len(v)
    BY <1>1, <1>2, <1>3
  <1>7. a = v
    BY <1>3, <1>5, <1>6, SeqEqual
  <1> QED
    BY <1>2, <1>7 DEF a

\* The same below the source of a copy.
LEMMA ReachedBelow ==
    ASSUME TreesOK, NEW b \in Trees, NEW src \in Seq(Names), NEW s \in Seq(Names),
           NEW v \in Seq(Names), Under(s, v), s # v,
           NEW p, p = Real(b, Below(src, s)), p \in DOMAIN b, b[p].type # "link",
           Real(b, Below(src, v)) \in DOMAIN b
    PROVE  \E n \in Names : /\ Append(p, n) \in DOMAIN b /\ b[p].type = "dir"
                            /\ Under(Append(s, n), v)
  <1>1. PICK u \in Seq(Names) : v = Below(s, u)
    BY UnderBelow
  <1>2. u # <<>> /\ Below(src, s) \in Seq(Names)
    BY <1>1, BelowFacts
  <1>3. Below(src, v) = Below(Below(src, s), u)
    BY <1>1, BelowBelow
  <1>4. PICK n \in Names : Append(p, n) \in DOMAIN b /\ Under(<< n >>, u)
    BY <1>2, <1>3, Reached
  <1> DEFINE o == << n >>
  <1>5. o \in Seq(Names) /\ Below(s, o) = Append(s, n)
    BY BelowOne
  <1>6. Under(o, u)
    BY <1>4
  <1> HIDE DEF o
  <1>7. Under(Append(s, n), v)
    BY <1>1, <1>5, <1>6, BelowUnder
  <1>8. b[p].type = "dir"
    <2>1. p \in Seq(Names) /\ Tidy(b)
      BY TreeFacts
    <2>2. Append(p, n) # Root /\ Front(Append(p, n)) = p
      BY <2>1, AppendFacts
    <2> QED
      BY <1>4, <2>1, <2>2 DEF Tidy, Is
  <1> QED
    BY <1>4, <1>7, <1>8

\* The request that follows from metadata: what it makes is all there is.
StatNext(g, r, p) ==
    Request(IF g[p].type = "dir" THEN "mkdir" ELSE "create", r.from, r.to, g[p].mode)

\* What the request m says of the place s it was made for.
StatFacts(b, src, tgt, r, s, p, m) ==
    /\ m.op = "mkdir" \/ m.op = "create"
    /\ m.op = "mkdir" <=> Is(b, p, "dir")
    /\ m.from = r.from /\ m.to = r.to /\ m.mode = b[p].mode /\ Placed(src, tgt, m, s)
    /\ Trap(b, src, tgt, b, m) \/ Sound(b, src, tgt, m)
    /\ \A v \in Seq(Names) : Under(s, v) /\ Real(b, Below(src, v)) \in DOMAIN b =>
          Makes(src, tgt, m, v)

\* metadata leads to the request that makes what is there, or to a trap.
LEMMA StatMakes ==
    ASSUME TreesOK, NEW b \in Trees, NEW src \in Seq(Names), NEW tgt \in Seq(Names), NEW r,
           r.op = "stat", NEW s \in Seq(Names), Placed(src, tgt, r, s),
           NEW p, p = Real(b, Below(src, s)), p \in DOMAIN b, b[p].type # "link",
           NEW m, m = StatNext(b, r, p)
    PROVE  StatFacts(b, src, tgt, r, s, p, m)
  <1>1. /\ m.op = (IF b[p].type = "dir" THEN "mkdir" ELSE "create")
        /\ m.from = r.from /\ m.to = r.to /\ m.mode = b[p].mode
    BY RequestFacts DEF StatNext
  <1>2. m.op \in {"mkdir", "create"} /\ (m.op = "mkdir" <=> Is(b, p, "dir"))
    BY <1>1 DEF Is, Exists
  <1>3. Placed(src, tgt, m, s)
    BY <1>1, <1>2 DEF Placed
  <1>4. m.op = "create" => Is(b, p, "file")
    BY <1>1, NodeFacts DEF Is, Exists
  <1>5. Trap(b, src, tgt, b, m) \/ Sound(b, src, tgt, m)
    <2>1. CASE m.op = "mkdir" /\ Inside(p, Below(LReal(b, tgt), s))
      BY <1>2, <1>3, <2>1 DEF Trap
    <2>2. CASE ~(m.op = "mkdir" /\ Inside(p, Below(LReal(b, tgt), s)))
      <3>1. ASSUME NEW u \in Seq(Names), Placed(src, tgt, m, u) PROVE u = s
        BY <1>3, <3>1, PlacedOnce
      <3> QED
        BY <1>1, <1>2, <1>4, <2>2, <3>1 DEF Sound
    <2> QED
      BY <2>1, <2>2
  <1>6. ASSUME NEW v \in Seq(Names), Under(s, v), Real(b, Below(src, v)) \in DOMAIN b
        PROVE  Makes(src, tgt, m, v)
    <2>1. CASE m.op = "mkdir"
      BY <1>3, <1>6, <2>1 DEF Makes
    <2>2. CASE m.op = "create"
      <3>1. s = v
        BY <1>2, <1>6, <2>2, ReachedBelow DEF Is, Exists
      <3> QED
        BY <1>3, <1>6, <2>2, <3>1 DEF Makes
    <2> QED
      BY <1>2, <2>1, <2>2
  <1> QED
    BY <1>1, <1>2, <1>3, <1>5, <1>6 DEF StatFacts

\* metadata.
LEMMA CopyStat ==
    ASSUME TreesOK, NEW b \in Trees, NEW src \in Seq(Names), NEW tgt \in Seq(Names),
           NEW g, NEW r, NEW W, r.op = "stat",
           Harmless(b, src, tgt, g, {r} \cup W), OnCourse(b, src, tgt, g, {r} \cup W),
           NEW p, p = Real(g, r.from), p \in DOMAIN g, g[p].type # "link",
           NEW m, m = StatNext(g, r, p)
    PROVE  /\ m \in CopyRequest(b) /\ Harmless(b, src, tgt, g, {m} \cup W)
           /\ OnCourse(b, src, tgt, g, {m} \cup W)
  <1> DEFINE q == LReal(b, tgt)
  <1>1. /\ r.from \in Seq(Names) /\ r.to \in Seq(Names) /\ Grown(b, q, g)
    BY CopyHead
  <1>2. PICK s \in Seq(Names) : FitAt(b, src, tgt, g, r, s)
    BY CopyHead
  <1>3. Placed(src, tgt, r, s) /\ r.from = Below(src, s)
    BY <1>2 DEF FitAt, Placed
  <1>4. p = Real(b, Below(src, s)) /\ q \in Seq(Names)
    BY <1>1, <1>3, CopyAt
  <1>5. Extends(g, g)
    BY DEF Extends
  <1>6. /\ g[p].mode \in Modes(b)
        /\ \A x \in DOMAIN b : g[x] = b[x]
    BY <1>1, GrownFacts
  <1>7. /\ m.op = (IF g[p].type = "dir" THEN "mkdir" ELSE "create")
        /\ m.from = r.from /\ m.to = r.to /\ m.mode = g[p].mode
    BY RequestFacts DEF StatNext
  <1>8. m \in CopyRequest(b)
    <2>1. (IF g[p].type = "dir" THEN "mkdir" ELSE "create")
             \in {"stat", "mkdir", "create", "fill", "list", "chmod"}
      OBVIOUS
    <2> QED
      BY <1>1, <1>6, <2>1, RequestType DEF StatNext
  <1>9. Fit(b, src, tgt, g, m)
    <2>1. FitAt(b, src, tgt, g, m, s)
      BY <1>2, <1>7 DEF FitAt, Placed
    <2> QED
      BY <2>1 DEF Fit
  <1>10. Harmless(b, src, tgt, g, {m} \cup W)
    <2>1. {m} \subseteq CopyRequest(b) /\ \A x \in {m} : Fit(b, src, tgt, g, x)
      BY <1>8, <1>9
    <2> QED
      BY <1>1, <1>5, <2>1, HarmlessStep
  <1>11. Trap(b, src, tgt, g, r) => Trapped(b, src, tgt, g, {m})
    <2> SUFFICES ASSUME Trap(b, src, tgt, g, r) PROVE Trap(b, src, tgt, g, m)
      BY DEF Trapped
    <2>1. PICK u \in Seq(Names) : /\ Placed(src, tgt, r, u) /\ Is(g, Real(b, Below(src, u)), "dir")
                                  /\ Inside(Real(b, Below(src, u)), Below(LReal(b, tgt), u))
      BY DEF Trap
    <2>2. u = s
      BY <1>3, <2>1, PlacedOnce
    <2>3. m.op = "mkdir"
      BY <1>4, <1>7, <2>1, <2>2 DEF Is
    <2>4. Placed(src, tgt, m, u)
      BY <1>7, <2>1, <2>3 DEF Placed
    <2> QED
      BY <2>1, <2>3, <2>4 DEF Trap
  <1>12. ASSUME Orderly(b, src, tgt, g, {r} \cup W), ~Leads(b, src, tgt)
         PROVE  Trapped(b, src, tgt, g, {m}) \/ Orderly(b, src, tgt, g, {m} \cup W)
    <2>1. LReal(b, Below(src, s)) \in DOMAIN b
      BY <1>3, <1>12 DEF Orderly, Sound
    <2>2. p \in DOMAIN b
      <3>1. CASE Is(b, LReal(b, Below(src, s)), "link")
        <4>1. s \in Paths
          <5>1. Len(s) \in 0 .. MaxDepth /\ s \in [1 .. Len(s) -> Names]
            BY <1>2 DEF FitAt, TreesOK
          <5> QED
            BY <5>1 DEF Paths
        <4>2. ~Under(q, p)
          BY <1>4, <1>12, <3>1, <4>1 DEF Leads
        <4> QED
          BY <1>1, <4>2 DEF Grown
      <3>2. CASE ~Is(b, LReal(b, Below(src, s)), "link")
        <4> DEFINE l == LReal(b, Below(src, s))
        <4>1. /\ DOMAIN b \subseteq Seq(Names) /\ Tidy(b) /\ LinksOK(b) /\ MaxDepth \in Nat
          BY <1>1, GrownFacts
        <4>2. b[l].type # "link"
          BY <2>1, <3>2 DEF Is, Exists
        <4>3. Clean(b, l)
          BY <2>1, <4>1, <4>2, EntryClean
        <4>4. Real(b, Below(src, s)) = l
          BY <1>1, <1>3, <4>1, <4>3, LRealReal
        <4> QED
          BY <1>4, <2>1, <4>4
      <3> QED
        BY <3>1, <3>2
    <2>3. g[p] = b[p] /\ m = StatNext(b, r, p)
      BY <1>6, <2>2 DEF StatNext
    <2>4. /\ Trap(b, src, tgt, b, m) \/ Sound(b, src, tgt, m)
          /\ \A v \in Seq(Names) : Under(s, v) /\ Real(b, Below(src, v)) \in DOMAIN b =>
                 Makes(src, tgt, m, v)
      <3>1. StatFacts(b, src, tgt, r, s, p, m)
        BY <1>3, <1>4, <2>2, <2>3, StatMakes
      <3> QED
        BY <3>1 DEF StatFacts
    <2>5. CASE Trap(b, src, tgt, b, m)
      <3>1. \A x : Is(b, x, "dir") => Is(g, x, "dir")
        BY <1>1, <1>6 DEF Grown, Is, Exists
      <3>2. Trap(b, src, tgt, g, m)
        BY <2>5, <3>1 DEF Trap
      <3> QED
        BY <3>2 DEF Trapped
    <2>6. CASE Sound(b, src, tgt, m)
      <3> DEFINE M == {m}
      <3>1. \A v \in Seq(Names) : Made(b, tgt, g, v) => Kept(b, src, tgt, g, g, r, M, v)
        BY DEF Kept
      <3>2. ASSUME NEW v \in Seq(Names), Real(b, Below(src, v)) \in DOMAIN b, Makes(src, tgt, r, v)
            PROVE  \E x \in M : Makes(src, tgt, x, v)
        <4>1. PICK u \in Seq(Names) : Placed(src, tgt, r, u) /\ Under(u, v)
          BY <3>2 DEF Makes
        <4>2. u = s
          BY <1>3, <4>1, PlacedOnce
        <4> QED
          BY <2>4, <3>2, <4>1, <4>2
      <3>3. \A x \in M : Sound(b, src, tgt, x)
        BY <2>6
      <3> HIDE DEF M
      <3>4. \A v \in Seq(Names) : Real(b, Below(src, v)) \in DOMAIN b /\ Makes(src, tgt, r, v) =>
               Made(b, tgt, g, v) \/ \E x \in M : Makes(src, tgt, x, v)
        BY <3>2
      <3>5. \A v \in Seq(Names) : Made(b, tgt, g, v) /\ ~Made(b, tgt, g, v) =>
               Alike(b, src, tgt, g, M, v)
        OBVIOUS
      <3>6. Orderly(b, src, tgt, g, M \cup W)
        BY <1>5, <1>12, <3>1, <3>3, <3>4, <3>5, OrderlyStep, ZenonT(60)
      <3> QED
        BY <3>6 DEF M
    <2> QED
      BY <2>4, <2>5, <2>6
  <1>13. OnCourse(b, src, tgt, g, {m} \cup W)
    BY <1>5, <1>11, <1>12, CourseStep, ZenonT(60)
  <1> QED
    BY <1>8, <1>10, <1>13

\* Where create_dir and open put what they make: d, at some s below q.
Spot(b, src, tgt, g, r, q, d) ==
    /\ d \in Seq(Names) /\ d \notin DOMAIN g /\ d \notin DOMAIN b /\ d # Root
    /\ Len(d) <= MaxDepth /\ Under(q, d) /\ q \notin DOMAIN b /\ q \in Seq(Names)
    /\ Is(g, Front(d), "dir") /\ Grown(b, q, g)
    /\ \E s \in Seq(Names) : /\ FitAt(b, src, tgt, g, r, s) /\ d = Below(q, s)
                             /\ \A v \in Seq(Names) : Below(q, v) = d => v = s

\* create_dir and open with EXCLUDE make what was not there, where it belongs.
LEMMA CopyPlace ==
    ASSUME TreesOK, NEW b \in Trees, NEW src \in Seq(Names), NEW tgt \in Seq(Names),
           NEW g, NEW r, NEW W, r.op = "mkdir" \/ r.op = "create",
           Harmless(b, src, tgt, g, {r} \cup W), CanCreate(g, LReal(g, r.to))
    PROVE  Spot(b, src, tgt, g, r, LReal(b, tgt), LReal(g, r.to))
  <1>q. PICK q : q = LReal(b, tgt)
    OBVIOUS
  <1>d. PICK d : d = LReal(g, r.to)
    OBVIOUS
  <1>1. Grown(b, q, g)
    BY <1>q, CopyHead
  <1>2. PICK s \in Seq(Names) : FitAt(b, src, tgt, g, r, s)
    BY CopyHead
  <1>3. r.to = Below(tgt, s) /\ LReal(b, Below(tgt, s)) = Below(q, s)
    BY <1>q, <1>2 DEF FitAt, Placed
  <1>4. /\ q \in Seq(Names) /\ Below(q, s) \in Seq(Names) /\ Under(q, Below(q, s))
        /\ LReal(g, Below(tgt, s)) = LReal(b, Below(tgt, s))
    BY <1>q, <1>1, CopyAt
  <1>5. d = Below(q, s)
    BY <1>d, <1>3, <1>4
  <1>6. d # Root /\ Len(d) <= MaxDepth /\ d \notin DOMAIN g /\ Is(g, Front(d), "dir")
    BY <1>d DEF CanCreate, Exists
  <1>7. d \notin DOMAIN b
    BY <1>1, <1>6 DEF Grown
  <1>8. q \notin DOMAIN b
    <2>1. CASE s = <<>>
      <3>1. Below(q, s) = q
        BY <1>4, <2>1, BelowFacts
      <3> QED
        BY <1>5, <1>7, <3>1
    <2>2. CASE s # <<>>
      BY <1>q, <1>2, <2>2 DEF FitAt
    <2> QED
      BY <2>1, <2>2
  <1>9. \A v \in Seq(Names) : Below(q, v) = d => v = s
    BY <1>4, <1>5, BelowCancel
  <1> QED
    BY <1>q, <1>d, <1>1, <1>2, <1>4, <1>5, <1>6, <1>7, <1>8, <1>9 DEF Spot

\* create_dir.
LEMMA CopyMkdir ==
    ASSUME TreesOK, NEW b \in Trees, NEW src \in Seq(Names), NEW tgt \in Seq(Names),
           NEW g, NEW r, NEW W, r.op = "mkdir",
           Harmless(b, src, tgt, g, {r} \cup W), OnCourse(b, src, tgt, g, {r} \cup W),
           NEW q, q = LReal(b, tgt), NEW d, d = LReal(g, r.to), CanCreate(g, d),
           NEW m, m = Request("list", r.from, r.to, r.mode),
           NEW h, h = Put(g, d, Dir("default"))
    PROVE  /\ m \in CopyRequest(b) /\ Harmless(b, src, tgt, h, {m} \cup W)
           /\ OnCourse(b, src, tgt, h, {m} \cup W)
  <1> DEFINE x == Dir("default")
             M == {m}
  <1>0. Spot(b, src, tgt, g, r, q, d)
    BY CopyPlace
  <1>1. /\ d \in Seq(Names) /\ d \notin DOMAIN g /\ d \notin DOMAIN b /\ d # Root
        /\ Len(d) <= MaxDepth /\ Under(q, d) /\ q \notin DOMAIN b /\ q \in Seq(Names)
        /\ Is(g, Front(d), "dir") /\ Grown(b, q, g)
    BY <1>0 DEF Spot
  <1>2. PICK s \in Seq(Names) : /\ FitAt(b, src, tgt, g, r, s) /\ d = Below(q, s)
                                /\ \A v \in Seq(Names) : Below(q, v) = d => v = s
    BY <1>0 DEF Spot
  <1>3. /\ x = Node(x.type, x.data, x.mode, Root) /\ x.type = "dir" /\ x.data = "none"
        /\ x.mode = "default" /\ x.mode \in Modes(b)
    BY NodeFields DEF Dir, Modes
  <1> HIDE DEF x
  <1>4. /\ Grown(b, q, h) /\ Extends(g, h) /\ DOMAIN h = DOMAIN g \cup {d} /\ h[d] = x
        /\ \A p \in DOMAIN g : p # d => h[p] = g[p]
    <2>1. (x.type = "dir" \/ x.type = "file") /\ (d \in DOMAIN g => g[d].type = x.type) /\ h = Put(g, d, x)
      BY <1>1, <1>3 DEF x
    <2>2. PutFacts(b, q, g, d, x, h)
      BY <1>1, <1>3, <2>1, GrownPut
    <2> QED
      BY <2>2 DEF PutFacts
  <1>5. /\ r.from \in Seq(Names) /\ r.to \in Seq(Names) /\ r.mode \in Modes(b)
    BY CopyHead
  <1>6. m \in CopyRequest(b) /\ m.op = "list" /\ m.from = r.from /\ m.to = r.to /\ m.mode = r.mode
    <2>1. "list" \in {"stat", "mkdir", "create", "fill", "list", "chmod"}
      OBVIOUS
    <2>2. m \in CopyRequest(b)
      BY <1>5, <2>1, RequestType
    <2> QED
      BY <1>5, <2>2, RequestFacts
  <1>7. \A v : Placed(src, tgt, m, v) <=> Placed(src, tgt, r, v)
    BY <1>6 DEF Placed
  <1>8. Fit(b, src, tgt, h, m)
    <2>1. Is(h, d, "dir")
      BY <1>3, <1>4 DEF Is, Exists
    <2>2. FitAt(b, src, tgt, h, m, s)
      BY <1>1, <1>2, <1>4, <1>6, <1>7, <2>1 DEF FitAt
    <2> QED
      BY <2>2 DEF Fit
  <1>9. Harmless(b, src, tgt, h, M \cup W)
    <2>1. M \subseteq CopyRequest(b) /\ \A y \in M : Fit(b, src, tgt, h, y)
      BY <1>6, <1>8
    <2> HIDE DEF M
    <2> QED
      BY <1>4, <2>1, HarmlessStep
  <1>10. Trap(b, src, tgt, g, r) => Trapped(b, src, tgt, h, M)
    <2> SUFFICES ASSUME Trap(b, src, tgt, g, r) PROVE Trap(b, src, tgt, h, m)
      BY DEF Trapped
    <2> QED
      BY <1>4, <1>6, <1>7 DEF Trap, Extends
  <1>11. ASSUME Orderly(b, src, tgt, g, {r} \cup W) PROVE Orderly(b, src, tgt, h, M \cup W)
    <2>1. Sound(b, src, tgt, r) /\ Placed(src, tgt, r, s)
      BY <1>2, <1>11 DEF Orderly, FitAt
    <2>2. \A y \in M : Sound(b, src, tgt, y)
      BY <1>6, <1>7, <2>1 DEF Sound
    <2>3. ASSUME NEW v \in Seq(Names), Made(b, tgt, g, v) PROVE Kept(b, src, tgt, g, h, r, M, v)
      <3>1. Below(q, v) \in DOMAIN g /\ Below(q, v) # d
        BY <1>1, <2>3 DEF Made
      <3>2. h[Below(q, v)] = g[Below(q, v)]
        BY <1>4, <3>1
      <3> QED
        BY <3>2 DEF Kept
    <2>4. ASSUME NEW v \in Seq(Names), Made(b, tgt, h, v), ~Made(b, tgt, g, v)
          PROVE  Alike(b, src, tgt, h, M, v)
      <3>1. v = s /\ Below(q, v) = d
        BY <1>2, <1>4, <2>4 DEF Made
      <3> DEFINE p == Real(b, Below(src, s))
      <3>2. Is(b, p, "dir")
        BY <2>1 DEF Sound
      <3>3. p \in DOMAIN b /\ b[p].type = "dir"
        BY <3>2 DEF Is, Exists
      <3>4. b[p].data = "none"
        BY <3>3, NodeFacts
      <3>5. Pending(src, tgt, M, {"list", "chmod"}, s)
        BY <1>6, <1>7, <2>1 DEF Pending
      <3> QED
        BY <1>3, <1>4, <3>1, <3>3, <3>4, <3>5 DEF Alike
    <2>5. ASSUME NEW v \in Seq(Names), Makes(src, tgt, r, v)
          PROVE  Made(b, tgt, h, v) \/ \E y \in M : Makes(src, tgt, y, v)
      <3>1. PICK u \in Seq(Names) : Placed(src, tgt, r, u) /\ Under(u, v)
        BY <2>5 DEF Makes
      <3>2. u = s
        BY <2>1, <3>1, PlacedOnce
      <3>3. CASE u = v
        BY <1>1, <1>2, <1>4, <3>2, <3>3 DEF Made
      <3>4. CASE u # v
        BY <1>6, <1>7, <3>1, <3>4 DEF Makes
      <3> QED
        BY <3>3, <3>4
    <2> HIDE DEF M
    <2> QED
      BY <1>4, <1>11, <2>2, <2>3, <2>4, <2>5, OrderlyStep, ZenonT(60)
  <1>12. OnCourse(b, src, tgt, h, M \cup W)
    <2> HIDE DEF M
    <2> QED
      BY <1>4, <1>10, <1>11, CourseStep, ZenonT(60)
  <1> QED
    BY <1>6, <1>9, <1>12

\* open with CREATE and EXCLUDE.
LEMMA CopyCreate ==
    ASSUME TreesOK, NEW b \in Trees, NEW src \in Seq(Names), NEW tgt \in Seq(Names),
           NEW g, NEW r, NEW W, r.op = "create",
           Harmless(b, src, tgt, g, {r} \cup W), OnCourse(b, src, tgt, g, {r} \cup W),
           NEW q, q = LReal(b, tgt), NEW d, d = LReal(g, r.to), CanCreate(g, d),
           NEW m, m = Request("fill", r.from, r.to, r.mode),
           NEW k, k = Request("chmod", r.to, Root, r.mode),
           NEW h, h = Put(g, d, File("empty", "default"))
    PROVE  /\ m \in CopyRequest(b) /\ k \in CopyRequest(b)
           /\ Harmless(b, src, tgt, h, {m, k} \cup W)
           /\ OnCourse(b, src, tgt, h, {m, k} \cup W)
  <1> DEFINE x == File("empty", "default")
             M == {m, k}
  <1>0. Spot(b, src, tgt, g, r, q, d)
    BY CopyPlace
  <1>1. /\ d \in Seq(Names) /\ d \notin DOMAIN g /\ d \notin DOMAIN b /\ d # Root
        /\ Len(d) <= MaxDepth /\ Under(q, d) /\ q \notin DOMAIN b /\ q \in Seq(Names)
        /\ Is(g, Front(d), "dir") /\ Grown(b, q, g)
    BY <1>0 DEF Spot
  <1>2. PICK s \in Seq(Names) : /\ FitAt(b, src, tgt, g, r, s) /\ d = Below(q, s)
                                /\ \A v \in Seq(Names) : Below(q, v) = d => v = s
    BY <1>0 DEF Spot
  <1>3. /\ x = Node(x.type, x.data, x.mode, Root) /\ x.type = "file"
        /\ x.mode = "default" /\ x.mode \in Modes(b)
    BY NodeFields DEF File, Modes
  <1> HIDE DEF x
  <1>4. /\ Grown(b, q, h) /\ Extends(g, h) /\ DOMAIN h = DOMAIN g \cup {d} /\ h[d] = x
        /\ \A p \in DOMAIN g : p # d => h[p] = g[p]
    <2>1. (x.type = "dir" \/ x.type = "file") /\ (d \in DOMAIN g => g[d].type = x.type) /\ h = Put(g, d, x)
      BY <1>1, <1>3 DEF x
    <2>2. PutFacts(b, q, g, d, x, h)
      BY <1>1, <1>3, <2>1, GrownPut
    <2> QED
      BY <2>2 DEF PutFacts
  <1>5. /\ r.from \in Seq(Names) /\ r.to \in Seq(Names) /\ r.mode \in Modes(b)
        /\ Root \in Seq(Names)
    <2>1. Root \in Seq(Names)
      BY DEF Root
    <2> QED
      BY <2>1, CopyHead
  <1>6. /\ m \in CopyRequest(b) /\ m.op = "fill" /\ m.from = r.from /\ m.to = r.to /\ m.mode = r.mode
    <2>1. "fill" \in {"stat", "mkdir", "create", "fill", "list", "chmod"}
      OBVIOUS
    <2>2. m \in CopyRequest(b)
      BY <1>5, <2>1, RequestType
    <2> QED
      BY <1>5, <2>2, RequestFacts
  <1>7. /\ k \in CopyRequest(b) /\ k.op = "chmod" /\ k.from = r.to /\ k.mode = r.mode
    <2>1. "chmod" \in {"stat", "mkdir", "create", "fill", "list", "chmod"}
      OBVIOUS
    <2>2. k \in CopyRequest(b)
      BY <1>5, <2>1, RequestType
    <2> QED
      BY <1>5, <2>2, RequestFacts
  <1>8. Placed(src, tgt, r, s) /\ r.to = Below(tgt, s)
    BY <1>2 DEF FitAt, Placed
  <1>9. Placed(src, tgt, m, s) /\ Placed(src, tgt, k, s)
    BY <1>6, <1>7, <1>8 DEF Placed
  <1>10. ASSUME NEW y \in M PROVE Fit(b, src, tgt, h, y)
    <2>1. y.op # "list" /\ Placed(src, tgt, y, s)
      BY <1>6, <1>7, <1>9
    <2>2. FitAt(b, src, tgt, h, y, s)
      BY <1>1, <1>2, <1>4, <2>1 DEF FitAt
    <2> QED
      BY <2>2 DEF Fit
  <1>11. Harmless(b, src, tgt, h, M \cup W)
    <2>1. M \subseteq CopyRequest(b)
      BY <1>6, <1>7
    <2> HIDE DEF M
    <2> QED
      BY <1>4, <1>10, <2>1, HarmlessStep
  <1>12. ~Trap(b, src, tgt, g, r)
    BY DEF Trap
  <1>13. ASSUME Orderly(b, src, tgt, g, {r} \cup W) PROVE Orderly(b, src, tgt, h, M \cup W)
    <2> DEFINE p == Real(b, Below(src, s))
    <2>1. Is(b, p, "file") /\ p \in DOMAIN b /\ r.mode = b[p].mode
      BY <1>8, <1>13 DEF Orderly, Sound
    <2>2. ASSUME NEW y \in M PROVE Sound(b, src, tgt, y)
      <3>1. \A u \in Seq(Names) : Placed(src, tgt, y, u) => u = s
        BY <1>9, PlacedOnce
      <3>2. y.op \in {"fill", "chmod"} /\ y.mode = r.mode
        BY <1>6, <1>7
      <3> QED
        BY <2>1, <3>1, <3>2 DEF Sound
    <2>3. ASSUME NEW v \in Seq(Names), Made(b, tgt, g, v) PROVE Kept(b, src, tgt, g, h, r, M, v)
      <3>1. Below(q, v) \in DOMAIN g /\ Below(q, v) # d
        BY <1>1, <2>3 DEF Made
      <3>2. h[Below(q, v)] = g[Below(q, v)]
        BY <1>4, <3>1
      <3> QED
        BY <3>2 DEF Kept
    <2>4. ASSUME NEW v \in Seq(Names), Made(b, tgt, h, v), ~Made(b, tgt, g, v)
          PROVE  Alike(b, src, tgt, h, M, v)
      <3>1. v = s /\ Below(q, v) = d
        BY <1>2, <1>4, <2>4 DEF Made
      <3>2. p \in DOMAIN b /\ b[p].type = "file"
        BY <2>1 DEF Is, Exists
      <3>3. Pending(src, tgt, M, {"list", "chmod"}, s) /\ Pending(src, tgt, M, {"fill"}, s)
        BY <1>6, <1>7, <1>9 DEF Pending
      <3> QED
        BY <1>3, <1>4, <3>1, <3>2, <3>3 DEF Alike
    <2>5. ASSUME NEW v \in Seq(Names), Makes(src, tgt, r, v)
          PROVE  Made(b, tgt, h, v) \/ \E y \in M : Makes(src, tgt, y, v)
      <3>1. Placed(src, tgt, r, v)
        BY <2>5 DEF Makes
      <3>2. v = s
        BY <1>8, <3>1, PlacedOnce
      <3> QED
        BY <1>1, <1>2, <1>4, <3>2 DEF Made
    <2> HIDE DEF M
    <2> QED
      BY <1>4, <1>13, <2>2, <2>3, <2>4, <2>5, OrderlyStep, ZenonT(60)
  <1>14. OnCourse(b, src, tgt, h, M \cup W)
    <2> HIDE DEF M
    <2>1. Trap(b, src, tgt, g, r) => Trapped(b, src, tgt, h, M)
      BY <1>12
    <2>2. Orderly(b, src, tgt, g, {r} \cup W) /\ ~Leads(b, src, tgt) =>
             Trapped(b, src, tgt, h, M) \/ Orderly(b, src, tgt, h, M \cup W)
      BY <1>13
    <2> QED
      BY <1>4, <2>1, <2>2, CourseStep, ZenonT(60)
  <1> QED
    BY <1>6, <1>7, <1>11, <1>14

\* A step that replaces what was made at s, by x, and leads to no request.
Edits(b, tgt, g, s, x) ==
    /\ x = Node(x.type, x.data, x.mode, Root) /\ x.mode \in Modes(b)
    /\ x.type = g[Below(LReal(b, tgt), s)].type

\* x is more like what is copied.
Betters(b, src, tgt, g, r, s, x) ==
    LET p == Real(b, Below(src, s))
        d == Below(LReal(b, tgt), s)
    IN /\ x.data = b[p].data \/ (x.data = g[d].data /\ r.op = "chmod")
       /\ x.mode = b[p].mode \/ (x.mode = g[d].mode /\ r.op = "fill")

\* A step that betters what was made, in answer to fill or chmod.
LEMMA CopyEdit ==
    ASSUME TreesOK, NEW b \in Trees, NEW src \in Seq(Names), NEW tgt \in Seq(Names),
           NEW g, NEW r, NEW W, r.op = "fill" \/ r.op = "chmod",
           Harmless(b, src, tgt, g, {r} \cup W), OnCourse(b, src, tgt, g, {r} \cup W),
           NEW s \in Seq(Names), FitAt(b, src, tgt, g, r, s), NEW x, Edits(b, tgt, g, s, x),
           Orderly(b, src, tgt, g, {r} \cup W) => Betters(b, src, tgt, g, r, s, x)
    PROVE  /\ Harmless(b, src, tgt, Put(g, Below(LReal(b, tgt), s), x), W)
           /\ OnCourse(b, src, tgt, Put(g, Below(LReal(b, tgt), s), x), W)
  <1>q. PICK q : q = LReal(b, tgt)
    OBVIOUS
  <1>d. PICK d : d = Below(q, s)
    OBVIOUS
  <1>p. PICK p : p = Real(b, Below(src, s))
    OBVIOUS
  <1>h. PICK h : h = Put(g, d, x)
    OBVIOUS
  <1>0. x = Node(x.type, x.data, x.mode, Root) /\ x.type = g[d].type /\ x.mode \in Modes(b)
    BY <1>q, <1>d DEF Edits
  <1> DEFINE M == {}
  <1>1. Grown(b, q, g)
    BY <1>q, CopyHead
  <1>2. q \in Seq(Names) /\ d \in Seq(Names) /\ Under(q, d)
    BY <1>q, <1>d, <1>1, CopyAt
  <1>3. d \in DOMAIN g \ DOMAIN b /\ Placed(src, tgt, r, s)
    BY <1>q, <1>d DEF FitAt
  <1>4. /\ Len(d) <= MaxDepth /\ q \notin DOMAIN b /\ (x.type = "dir" \/ x.type = "file")
    BY <1>0, <1>1, <1>3 DEF Grown
  <1>5. d # Root /\ Is(g, Front(d), "dir")
    <2>1. Root \in DOMAIN b /\ Tidy(g)
      BY <1>1, GrownFacts
    <2> QED
      BY <1>3, <2>1 DEF Tidy
  <1>6. PutFacts(b, q, g, d, x, h)
    BY <1>h, <1>0, <1>1, <1>2, <1>3, <1>4, <1>5, GrownPut
  <1>7. /\ Grown(b, q, h) /\ Extends(g, h) /\ DOMAIN h = DOMAIN g /\ h[d] = x
        /\ \A y \in DOMAIN g : y # d => h[y] = g[y]
    BY <1>3, <1>6 DEF PutFacts
  <1>8. Harmless(b, src, tgt, h, M \cup W)
    <2>1. M \subseteq CopyRequest(b) /\ \A m \in M : Fit(b, src, tgt, h, m)
      OBVIOUS
    <2> HIDE DEF M
    <2> QED
      BY <1>q, <1>7, <2>1, HarmlessStep
  <1>9. ~Trap(b, src, tgt, g, r)
    BY DEF Trap
  <1>10. ASSUME Orderly(b, src, tgt, g, {r} \cup W) PROVE Orderly(b, src, tgt, h, M \cup W)
    <2>1. ASSUME NEW v \in Seq(Names), Made(b, tgt, g, v) PROVE Kept(b, src, tgt, g, h, r, M, v)
      <3>1. CASE v = s
        <4>1. /\ h[d].type = g[d].type
              /\ h[d].data = g[d].data \/ h[d].data = b[p].data
              /\ h[d].mode = g[d].mode \/ h[d].mode = b[p].mode
              /\ r.op = "fill" => h[d].data = b[p].data
              /\ r.op = "chmod" => h[d].mode = b[p].mode
          BY <1>q, <1>d, <1>p, <1>0, <1>7, <1>10 DEF Betters
        <4>2. r.op # "list"
          OBVIOUS
        <4> QED
          BY <1>q, <1>d, <1>p, <3>1, <4>1, <4>2 DEF Kept
      <3>2. CASE v # s
        <4>1. ~Placed(src, tgt, r, v)
          BY <1>3, <3>2, PlacedOnce
        <4>2. Below(q, v) # d
          BY <1>d, <1>2, <3>2, BelowCancel
        <4>3. h[Below(q, v)] = g[Below(q, v)]
          BY <1>q, <1>7, <2>1, <4>2 DEF Made
        <4> QED
          BY <1>q, <4>1, <4>3 DEF Kept
      <3> QED
        BY <3>1, <3>2
    <2>2. \A v \in Seq(Names) : Made(b, tgt, h, v) => Made(b, tgt, g, v)
      BY <1>7 DEF Made
    <2>3. \A v : ~Makes(src, tgt, r, v)
      BY DEF Makes
    <2>4. \A m \in M : Sound(b, src, tgt, m)
      OBVIOUS
    <2> HIDE DEF M
    <2> QED
      BY <1>7, <1>10, <2>1, <2>2, <2>3, <2>4, OrderlyStep, ZenonT(60)
  <1>11. OnCourse(b, src, tgt, h, M \cup W)
    <2> HIDE DEF M
    <2> QED
      BY <1>7, <1>9, <1>10, CourseStep, ZenonT(60)
  <1> QED
    BY <1>q, <1>d, <1>h, <1>8, <1>11

\* An entry that is no link.
Plain(x) == x = Node(x.type, x.data, x.mode, Root)

\* An entry with other data,
LEMMA NodeData ==
    ASSUME NEW g, NEW d, Plain(g[d]), NEW e
    PROVE  [g[d] EXCEPT !.data = e] = Node(g[d].type, e, g[d].mode, Root)
  BY DEF Node, Plain

\* and with another mode.
LEMMA NodeMode ==
    ASSUME NEW g, NEW d, Plain(g[d]), NEW e
    PROVE  [g[d] EXCEPT !.mode = e] = Node(g[d].type, g[d].data, e, Root)
  BY DEF Node, Plain

\* The bytes of the file.
LEMMA CopyFill ==
    ASSUME TreesOK, NEW b \in Trees, NEW src \in Seq(Names), NEW tgt \in Seq(Names),
           NEW g, NEW r, NEW W, r.op = "fill",
           Harmless(b, src, tgt, g, {r} \cup W), OnCourse(b, src, tgt, g, {r} \cup W),
           NEW d, d = Real(g, r.to), NEW c, c = g[Real(g, r.from)].data,
           NEW h, h = Put(g, d, Node(g[d].type, c, g[d].mode, Root))
    PROVE  Harmless(b, src, tgt, h, W) /\ OnCourse(b, src, tgt, h, W)
  <1>q. PICK q : q = LReal(b, tgt)
    OBVIOUS
  <1>1. Grown(b, q, g)
    BY <1>q, CopyHead
  <1>2. PICK s \in Seq(Names) : FitAt(b, src, tgt, g, r, s)
    BY CopyHead
  <1>3. /\ r.from = Below(src, s) /\ r.to = Below(tgt, s) /\ LReal(b, Below(tgt, s)) = Below(q, s)
        /\ Below(q, s) \in DOMAIN g \ DOMAIN b /\ Placed(src, tgt, r, s)
    BY <1>q, <1>2 DEF FitAt, Placed
  <1>p. PICK p : p = Real(b, Below(src, s))
    OBVIOUS
  <1>4. d = Below(q, s) /\ Real(g, r.from) = p
    BY <1>q, <1>p, <1>1, <1>3, CopyAt
  <1>5. g[d] = Node(g[d].type, g[d].data, g[d].mode, Root) /\ g[d].mode \in Modes(b)
    BY <1>1, <1>3, <1>4 DEF Grown
  <1> DEFINE x == Node(g[d].type, c, g[d].mode, Root)
  <1>7. x.type = g[d].type /\ x.data = c /\ x.mode = g[d].mode /\ h = Put(g, d, x)
    BY NodeFields
  <1>8. x = Node(x.type, x.data, x.mode, Root)
    BY <1>7
  <1>9. Orderly(b, src, tgt, g, {r} \cup W) => x.data = b[p].data
    <2> SUFFICES ASSUME Orderly(b, src, tgt, g, {r} \cup W) PROVE g[p].data = b[p].data
      BY <1>4, <1>7
    <2>1. p \in DOMAIN b
      BY <1>p, <1>3 DEF Orderly, Sound
    <2> QED
      BY <1>1, <2>1 DEF Grown
  <1> HIDE DEF x
  <1>10. Edits(b, tgt, g, s, x)
    BY <1>q, <1>4, <1>5, <1>7, <1>8 DEF Edits
  <1>11. Orderly(b, src, tgt, g, {r} \cup W) => Betters(b, src, tgt, g, r, s, x)
    BY <1>q, <1>p, <1>4, <1>7, <1>9 DEF Betters
  <1>12. h = Put(g, Below(LReal(b, tgt), s), x)
    BY <1>q, <1>4, <1>7
  <1> QED
    BY <1>2, <1>10, <1>11, <1>12, CopyEdit, ZenonT(60)

\* keep_mode.
LEMMA CopyChmod ==
    ASSUME TreesOK, NEW b \in Trees, NEW src \in Seq(Names), NEW tgt \in Seq(Names),
           NEW g, NEW r, NEW W, r.op = "chmod",
           Harmless(b, src, tgt, g, {r} \cup W), OnCourse(b, src, tgt, g, {r} \cup W),
           NEW d, d = Real(g, r.from),
           NEW h, h = Put(g, d, Node(g[d].type, g[d].data, r.mode, Root))
    PROVE  Harmless(b, src, tgt, h, W) /\ OnCourse(b, src, tgt, h, W)
  <1>q. PICK q : q = LReal(b, tgt)
    OBVIOUS
  <1>1. Grown(b, q, g) /\ r.mode \in Modes(b)
    BY <1>q, CopyHead
  <1>2. PICK s \in Seq(Names) : FitAt(b, src, tgt, g, r, s)
    BY CopyHead
  <1>3. /\ r.from = Below(tgt, s) /\ LReal(b, Below(tgt, s)) = Below(q, s)
        /\ Below(q, s) \in DOMAIN g \ DOMAIN b /\ Placed(src, tgt, r, s)
    BY <1>q, <1>2 DEF FitAt, Placed
  <1>p. PICK p : p = Real(b, Below(src, s))
    OBVIOUS
  <1>4. d = Below(q, s)
    BY <1>q, <1>1, <1>3, CopyAt
  <1>5. g[d] = Node(g[d].type, g[d].data, g[d].mode, Root)
    BY <1>1, <1>3, <1>4 DEF Grown
  <1> DEFINE x == Node(g[d].type, g[d].data, r.mode, Root)
  <1>7. x.type = g[d].type /\ x.data = g[d].data /\ x.mode = r.mode /\ h = Put(g, d, x)
    BY NodeFields
  <1>8. x = Node(x.type, x.data, x.mode, Root)
    BY <1>7
  <1>9. Orderly(b, src, tgt, g, {r} \cup W) => x.mode = b[p].mode
    BY <1>p, <1>3, <1>7 DEF Orderly, Sound
  <1> HIDE DEF x
  <1>10. Edits(b, tgt, g, s, x)
    BY <1>q, <1>1, <1>4, <1>7, <1>8 DEF Edits
  <1>11. Orderly(b, src, tgt, g, {r} \cup W) => Betters(b, src, tgt, g, r, s, x)
    BY <1>q, <1>p, <1>4, <1>7, <1>9 DEF Betters
  <1>12. h = Put(g, Below(LReal(b, tgt), s), x)
    BY <1>q, <1>4, <1>7
  <1> QED
    BY <1>2, <1>10, <1>11, <1>12, CopyEdit, ZenonT(60)

\* What fill and chmod replace is an entry that the copy made.
LEMMA FillAt ==
    ASSUME TreesOK, NEW b \in Trees, NEW src \in Seq(Names), NEW tgt \in Seq(Names),
           NEW g, NEW r, NEW W, r.op = "fill", Harmless(b, src, tgt, g, {r} \cup W)
    PROVE  Plain(g[Real(g, r.to)])
  <1>q. PICK q : q = LReal(b, tgt)
    OBVIOUS
  <1>1. Grown(b, q, g)
    BY <1>q, CopyHead
  <1>2. PICK s \in Seq(Names) : FitAt(b, src, tgt, g, r, s)
    BY CopyHead
  <1>3. /\ r.to = Below(tgt, s) /\ LReal(b, Below(tgt, s)) = Below(q, s)
        /\ Below(q, s) \in DOMAIN g \ DOMAIN b
    BY <1>q, <1>2 DEF FitAt, Placed
  <1>4. Real(g, r.to) = Below(q, s)
    BY <1>q, <1>1, <1>3, CopyAt
  <1> QED
    BY <1>1, <1>3, <1>4 DEF Grown, Plain

\* keep_mode acts on an entry the copy made.
LEMMA ChmodAt ==
    ASSUME TreesOK, NEW b \in Trees, NEW src \in Seq(Names), NEW tgt \in Seq(Names),
           NEW g, NEW r, NEW W, r.op = "chmod", Harmless(b, src, tgt, g, {r} \cup W)
    PROVE  Plain(g[Real(g, r.from)])
  <1>q. PICK q : q = LReal(b, tgt)
    OBVIOUS
  <1>1. Grown(b, q, g)
    BY <1>q, CopyHead
  <1>2. PICK s \in Seq(Names) : FitAt(b, src, tgt, g, r, s)
    BY CopyHead
  <1>3. /\ r.from = Below(tgt, s) /\ LReal(b, Below(tgt, s)) = Below(q, s)
        /\ Below(q, s) \in DOMAIN g \ DOMAIN b
    BY <1>q, <1>2 DEF FitAt, Placed
  <1>4. Real(g, r.from) = Below(q, s)
    BY <1>q, <1>1, <1>3, CopyAt
  <1> QED
    BY <1>1, <1>3, <1>4 DEF Grown, Plain

\* A path on the way to an entry is a folder.
LEMMA UnderIn ==
    ASSUME NEW g, DOMAIN g \subseteq Seq(Names), Tidy(g), NEW p \in DOMAIN g,
           NEW x \in Seq(Names), Under(x, p)
    PROVE  x \in DOMAIN g /\ (x # p => Is(g, x, "dir"))
  <1>1. p \in Seq(Names) /\ Len(x) \in Nat /\ Pre(p, Len(x)) = x
    BY UnderFacts
  <1>2. CASE x = p
    BY <1>2
  <1>3. CASE x # p
    <2>1. Len(x) < Len(p)
      BY <1>1, <1>3, UnderNext
    <2>2. Is(g, Pre(p, Len(x)), "dir")
      BY <1>1, <2>1, PrefixDirs DEF Tidy
    <2> QED
      BY <1>1, <2>2 DEF Is, Exists
  <1> QED
    BY <1>2, <1>3

\* What is over a folder's entry is the entry or over the folder.
LEMMA UnderOrLast ==
    ASSUME NEW q \in Seq(Names), NEW p \in Seq(Names), NEW n \in Names, Under(q, Append(p, n))
    PROVE  q = Append(p, n) \/ Under(q, p)
  <1> DEFINE a == Append(p, n)
  <1>1. /\ a \in Seq(Names) /\ Len(a) = Len(p) + 1 /\ Len(p) \in Nat /\ Len(q) \in Nat
        /\ \A i \in 0 .. Len(p) : Pre(a, i) = Pre(p, i)
    BY AppendFacts
  <1> HIDE DEF a
  <1>2. Len(q) <= Len(a) /\ Pre(a, Len(q)) = q
    BY <1>1, UnderFacts DEF a
  <1>3. CASE Len(q) = Len(a)
    BY <1>1, <1>2, <1>3, PreAll DEF a
  <1>4. CASE Len(q) # Len(a)
    <2>1. Len(q) \in 0 .. Len(p) /\ Len(q) <= Len(p)
      BY <1>1, <1>2, <1>4
    <2>2. Pre(p, Len(q)) = q
      BY <1>1, <1>2, <2>1
    <2> QED
      BY <2>1, <2>2, UnderFacts
  <1> QED
    BY <1>3, <1>4

\* The requests that follow from read_dir.
Ask(r, n) == Request("stat", Append(r.from, n), Append(r.to, n), "any")
\* ... and the one that ends a folder.
AskMode(r) == Request("chmod", r.to, Root, r.mode)

\* A folder's request: where it is.
ListAt(b, src, tgt, g, r, s, q, d, p) ==
    /\ s \in Seq(Names) /\ q \in Seq(Names) /\ d \in Seq(Names) /\ p \in Seq(Names)
    /\ q = LReal(b, tgt) /\ d = Below(q, s) /\ p = Real(b, Below(src, s)) /\ p = Real(g, r.from)
    /\ r.from = Below(src, s) /\ r.to = Below(tgt, s) /\ Placed(src, tgt, r, s)
    /\ Below(src, s) \in Seq(Names) /\ Below(tgt, s) \in Seq(Names)
    /\ Grown(b, q, g) /\ d \in DOMAIN g /\ d \notin DOMAIN b /\ Is(g, d, "dir") /\ Under(q, d)
    /\ q \notin DOMAIN b /\ Len(s) < MaxDepth
    /\ LReal(b, Below(tgt, s)) = d /\ Real(b, Below(tgt, s)) = d
    /\ FitAt(b, src, tgt, g, r, s)

\* The place of a folder that is to be listed.
LEMMA CopyListAt ==
    ASSUME TreesOK, NEW b \in Trees, NEW src \in Seq(Names), NEW tgt \in Seq(Names),
           NEW g, NEW r, NEW W, r.op = "list", Harmless(b, src, tgt, g, {r} \cup W)
    PROVE  \E s, q, d, p : ListAt(b, src, tgt, g, r, s, q, d, p)
  <1>q. PICK q : q = LReal(b, tgt)
    OBVIOUS
  <1>1. Grown(b, q, g)
    BY <1>q, CopyHead
  <1>2. PICK s \in Seq(Names) : FitAt(b, src, tgt, g, r, s)
    BY CopyHead
  <1>d. PICK d : d = Below(q, s)
    OBVIOUS
  <1>p. PICK p : p = Real(b, Below(src, s))
    OBVIOUS
  <1>3. /\ r.from = Below(src, s) /\ r.to = Below(tgt, s) /\ LReal(b, Below(tgt, s)) = d
        /\ d \in DOMAIN g /\ d \notin DOMAIN b /\ Placed(src, tgt, r, s) /\ Is(g, d, "dir")
    BY <1>q, <1>d, <1>2 DEF FitAt, Placed
  <1>4. /\ q \in Seq(Names) /\ Below(src, s) \in Seq(Names) /\ Below(tgt, s) \in Seq(Names)
        /\ d \in Seq(Names) /\ Under(q, d) /\ p = Real(g, r.from) /\ p \in Seq(Names)
        /\ Real(b, Below(tgt, s)) = d
    BY <1>q, <1>d, <1>p, <1>1, <1>3, CopyAt
  <1>5. Len(d) <= MaxDepth /\ q \notin DOMAIN b
    BY <1>1, <1>3 DEF Grown
  <1>6. Len(s) < MaxDepth
    <2>1. Root \in DOMAIN b /\ MaxDepth \in Nat
      BY <1>1, GrownFacts
    <2>2. q # Root
      BY <1>5, <2>1
    <2>3. Len(q) \in Nat \ {0}
      BY <1>4, <2>2, FrontFacts
    <2>4. Len(d) = Len(q) + Len(s) /\ Len(s) \in Nat
      BY <1>d, <1>4, BelowFacts
    <2> QED
      BY <1>5, <2>1, <2>3, <2>4
  <1>7. ListAt(b, src, tgt, g, r, s, q, d, p)
    BY <1>q, <1>d, <1>p, <1>1, <1>2, <1>3, <1>4, <1>5, <1>6 DEF ListAt
  <1> QED
    BY <1>7

\* The request for an entry of the folder.
AskAt(b, src, tgt, g, r, s, q, d, p, n) ==
    /\ Ask(r, n) \in CopyRequest(b) /\ Ask(r, n).op = "stat"
    /\ Append(s, n) \in Seq(Names) /\ Placed(src, tgt, Ask(r, n), Append(s, n))
    /\ FitAt(b, src, tgt, g, Ask(r, n), Append(s, n))
    /\ LReal(b, Below(src, Append(s, n))) = Append(p, n)
    /\ Below(q, Append(s, n)) = Append(d, n)
    /\ Below(src, Append(s, n)) = Below(Below(src, s), << n >>)

\* The request for an entry is fit: the copy's folder is the only new thing there.
LEMMA CopyAsk ==
    ASSUME TreesOK, NEW b \in Trees, NEW src \in Seq(Names), NEW tgt \in Seq(Names),
           NEW g, NEW r, NEW s, NEW q, NEW d, NEW p, ListAt(b, src, tgt, g, r, s, q, d, p),
           NEW n \in Names
    PROVE  AskAt(b, src, tgt, g, r, s, q, d, p, n)
  <1> DEFINE z == Append(s, n)
             x == Below(src, s)
             y == Below(tgt, s)
  <1>1. /\ s \in Seq(Names) /\ q \in Seq(Names) /\ d \in Seq(Names) /\ p \in Seq(Names)
        /\ q = LReal(b, tgt) /\ d = Below(q, s) /\ p = Real(b, x)
        /\ r.from = x /\ r.to = y /\ x \in Seq(Names) /\ y \in Seq(Names)
        /\ q \notin DOMAIN b /\ Len(s) < MaxDepth /\ Real(b, y) = d
    BY DEF ListAt
  <1>2. /\ z \in Seq(Names) /\ Len(z) = Len(s) + 1 /\ z # <<>> /\ Len(s) \in Nat
    <2>1. s \in Seq(Names)
      BY <1>1
    <2> QED
      BY <2>1, AppendFacts DEF Root
  <1>3. /\ Below(src, z) = Append(x, n) /\ Below(tgt, z) = Append(y, n) /\ Below(q, z) = Append(d, n)
        /\ Append(x, n) = Below(x, << n >>)
    <2>1. s \in Seq(Names) /\ q \in Seq(Names) /\ x \in Seq(Names)
      BY <1>1
    <2> HIDE DEF x, y, z
    <2>2. Below(src, Append(s, n)) = Append(Below(src, s), n)
      BY <2>1, BelowAppend
    <2>3. Below(tgt, Append(s, n)) = Append(Below(tgt, s), n)
      BY <2>1, BelowAppend
    <2>4. Below(q, Append(s, n)) = Append(Below(q, s), n)
      BY <2>1, BelowAppend
    <2>5. Append(x, n) = Below(x, << n >>)
      BY <2>1, BelowOne
    <2> QED
      BY <1>1, <2>2, <2>3, <2>4, <2>5 DEF x, y, z
  <1> HIDE DEF x, y, z
  <1>4. /\ Append(x, n) \in Seq(Names) /\ Append(y, n) \in Seq(Names)
        /\ Front(Append(x, n)) = x /\ Last(Append(x, n)) = n /\ Append(x, n) # Root
        /\ Front(Append(y, n)) = y /\ Last(Append(y, n)) = n /\ Append(y, n) # Root
    BY <1>1, AppendFacts
  <1>5. LReal(b, Append(x, n)) = Append(p, n) /\ LReal(b, Append(y, n)) = Append(d, n)
    BY <1>1, <1>4 DEF LReal
  <1>6. /\ Ask(r, n).op = "stat" /\ Ask(r, n).from = Append(x, n) /\ Ask(r, n).to = Append(y, n)
    <2> DEFINE f == Append(r.from, n)
               t == Append(r.to, n)
    <2>1. Ask(r, n) = Request("stat", f, t, "any")
      BY DEF Ask
    <2>2. f = Append(x, n) /\ t = Append(y, n)
      BY <1>1
    <2> HIDE DEF f, t
    <2>3. Ask(r, n).op = "stat" /\ Ask(r, n).from = f /\ Ask(r, n).to = t
      BY <2>1, RequestFacts
    <2> QED
      BY <2>2, <2>3
  <1>7. Ask(r, n) \in CopyRequest(b)
    <2>1. "stat" \in {"stat", "mkdir", "create", "fill", "list", "chmod"} /\ "any" \in Modes(b)
      BY DEF Modes
    <2>2. r.from = x /\ r.to = y
      BY <1>1
    <2> QED
      BY <1>4, <2>1, <2>2, RequestType DEF Ask
  <1>8. Placed(src, tgt, Ask(r, n), z)
    BY <1>3, <1>6 DEF Placed
  <1>9. Len(z) <= MaxDepth
    <2>1. MaxDepth \in Nat
      BY DEF TreesOK
    <2> QED
      BY <1>1, <1>2, <2>1
  <1>10. FitAt(b, src, tgt, g, Ask(r, n), z)
    BY <1>1, <1>3, <1>5, <1>6, <1>8, <1>9 DEF FitAt
  <1> QED
    BY <1>2, <1>3, <1>5, <1>6, <1>7, <1>8, <1>10 DEF x, y, z, AskAt

\* The request for the folder's mode.
LEMMA CopyKeep ==
    ASSUME TreesOK, NEW b \in Trees, NEW src \in Seq(Names), NEW tgt \in Seq(Names),
           NEW g, NEW r, NEW s, NEW q, NEW d, NEW p, ListAt(b, src, tgt, g, r, s, q, d, p),
           r.mode \in Modes(b)
    PROVE  /\ AskMode(r) \in CopyRequest(b) /\ AskMode(r).op = "chmod"
           /\ AskMode(r).mode = r.mode
           /\ Placed(src, tgt, AskMode(r), s) /\ FitAt(b, src, tgt, g, AskMode(r), s)
  <1>1. /\ r.to = Below(tgt, s) /\ r.to \in Seq(Names) /\ FitAt(b, src, tgt, g, r, s)
        /\ q = LReal(b, tgt) /\ d = Below(q, s) /\ d \in DOMAIN g /\ d \notin DOMAIN b
    BY DEF ListAt
  <1>2. /\ AskMode(r).op = "chmod" /\ AskMode(r).from = r.to /\ AskMode(r).mode = r.mode
    BY RequestFacts DEF AskMode
  <1>3. AskMode(r) \in CopyRequest(b)
    <2>1. "chmod" \in {"stat", "mkdir", "create", "fill", "list", "chmod"} /\ Root \in Seq(Names)
      BY DEF Root
    <2> QED
      BY <1>1, <2>1, RequestType DEF AskMode
  <1>4. Placed(src, tgt, AskMode(r), s)
    BY <1>1, <1>2 DEF Placed
  <1> QED
    BY <1>1, <1>2, <1>3, <1>4 DEF FitAt

\* A folder that is copied into itself has an entry that leads there.
LEMMA CopyListTrap ==
    ASSUME TreesOK, NEW b \in Trees, NEW src \in Seq(Names), NEW tgt \in Seq(Names),
           NEW g, NEW r, NEW s, NEW q, NEW d, NEW p, ListAt(b, src, tgt, g, r, s, q, d, p),
           Inside(p, d)
    PROVE  \E n \in Names : Append(p, n) \in DOMAIN g /\ Trap(b, src, tgt, g, Ask(r, n))
  <1>1. /\ q \in Seq(Names) /\ d \in Seq(Names) /\ p \in Seq(Names) /\ d \in DOMAIN g
        /\ q = LReal(b, tgt) /\ p = Real(b, Below(src, s)) /\ Below(src, s) \in Seq(Names)
        /\ Grown(b, q, g) /\ Is(g, d, "dir")
    BY DEF ListAt
  <1>2. /\ DOMAIN g \subseteq Seq(Names) /\ Tidy(g) /\ LinksOK(b) /\ MaxDepth \in Nat
        /\ \A x : Clean(g, x) <=> Clean(b, x)
    BY <1>1, GrownFacts
  <1>3. Under(p, d) /\ p # d
    BY DEF Inside
  <1>4. PICK n \in Names : Under(Append(p, n), d)
    BY <1>1, <1>3, UnderNext
  <1>a. PICK a : a = Append(p, n)
    OBVIOUS
  <1>e. PICK e : e = Append(d, n)
    OBVIOUS
  <1>5. a \in Seq(Names) /\ Under(a, d)
    BY <1>a, <1>1, <1>4, AppendFacts
  <1>6. a \in DOMAIN g /\ Is(g, a, "dir")
    BY <1>1, <1>2, <1>5, UnderIn
  <1>7. Clean(b, a)
    <2>1. g[a].type # "link"
      BY <1>6 DEF Is
    <2>2. Clean(g, a)
      BY <1>2, <1>6, <2>1, EntryClean
    <2> QED
      BY <1>2, <2>2
  <1>8. /\ Ask(r, n).op = "stat" /\ Append(s, n) \in Seq(Names)
        /\ Placed(src, tgt, Ask(r, n), Append(s, n))
        /\ Below(q, Append(s, n)) = e
        /\ Below(src, Append(s, n)) = Below(Below(src, s), << n >>)
    <2>1. AskAt(b, src, tgt, g, r, s, q, d, p, n)
      BY CopyAsk
    <2> QED
      BY <1>e, <2>1 DEF AskAt
  <1>9. Real(b, Below(src, Append(s, n))) = a
    <2> DEFINE x == Below(src, s)
               o == << n >>
    <2>1. o \in Seq(Names) /\ a = Below(p, o)
      BY <1>a, <1>1, BelowOne
    <2>2. Below(src, Append(s, n)) = Below(x, o) /\ p = Real(b, x) /\ x \in Seq(Names)
      BY <1>1, <1>8
    <2> HIDE DEF x, o
    <2>3. Real(b, Below(x, o)) = Below(Real(b, x), o)
      BY <1>2, <1>7, <2>1, <2>2, RealBelow
    <2> QED
      BY <2>1, <2>2, <2>3
  <1>10. Inside(a, e)
    <2>1. e \in Seq(Names) /\ Len(e) = Len(d) + 1 /\ Len(d) \in Nat /\ Len(a) \in Nat /\ Under(d, e)
      BY <1>e, <1>1, <1>5, AppendFacts, UnderAppend
    <2>2. Under(a, e)
      BY <1>1, <1>5, <2>1, UnderTrans
    <2>3. Len(a) <= Len(d)
      BY <1>1, <1>5, UnderFacts
    <2>4. a # e
      BY <2>1, <2>3
    <2> QED
      BY <2>2, <2>4 DEF Inside
  <1>11. Trap(b, src, tgt, g, Ask(r, n))
    <2> DEFINE z == Append(s, n)
    <2>1. z \in Seq(Names) /\ Placed(src, tgt, Ask(r, n), z) /\ Ask(r, n).op = "stat"
      BY <1>8
    <2>2. Is(g, Real(b, Below(src, z)), "dir") /\ Inside(Real(b, Below(src, z)), Below(LReal(b, tgt), z))
      BY <1>1, <1>6, <1>8, <1>9, <1>10
    <2> HIDE DEF z
    <2> QED
      BY <2>1, <2>2 DEF Trap
  <1> QED
    BY <1>a, <1>6, <1>11

\* What is found in a folder of the source was there before, or the folder is
\* copied into itself.
LEMMA CopyListSound ==
    ASSUME TreesOK, NEW b \in Trees, NEW src \in Seq(Names), NEW tgt \in Seq(Names),
           NEW g, NEW r, NEW s, NEW q, NEW d, NEW p, ListAt(b, src, tgt, g, r, s, q, d, p),
           p \in DOMAIN b, ~Inside(p, d), NEW n \in Names, Append(p, n) \in DOMAIN g
    PROVE  Append(p, n) \in DOMAIN b
  <1>1. /\ q \in Seq(Names) /\ d \in Seq(Names) /\ p \in Seq(Names)
        /\ Grown(b, q, g) /\ Under(q, d) /\ q \notin DOMAIN b
    BY DEF ListAt
  <1>2. DOMAIN b \subseteq Seq(Names) /\ Tidy(b)
    BY <1>1, GrownFacts
  <1> SUFFICES ASSUME Append(p, n) \notin DOMAIN b PROVE FALSE
    OBVIOUS
  <1>3. Under(q, Append(p, n))
    BY <1>1 DEF Grown
  <1>4. CASE q = Append(p, n)
    <2>1. Under(p, q) /\ Len(q) = Len(p) + 1 /\ Len(p) \in Nat
      BY <1>1, <1>4, UnderAppend, AppendFacts
    <2>2. Under(p, d) /\ Len(q) <= Len(d)
      BY <1>1, <2>1, UnderTrans, UnderFacts
    <2>3. p # d
      BY <2>1, <2>2
    <2> QED
      BY <2>2, <2>3 DEF Inside
  <1>5. CASE Under(q, p)
    BY <1>1, <1>2, <1>5, UnderIn
  <1> QED
    BY <1>1, <1>3, <1>4, <1>5, UnderOrLast

\* read_dir.
LEMMA CopyList ==
    ASSUME TreesOK, NEW b \in Trees, NEW src \in Seq(Names), NEW tgt \in Seq(Names),
           NEW g, NEW r, NEW W, r.op = "list",
           Harmless(b, src, tgt, g, {r} \cup W), OnCourse(b, src, tgt, g, {r} \cup W),
           NEW M, AskMode(r) \in M,
           \A n \in Children(g, Real(g, r.from)) : Ask(r, n) \in M,
           \A m \in M : m = AskMode(r) \/ \E n \in Children(g, Real(g, r.from)) : m = Ask(r, n)
    PROVE  /\ M \subseteq CopyRequest(b) /\ Harmless(b, src, tgt, g, M \cup W)
           /\ OnCourse(b, src, tgt, g, M \cup W)
  <1>1. PICK s, q, d, p : ListAt(b, src, tgt, g, r, s, q, d, p)
    BY CopyListAt
  <1>2. /\ s \in Seq(Names) /\ q = LReal(b, tgt) /\ d = Below(q, s)
        /\ p = Real(b, Below(src, s)) /\ p = Real(g, r.from) /\ Placed(src, tgt, r, s)
        /\ Grown(b, q, g)
    BY <1>1 DEF ListAt
  <1>3. \A n : n \in Children(g, Real(g, r.from)) <=> n \in Names /\ Append(p, n) \in DOMAIN g
    BY <1>2 DEF Children, Exists
  <1>4. /\ \A n \in Names : Append(p, n) \in DOMAIN g => Ask(r, n) \in M
        /\ \A m \in M : \/ m = AskMode(r)
                        \/ \E n \in Names : m = Ask(r, n) /\ Append(p, n) \in DOMAIN g
    BY <1>3
  <1>5. r.mode \in Modes(b) /\ Extends(g, g)
    BY CopyHead DEF Extends
  <1>6. /\ AskMode(r) \in CopyRequest(b) /\ AskMode(r).op = "chmod" /\ AskMode(r).mode = r.mode
        /\ Placed(src, tgt, AskMode(r), s) /\ FitAt(b, src, tgt, g, AskMode(r), s)
    BY <1>1, <1>5, CopyKeep
  <1>7. ASSUME NEW m \in M PROVE m \in CopyRequest(b) /\ Fit(b, src, tgt, g, m)
    <2>1. CASE m = AskMode(r)
      BY <1>2, <1>6, <2>1 DEF Fit
    <2>2. ASSUME NEW n \in Names, m = Ask(r, n) PROVE m \in CopyRequest(b) /\ Fit(b, src, tgt, g, m)
      <3>1. /\ Ask(r, n) \in CopyRequest(b) /\ Append(s, n) \in Seq(Names)
            /\ FitAt(b, src, tgt, g, Ask(r, n), Append(s, n))
        <4>1. AskAt(b, src, tgt, g, r, s, q, d, p, n)
          BY <1>1, CopyAsk
        <4> QED
          BY <4>1 DEF AskAt
      <3>2. Fit(b, src, tgt, g, Ask(r, n))
        BY <3>1 DEF Fit
      <3> QED
        BY <2>2, <3>1, <3>2
    <2> QED
      BY <1>4, <2>1, <2>2
  <1>8. M \subseteq CopyRequest(b) /\ Harmless(b, src, tgt, g, M \cup W)
    BY <1>2, <1>5, <1>7, HarmlessStep
  <1>9. Trap(b, src, tgt, g, r) => Trapped(b, src, tgt, g, M)
    <2> SUFFICES ASSUME Trap(b, src, tgt, g, r) PROVE Trapped(b, src, tgt, g, M)
      OBVIOUS
    <2>1. PICK u \in Seq(Names) : /\ Placed(src, tgt, r, u)
                                  /\ Inside(Real(b, Below(src, u)), Below(LReal(b, tgt), u))
      BY DEF Trap
    <2>2. u = s
      BY <1>2, <2>1, PlacedOnce
    <2>3. Inside(p, d)
      BY <1>2, <2>1, <2>2
    <2>4. PICK n \in Names : Append(p, n) \in DOMAIN g /\ Trap(b, src, tgt, g, Ask(r, n))
      BY <1>1, <2>3, CopyListTrap
    <2> QED
      BY <1>4, <2>4 DEF Trapped
  <1>10. ASSUME Orderly(b, src, tgt, g, {r} \cup W) PROVE Orderly(b, src, tgt, g, M \cup W)
    <2>1. Sound(b, src, tgt, r)
      BY <1>10 DEF Orderly
    <2>2. Is(b, p, "dir") /\ ~Inside(p, d) /\ p \in DOMAIN b /\ r.mode = b[p].mode
      BY <1>2, <2>1 DEF Sound
    <2>3. ASSUME NEW m \in M PROVE Sound(b, src, tgt, m)
      <3>1. CASE m = AskMode(r)
        <4>1. \A u \in Seq(Names) : Placed(src, tgt, m, u) => u = s
          BY <1>2, <1>6, <3>1, PlacedOnce
        <4> QED
          BY <1>2, <1>6, <2>2, <3>1, <4>1 DEF Sound
      <3>2. ASSUME NEW n \in Names, m = Ask(r, n), Append(p, n) \in DOMAIN g
            PROVE  Sound(b, src, tgt, m)
        <4>z. PICK z : z = Append(s, n)
          OBVIOUS
        <4>1. /\ m.op = "stat" /\ z \in Seq(Names) /\ Placed(src, tgt, m, z)
              /\ LReal(b, Below(src, z)) = Append(p, n)
          <5>1. AskAt(b, src, tgt, g, r, s, q, d, p, n)
            BY <1>1, CopyAsk
          <5> QED
            BY <3>2, <4>z, <5>1 DEF AskAt
        <4>2. Append(p, n) \in DOMAIN b
          BY <1>1, <2>2, <3>2, CopyListSound
        <4>3. \A u \in Seq(Names) : Placed(src, tgt, m, u) => u = z
          BY <4>1, PlacedOnce
        <4> QED
          BY <4>1, <4>2, <4>3 DEF Sound
      <3> QED
        BY <1>4, <3>1, <3>2
    <2>4. ASSUME NEW v \in Seq(Names) PROVE Kept(b, src, tgt, g, g, r, M, v)
      <3>1. Placed(src, tgt, r, v) => v = s
        BY <1>2, PlacedOnce
      <3>2. Pending(src, tgt, M, {"chmod"}, s)
        BY <1>6 DEF Pending
      <3> QED
        BY <3>1, <3>2 DEF Kept
    <2>5. ASSUME NEW v \in Seq(Names), Real(b, Below(src, v)) \in DOMAIN b, Makes(src, tgt, r, v)
          PROVE  \E m \in M : Makes(src, tgt, m, v)
      <3>1. PICK u \in Seq(Names) : Placed(src, tgt, r, u) /\ Under(u, v) /\ u # v
        BY <2>5 DEF Makes
      <3>2. u = s
        BY <1>2, <3>1, PlacedOnce
      <3>3. b[p].type # "link"
        BY <2>2 DEF Is
      <3>4. PICK n \in Names : Append(p, n) \in DOMAIN b /\ Under(Append(s, n), v)
        BY <1>2, <2>2, <2>5, <3>1, <3>2, <3>3, ReachedBelow
      <3>5. Append(p, n) \in DOMAIN g
        BY <1>2, <3>4 DEF Grown
      <3>z. PICK z : z = Append(s, n)
        OBVIOUS
      <3>6. Ask(r, n).op = "stat" /\ z \in Seq(Names) /\ Placed(src, tgt, Ask(r, n), z)
        <4>1. AskAt(b, src, tgt, g, r, s, q, d, p, n)
          BY <1>1, CopyAsk
        <4> QED
          BY <3>z, <4>1 DEF AskAt
      <3>7. Makes(src, tgt, Ask(r, n), v)
        BY <3>z, <3>4, <3>6 DEF Makes
      <3> QED
        BY <1>4, <3>5, <3>7
    <2> QED
      BY <1>5, <1>10, <2>3, <2>4, <2>5, OrderlyStep, ZenonT(60)
  <1>11. OnCourse(b, src, tgt, g, M \cup W)
    BY <1>5, <1>9, <1>10, CourseStep, ZenonT(60)
  <1> QED
    BY <1>8, <1>11

\* The first request of a copy, made of the tree as it was.
LEMMA CopyFirst ==
    ASSUME TreesOK, NEW b \in Trees, NEW src \in Seq(Names), NEW tgt \in Seq(Names),
           NEW r, r = Request("stat", src, tgt, "new"),
           Real(b, src) \in DOMAIN b, b[Real(b, src)].type # "link"
    PROVE  /\ StatNext(b, r, Real(b, src)) \in CopyRequest(b)
           /\ Harmless(b, src, tgt, b, {StatNext(b, r, Real(b, src))})
           /\ OnCourse(b, src, tgt, b, {StatNext(b, r, Real(b, src))})
  <1>q. PICK q : q = LReal(b, tgt)
    OBVIOUS
  <1>p. PICK p : p = Real(b, src)
    OBVIOUS
  <1>s. PICK s : s = <<>>
    OBVIOUS
  <1>m. PICK m : m = StatNext(b, r, p)
    OBVIOUS
  <1>1. s \in Seq(Names) /\ Len(s) = 0 /\ MaxDepth \in Nat
    BY <1>s DEF TreesOK
  <1>2. Grown(b, q, b)
    BY TreeFacts DEF Grown
  <1>3. q \in Seq(Names)
    BY <1>q, <1>2, LRealSame
  <1>4. Below(src, s) = src /\ Below(tgt, s) = tgt /\ Below(q, s) = q
    BY <1>s, <1>3, BelowFacts
  <1>5. r.op = "stat" /\ r.from = src /\ r.to = tgt
    BY RequestFacts
  <1>6. Placed(src, tgt, r, s)
    BY <1>4, <1>5 DEF Placed
  <1>7. p = Real(b, Below(src, s)) /\ p \in DOMAIN b /\ b[p].type # "link"
    BY <1>p, <1>4
  <1>8. /\ m.op = "mkdir" \/ m.op = "create"
        /\ m.from = r.from /\ m.to = r.to /\ m.mode = b[p].mode /\ Placed(src, tgt, m, s)
        /\ Trap(b, src, tgt, b, m) \/ Sound(b, src, tgt, m)
        /\ \A v \in Seq(Names) : Under(s, v) /\ Real(b, Below(src, v)) \in DOMAIN b =>
                 Makes(src, tgt, m, v)
    <2>1. StatFacts(b, src, tgt, r, s, p, m)
      BY <1>m, <1>1, <1>5, <1>6, <1>7, StatMakes
    <2> QED
      BY <2>1 DEF StatFacts
  <1>9. m \in CopyRequest(b)
    <2> DEFINE o == IF b[p].type = "dir" THEN "mkdir" ELSE "create"
    <2>1. o \in {"stat", "mkdir", "create", "fill", "list", "chmod"}
      OBVIOUS
    <2>2. m = Request(o, src, tgt, b[p].mode)
      BY <1>m, <1>5 DEF StatNext
    <2>3. b[p].mode \in Modes(b)
      BY <1>7, NodeFacts
    <2> HIDE DEF o
    <2> QED
      BY <2>1, <2>2, <2>3, RequestType
  <1>10. FitAt(b, src, tgt, b, m, s)
    <2>1. m.op # "fill" /\ m.op # "list" /\ m.op # "chmod" /\ Len(s) <= MaxDepth
      BY <1>1, <1>8
    <2> QED
      BY <1>q, <1>s, <1>4, <1>8, <2>1 DEF FitAt
  <1> DEFINE W == {m}
  <1>11. Harmless(b, src, tgt, b, W)
    BY <1>q, <1>1, <1>2, <1>9, <1>10 DEF Harmless, Fit
  <1>12. OnCourse(b, src, tgt, b, W)
    <2>1. CASE Trap(b, src, tgt, b, m)
      BY <2>1 DEF OnCourse, Trapped
    <2>2. CASE Sound(b, src, tgt, m)
      <3>1. \A v \in Seq(Names) : ~Made(b, tgt, b, v)
        BY DEF Made
      <3>2. ASSUME NEW v \in Seq(Names) PROVE Under(s, v)
        <4>1. Pre(v, Len(s)) = s /\ Len(s) <= Len(v)
          BY <1>s, <1>1, PreAll DEF Root
        <4> QED
          BY <1>1, <4>1, UnderFacts
      <3>3. \A v \in Seq(Names) : Real(b, Below(src, v)) \in DOMAIN b =>
               \E x \in W : Makes(src, tgt, x, v)
        BY <1>8, <3>2
      <3>4. \A x \in W : Sound(b, src, tgt, x)
        BY <2>2
      <3> HIDE DEF W
      <3>5. Orderly(b, src, tgt, b, W)
        BY <3>1, <3>3, <3>4 DEF Orderly
      <3> QED
        BY <3>5 DEF OnCourse
    <2> QED
      BY <1>8, <2>1, <2>2
  <1> QED
    BY <1>m, <1>p, <1>9, <1>11, <1>12

-----------------------------------------------------------------------------
(* Copy: the requests are a sequence.                                       *)

\* The elements of a sequence,
Elems(t) == {t[i] : i \in 1 .. Len(t)}

\* of its tail,
LEMMA ElemsHead ==
    ASSUME NEW S, NEW t \in Seq(S), t # <<>>
    PROVE  /\ Elems(t) = {Head(t)} \cup Elems(Tail(t)) /\ Tail(t) \in Seq(S) /\ Head(t) \in S
           /\ Head(t) \in Elems(t)
  <1> DEFINE u == Tail(t)
  <1>1. /\ u \in Seq(S) /\ Len(u) = Len(t) - 1 /\ Len(t) \in Nat \ {0} /\ Head(t) = t[1]
        /\ \A i \in 1 .. Len(u) : u[i] = t[i + 1]
    BY HeadTailProperties
  <1> HIDE DEF u
  <1>2. ASSUME NEW x \in Elems(t) PROVE x = t[1] \/ x \in Elems(u)
    <2>1. PICK i \in 1 .. Len(t) : x = t[i]
      BY <1>2 DEF Elems
    <2>2. CASE i = 1
      BY <2>1, <2>2
    <2>3. CASE i # 1
      <3>1. i - 1 \in 1 .. Len(u) /\ (i - 1) + 1 = i
        BY <1>1, <2>3
      <3>2. u[i - 1] = x
        BY <1>1, <2>1, <3>1
      <3> QED
        BY <3>1, <3>2 DEF Elems
    <2> QED
      BY <2>2, <2>3
  <1>3. t[1] \in Elems(t)
    <2>1. 1 \in 1 .. Len(t)
      BY <1>1
    <2> QED
      BY <2>1 DEF Elems
  <1>4. ASSUME NEW x \in Elems(u) PROVE x \in Elems(t)
    <2>1. PICK i \in 1 .. Len(u) : x = u[i]
      BY <1>4 DEF Elems
    <2>2. i + 1 \in 1 .. Len(t) /\ x = t[i + 1]
      BY <1>1, <2>1
    <2> QED
      BY <2>2 DEF Elems
  <1>5. t[1] \in S
    <2>1. 1 \in 1 .. Len(t)
      BY <1>1
    <2> QED
      BY <2>1, ElementOfSeq
  <1>6. Elems(t) = {t[1]} \cup Elems(u)
    BY <1>2, <1>3, <1>4
  <1> QED
    BY <1>1, <1>3, <1>5, <1>6 DEF u

\* of two sequences, one after the other,
LEMMA ElemsJoin ==
    ASSUME NEW S, NEW s \in Seq(S), NEW t \in Seq(S)
    PROVE  Elems(s \o t) = Elems(s) \cup Elems(t) /\ s \o t \in Seq(S)
  <1> DEFINE u == s \o t
  <1>1. /\ u \in Seq(S) /\ Len(u) = Len(s) + Len(t) /\ Len(s) \in Nat /\ Len(t) \in Nat
        /\ \A i \in 1 .. Len(s) : u[i] = s[i]
        /\ \A i \in 1 .. Len(t) : u[Len(s) + i] = t[i]
    BY JoinFacts
  <1> HIDE DEF u
  <1>2. ASSUME NEW x \in Elems(u) PROVE x \in Elems(s) \cup Elems(t)
    <2>1. PICK i \in 1 .. Len(u) : x = u[i]
      BY <1>2 DEF Elems
    <2>2. CASE i <= Len(s)
      <3>1. i \in 1 .. Len(s) /\ x = s[i]
        BY <1>1, <2>1, <2>2
      <3> QED
        BY <3>1 DEF Elems
    <2>3. CASE ~(i <= Len(s))
      <3>1. i - Len(s) \in 1 .. Len(t) /\ Len(s) + (i - Len(s)) = i
        BY <1>1, <2>3
      <3>2. x = t[i - Len(s)]
        BY <1>1, <2>1, <3>1
      <3> QED
        BY <3>1, <3>2 DEF Elems
    <2> QED
      BY <2>2, <2>3
  <1>3. ASSUME NEW x \in Elems(s) PROVE x \in Elems(u)
    <2>1. PICK i \in 1 .. Len(s) : x = s[i]
      BY <1>3 DEF Elems
    <2>2. i \in 1 .. Len(u) /\ x = u[i]
      BY <1>1, <2>1
    <2> QED
      BY <2>2 DEF Elems
  <1>4. ASSUME NEW x \in Elems(t) PROVE x \in Elems(u)
    <2>1. PICK i \in 1 .. Len(t) : x = t[i]
      BY <1>4 DEF Elems
    <2>2. Len(s) + i \in 1 .. Len(u) /\ x = u[Len(s) + i]
      BY <1>1, <2>1
    <2> QED
      BY <2>2 DEF Elems
  <1>5. Elems(u) = Elems(s) \cup Elems(t)
    BY <1>2, <1>3, <1>4
  <1> QED
    BY <1>1, <1>5 DEF u

\* of none and one,
LEMMA ElemsFew ==
    ASSUME NEW S, NEW x \in S
    PROVE  /\ Elems(<<>>) = {} /\ <<>> \in Seq(S)
           /\ Elems(<< x >>) = {x} /\ << x >> \in Seq(S) /\ << x >> # <<>>
  <1>1. Elems(<<>>) = {}
    BY DEF Elems
  <1>2. Elems(<< x >>) = {x}
    BY DEF Elems
  <1> QED
    BY <1>1, <1>2

\* and of two.
LEMMA ElemsTwo ==
    ASSUME NEW S, NEW x \in S, NEW y \in S
    PROVE  Elems(<< x, y >>) = {x, y} /\ << x, y >> \in Seq(S)
  <1>1. Len(<< x, y >>) = 2 /\ \A i \in 1 .. 2 : i = 1 \/ i = 2
    OBVIOUS
  <1> QED
    BY <1>1 DEF Elems

\* A copy under way, or ended.
Copying(b, src, tgt, g, todo, result) ==
    /\ todo \in Seq(CopyRequest(b))
    /\ Harmless(b, src, tgt, g, Elems(todo))
    /\ result \in {"busy", "ok", "failed"}
    /\ result = "busy" <=> todo # <<>>
    /\ result = "failed" \/ OnCourse(b, src, tgt, g, Elems(todo))

\* A request that was answered.
LEMMA CopyStep ==
    ASSUME NEW b, NEW src, NEW tgt, NEW h, NEW t \in Seq(CopyRequest(b)),
           NEW more \in Seq(CopyRequest(b)),
           Harmless(b, src, tgt, h, Elems(more) \cup Elems(t)),
           OnCourse(b, src, tgt, h, Elems(more) \cup Elems(t))
    PROVE  Copying(b, src, tgt, h, more \o t, IF more \o t = <<>> THEN "ok" ELSE "busy")
  <1> DEFINE S == CopyRequest(b)
             rest == more \o t
  <1>1. more \in Seq(S) /\ t \in Seq(S)
    OBVIOUS
  <1> HIDE DEF S
  <1>2. Elems(rest) = Elems(more) \cup Elems(t) /\ rest \in Seq(S)
    BY <1>1, ElemsJoin
  <1> HIDE DEF rest
  <1>3. Harmless(b, src, tgt, h, Elems(rest)) /\ OnCourse(b, src, tgt, h, Elems(rest))
    BY <1>2
  <1>4. Copying(b, src, tgt, h, rest, IF rest = <<>> THEN "ok" ELSE "busy")
    BY <1>2, <1>3 DEF Copying, S
  <1> QED
    BY <1>4 DEF rest

\* The requests that follow from read_dir, whatever the order of the entries.
LEMMA ListMore ==
    ASSUME NEW C, IsFiniteSet(C), NEW s \in SetToSeqs(C), NEW r
    PROVE  LET S == {Ask(r, n) : n \in C} \cup {AskMode(r)}
               more == [i \in 1 .. Len(s) |-> Ask(r, s[i])] \o << AskMode(r) >>
           IN more \in Seq(S) /\ Elems(more) = S
  <1> DEFINE S == {Ask(r, n) : n \in C} \cup {AskMode(r)}
             asks == [i \in 1 .. Len(s) |-> Ask(r, s[i])]
             last == << AskMode(r) >>
             more == asks \o last
  <1>1. s \in Seq(C) /\ \A n \in C : \E i \in 1 .. Len(s) : s[i] = n
    BY SetToSeqsFacts
  <1>2. Len(s) \in Nat /\ \A i \in 1 .. Len(s) : s[i] \in C
    BY <1>1, ElementOfSeq
  <1>3. \A i \in 1 .. Len(s) : Ask(r, s[i]) \in S
    BY <1>2
  <1>4. asks \in [1 .. Len(s) -> S] /\ \A i \in 1 .. Len(s) : asks[i] = Ask(r, s[i])
    <2> HIDE DEF S
    <2> QED
      BY <1>3
  <1>5. AskMode(r) \in S
    OBVIOUS
  <1>6. \A x : x \in S <=> (x = AskMode(r) \/ \E n \in C : x = Ask(r, n))
    OBVIOUS
  <1> HIDE DEF S, asks
  <1>8. asks \in Seq(S) /\ Len(asks) = Len(s)
    BY <1>2, <1>4
  <1>9. last \in Seq(S) /\ Elems(last) = {AskMode(r)}
    BY <1>5, ElemsFew
  <1> HIDE DEF last
  <1>10. Elems(more) = Elems(asks) \cup Elems(last) /\ more \in Seq(S)
    BY <1>8, <1>9, ElemsJoin
  <1> HIDE DEF more
  <1>11. ASSUME NEW x PROVE x \in Elems(asks) <=> \E n \in C : x = Ask(r, n)
    <2>1. ASSUME x \in Elems(asks) PROVE \E n \in C : x = Ask(r, n)
      <3>1. PICK i \in 1 .. Len(asks) : x = asks[i]
        BY <2>1 DEF Elems
      <3> QED
        BY <1>2, <1>4, <1>8, <3>1
    <2>2. ASSUME NEW n \in C, x = Ask(r, n) PROVE x \in Elems(asks)
      <3>1. PICK i \in 1 .. Len(s) : s[i] = n
        BY <1>1
      <3>2. i \in 1 .. Len(asks) /\ asks[i] = x
        BY <1>4, <1>8, <2>2, <3>1
      <3> QED
        BY <3>2 DEF Elems
    <2> QED
      BY <2>1, <2>2
  <1>12. Elems(more) = S
    <2>1. \A x : x \in Elems(more) <=> x \in S
      BY <1>6, <1>9, <1>10, <1>11
    <2> QED
      BY <2>1
  <1> QED
    BY <1>10, <1>12 DEF S, more, asks, last

-----------------------------------------------------------------------------
(* Copy: the theorem.                                                       *)

\* No name ends in white space.
PlainNames == \A n \in Names : Trim[n] = n

\* remote_path takes a path to a path,
LEMMA RemotePaths == ASSUME TreesOK, NEW p \in Named PROVE RemotePath(p) \in Seq(Names)
  <1>1. CASE p = NoName
    BY <1>1, NamesAssumption, PathsAreSeqs DEF RemotePath, TreesOK
  <1>2. CASE p # NoName
    <2>1. p \in Paths /\ p \in Seq(Names)
      BY <1>2, PathsAreSeqs DEF Named, TreesOK
    <2>2. CASE p = Root
      BY <1>2, <2>1, <2>2 DEF RemotePath, Trimmed
    <2>3. CASE p # Root
      <3>1. Last(p) \in Names /\ Front(p) \in Seq(Names)
        BY <2>1, <2>3, FrontFacts
      <3>2. Trim[Last(p)] \in Names \cup {NoName}
        BY <3>1, NamesAssumption
      <3>3. Trimmed(p) \in Seq(Names)
        <4>1. CASE Trim[Last(p)] = NoName
          BY <2>3, <3>1, <4>1 DEF Trimmed
        <4>2. CASE Trim[Last(p)] # NoName
          <5>1. Trim[Last(p)] \in Names
            BY <3>2, <4>2
          <5>2. Append(Front(p), Trim[Last(p)]) \in Seq(Names)
            BY <3>1, <5>1
          <5> QED
            BY <2>3, <4>2, <5>2 DEF Trimmed
        <4> QED
          BY <4>1, <4>2
      <3> QED
        BY <1>2, <3>3 DEF RemotePath
    <2> QED
      BY <2>2, <2>3
  <1> QED
    BY <1>1, <1>2

\* and leaves a plain one as it is.
LEMMA TrimmedPlain ==
    ASSUME PlainNames, NEW p \in Seq(Names), NEW n \in Names
    PROVE  Trimmed(Append(p, n)) = Append(p, n)
  <1>1. PICK q : q = Append(p, n)
    OBVIOUS
  <1>2. q # Root /\ Last(q) = n /\ Front(q) = p
    BY <1>1, AppendFacts
  <1>3. Trim[n] = n /\ n # NoName
    BY NamesAssumption DEF PlainNames
  <1>4. Trimmed(q) = Append(p, n)
    BY <1>2, <1>3 DEF Trimmed
  <1> QED
    BY <1>1, <1>4

\* A copy that has made no request.
Starting ==
    /\ fs = before /\ call.result = "busy"
    /\ call.todo = << Request("stat", Source, Target, "new") >>

\* The inductive invariant of a copy.
CopyInv ==
    /\ before \in Trees /\ CallShape
    /\ call = Idle => fs = before
    /\ call.op = "copy" =>
          /\ Source \in Seq(Names) /\ Target \in Seq(Names)
          /\ Starting \/ Copying(before, Source, Target, fs, call.todo, call.result)

\* The request a copy has at the head decides which action answers it.
LEMMA AnswerOfCopy ==
    ASSUME Answers
    PROVE  /\ Asked.op = "stat" => Metadata
           /\ Asked.op = "mkdir" => Mkdir
           /\ Asked.op = "create" => Create
           /\ Asked.op = "fill" => Fill
           /\ Asked.op = "list" => List
           /\ Asked.op = "chmod" => Chmod
  BY DEF Answers, Truncate, Store, Mkdir, CreateFile, Chmod, RenameEntry, Resolve, RemoveResolved,
         Unlink, Empty, Rmdir, Metadata, List, Create, Fill, Now, Asked

\* The tree an action leaves, as the lemmas have it.
LEMMA WithIsPut == \A p, x : With(p, x) = Put(fs, p, x)
  BY DEF With, Put

\* What the actions of a copy do.
LEMMA StatDoes ==
    ASSUME Metadata
    PROVE  /\ Real(fs, Asked.from) \in DOMAIN fs /\ fs[Real(fs, Asked.from)].type # "link"
           /\ Does(fs, << StatNext(fs, Asked, Real(fs, Asked.from)) >>)
  BY DEF Metadata, Exists, StatNext

\* create_dir,
LEMMA MkdirDoes ==
    ASSUME Mkdir, call.op = "copy"
    PROVE  /\ CanCreate(fs, LReal(fs, Asked.to))
           /\ Does(Put(fs, LReal(fs, Asked.to), Dir("default")), << [Asked EXCEPT !.op = "list"] >>)
  BY WithIsPut DEF Mkdir

\* open with EXCLUDE,
LEMMA CreateDoes ==
    ASSUME Create
    PROVE  /\ CanCreate(fs, LReal(fs, Asked.to))
           /\ Does(Put(fs, LReal(fs, Asked.to), File("empty", "default")),
                   << [Asked EXCEPT !.op = "fill"], AskMode(Asked) >>)
  BY WithIsPut DEF Create, AskMode

\* write_all,
LEMMA FillDoes ==
    ASSUME Fill
    PROVE  Does(Put(fs, Real(fs, Asked.to),
                    [fs[Real(fs, Asked.to)] EXCEPT !.data = fs[Real(fs, Asked.from)].data]), <<>>)
  BY WithIsPut DEF Fill

\* set_metadata
LEMMA ChmodDoes ==
    ASSUME Chmod
    PROVE  Does(Put(fs, Real(fs, Asked.from),
                    [fs[Real(fs, Asked.from)] EXCEPT !.mode = Asked.mode]), <<>>)
  BY WithIsPut DEF Chmod

\* and read_dir, with a request for each entry.
LEMMA ListDoes ==
    ASSUME PlainNames, TreesOK, List, Asked.from \in Seq(Names), Asked.to \in Seq(Names)
    PROVE  \E s \in SetToSeqs(Children(fs, Real(fs, Asked.from))) :
              Does(fs, [i \in 1 .. Len(s) |-> Ask(Asked, s[i])] \o << AskMode(Asked) >>)
  <1>1. PICK r : r = Asked
    OBVIOUS
  <1>2. PICK C : C = Children(fs, Real(fs, r.from))
    OBVIOUS
  <1>3. PICK s \in SetToSeqs(C) :
           Does(fs, [i \in 1 .. Len(s) |-> Request("stat", Trimmed(Append(r.from, s[i])),
                                                   Trimmed(Append(r.to, s[i])), "any")]
                    \o << AskMode(r) >>)
    BY <1>1, <1>2 DEF List, AskMode
  <1>4. C \subseteq Names /\ IsFiniteSet(C)
    <2>1. C \subseteq Names /\ IsFiniteSet(Names)
      BY <1>2 DEF Children, TreesOK
    <2> QED
      BY <2>1, FS_Subset
  <1>5. ASSUME NEW i \in 1 .. Len(s)
        PROVE  /\ Trimmed(Append(r.from, s[i])) = Append(r.from, s[i])
               /\ Trimmed(Append(r.to, s[i])) = Append(r.to, s[i])
    <2>1. s[i] \in Names
      BY <1>3, <1>4, SetToSeqsFacts
    <2> QED
      BY <1>1, <2>1, TrimmedPlain
  <1>6. [i \in 1 .. Len(s) |-> Request("stat", Trimmed(Append(r.from, s[i])),
                                       Trimmed(Append(r.to, s[i])), "any")]
          = [i \in 1 .. Len(s) |-> Ask(r, s[i])]
    BY <1>5 DEF Ask
  <1> QED
    BY <1>1, <1>2, <1>3, <1>6

\* A request that was answered, with the tree and the requests it leaves.
LEMMA CopyDone ==
    ASSUME CallShape, NEW h, NEW more \in Seq(CopyRequest(before)), Does(h, more),
           Tail(call.todo) \in Seq(CopyRequest(before)),
           Harmless(before, Source, Target, h, Elems(more) \cup Elems(Tail(call.todo))),
           OnCourse(before, Source, Target, h, Elems(more) \cup Elems(Tail(call.todo)))
    PROVE  Copying(before, Source, Target, fs', call'.todo, call'.result)
  <1> DEFINE t == Tail(call.todo)
             rest == more \o t
  <1>1. Copying(before, Source, Target, h, rest, IF rest = <<>> THEN "ok" ELSE "busy")
    <2>1. t \in Seq(CopyRequest(before))
      OBVIOUS
    <2> HIDE DEF t
    <2> QED
      BY <2>1, CopyStep DEF t
  <1>2. fs' = h /\ call'.todo = rest /\ call'.result = IF rest = <<>> THEN "ok" ELSE "busy"
    BY DoesFacts
  <1> HIDE DEF rest
  <1> QED
    BY <1>1, <1>2

\* An answered request of a copy keeps its invariant.
LEMMA CopyAnswer ==
    ASSUME PlainNames, TreesOK, CopyInv, Answers, call.op = "copy"
    PROVE  CopyInv'
  <1>b. PICK b : b = before
    OBVIOUS
  <1>src. PICK src : src = Source
    OBVIOUS
  <1>tgt. PICK tgt : tgt = Target
    OBVIOUS
  <1>t. PICK t : t = Tail(call.todo)
    OBVIOUS
  <1>r. PICK r : r = Asked
    OBVIOUS
  <1>g. PICK g : g = fs
    OBVIOUS
  <1>1. b \in Trees /\ CallShape /\ src \in Seq(Names) /\ tgt \in Seq(Names)
    BY <1>b, <1>src, <1>tgt DEF CopyInv
  <1>2. /\ Busy /\ before' = before /\ CallShape'
        /\ call'.op = call.op /\ Source' = Source /\ Target' = Target
        /\ call'.result # "none"
    BY <1>1, AnswersFacts
  <1>3. call' # Idle
    BY <1>2 DEF Idle
  <1> SUFFICES Copying(before, Source, Target, fs', call'.todo, call'.result)
    <2>1. Source \in Seq(Names) /\ Target \in Seq(Names) /\ before \in Trees
      BY <1>b, <1>src, <1>tgt, <1>1
    <2> QED
      BY <1>2, <1>3, <2>1 DEF CopyInv
  <1> DEFINE S == CopyRequest(b)
  \* The tree and the requests that answer this one are enough.
  <1>4. ASSUME NEW h, NEW more \in Seq(S), Does(h, more), t \in Seq(S),
               Harmless(b, src, tgt, h, Elems(more) \cup Elems(t)),
               OnCourse(b, src, tgt, h, Elems(more) \cup Elems(t))
        PROVE  Copying(before, Source, Target, fs', call'.todo, call'.result)
    <2>1. /\ more \in Seq(CopyRequest(before)) /\ Tail(call.todo) \in Seq(CopyRequest(before))
          /\ Harmless(before, Source, Target, h, Elems(more) \cup Elems(Tail(call.todo)))
          /\ OnCourse(before, Source, Target, h, Elems(more) \cup Elems(Tail(call.todo)))
      BY <1>b, <1>src, <1>tgt, <1>t, <1>4
    <2> QED
      BY <1>1, <1>4, <2>1, CopyDone
  <1>5. CASE Starting
    <2>1. r = Request("stat", src, tgt, "new") /\ t = <<>> /\ g = b
      BY <1>b, <1>src, <1>tgt, <1>t, <1>r, <1>g, <1>5 DEF Starting, Asked
    <2>2. r.op = "stat" /\ r.from = src
      BY <2>1, RequestFacts
    <2>3. Metadata
      BY <1>r, <2>2, AnswerOfCopy
    <2>m. PICK m : m = StatNext(b, r, Real(b, src))
      OBVIOUS
    <2>4. /\ Real(b, src) \in DOMAIN b /\ b[Real(b, src)].type # "link" /\ Does(b, << m >>)
      BY <1>r, <1>g, <2>m, <2>1, <2>2, <2>3, StatDoes
    <2>5. m \in S /\ Harmless(b, src, tgt, b, {m}) /\ OnCourse(b, src, tgt, b, {m})
      BY <1>1, <2>m, <2>1, <2>4, CopyFirst
    <2>6. Elems(<< m >>) = {m} /\ << m >> \in Seq(S) /\ Elems(<<>>) = {} /\ <<>> \in Seq(S)
      BY <2>5, ElemsFew
    <2>7. Elems(<< m >>) \cup Elems(t) = {m} /\ t \in Seq(S)
      BY <2>1, <2>6
    <2> DEFINE more == << m >>
    <2>8. more \in Seq(S) /\ Does(b, more) /\ Elems(more) \cup Elems(t) = {m}
      BY <2>4, <2>6, <2>7
    <2> HIDE DEF more, S
    <2> QED
      BY <1>4, <2>5, <2>7, <2>8
  <1>6. CASE Copying(before, Source, Target, fs, call.todo, call.result)
    <2> DEFINE W == Elems(t)
    <2>1. /\ call.todo \in Seq(S) /\ call.todo # <<>> /\ r = Head(call.todo)
          /\ Harmless(b, src, tgt, g, Elems(call.todo)) /\ OnCourse(b, src, tgt, g, Elems(call.todo))
      BY <1>b, <1>src, <1>tgt, <1>r, <1>g, <1>2, <1>6 DEF Copying, Busy, Asked
    <2>2. Elems(call.todo) = {r} \cup W /\ t \in Seq(S) /\ r \in S
      <3> HIDE DEF S
      <3> QED
        BY <1>t, <2>1, ElemsHead
    <2>3. Harmless(b, src, tgt, g, {r} \cup W) /\ OnCourse(b, src, tgt, g, {r} \cup W)
      BY <2>1, <2>2
    <2>4. \/ r.op = "stat" \/ r.op = "mkdir" \/ r.op = "create"
          \/ r.op = "fill" \/ r.op = "list" \/ r.op = "chmod"
      BY <2>2 DEF CopyRequest
    <2>5. /\ \A o : [r EXCEPT !.op = o] = Request(o, r.from, r.to, r.mode)
      BY <2>3, CopyHead
    <2> HIDE DEF S, W
    <2>6. CASE r.op = "stat"
      <3>1. Metadata
        BY <1>r, <2>6, AnswerOfCopy
      <3>m. PICK m : m = StatNext(g, r, Real(g, r.from))
        OBVIOUS
      <3>2. /\ Real(g, r.from) \in DOMAIN g /\ g[Real(g, r.from)].type # "link" /\ Does(g, << m >>)
        BY <1>r, <1>g, <3>m, <3>1, StatDoes
      <3>3. m \in S /\ Harmless(b, src, tgt, g, {m} \cup W) /\ OnCourse(b, src, tgt, g, {m} \cup W)
        BY <1>1, <2>3, <2>6, <3>m, <3>2, CopyStat DEF S
      <3> DEFINE more == << m >>
      <3>4. Elems(more) = {m} /\ more \in Seq(S) /\ Does(g, more)
        BY <3>2, <3>3, ElemsFew
      <3> HIDE DEF more
      <3> QED
        BY <1>4, <2>2, <3>3, <3>4 DEF W
    <2>7. CASE r.op = "mkdir"
      <3>1. Mkdir
        BY <1>r, <2>7, AnswerOfCopy
      <3>d. PICK d : d = LReal(g, r.to)
        OBVIOUS
      <3>h. PICK h : h = Put(g, d, Dir("default"))
        OBVIOUS
      <3>m. PICK m : m = Request("list", r.from, r.to, r.mode)
        OBVIOUS
      <3>2. CanCreate(g, d) /\ Does(h, << [r EXCEPT !.op = "list"] >>)
        BY <1>r, <1>g, <3>d, <3>h, <3>1, MkdirDoes
      <3>3. Does(h, << m >>)
        BY <2>5, <3>m, <3>2
      <3>4. m \in S /\ Harmless(b, src, tgt, h, {m} \cup W) /\ OnCourse(b, src, tgt, h, {m} \cup W)
        BY <1>1, <2>3, <2>7, <3>d, <3>h, <3>m, <3>2, CopyMkdir DEF S
      <3> DEFINE more == << m >>
      <3>5. Elems(more) = {m} /\ more \in Seq(S) /\ Does(h, more)
        BY <3>3, <3>4, ElemsFew
      <3> HIDE DEF more
      <3> QED
        BY <1>4, <2>2, <3>4, <3>5 DEF W
    <2>8. CASE r.op = "create"
      <3>1. Create
        BY <1>r, <2>8, AnswerOfCopy
      <3>d. PICK d : d = LReal(g, r.to)
        OBVIOUS
      <3>h. PICK h : h = Put(g, d, File("empty", "default"))
        OBVIOUS
      <3>m. PICK m : m = Request("fill", r.from, r.to, r.mode)
        OBVIOUS
      <3>k. PICK k : k = Request("chmod", r.to, Root, r.mode)
        OBVIOUS
      <3>2. CanCreate(g, d) /\ Does(h, << [r EXCEPT !.op = "fill"], k >>)
        BY <1>r, <1>g, <3>d, <3>h, <3>k, <3>1, CreateDoes DEF AskMode
      <3>3. Does(h, << m, k >>)
        BY <2>5, <3>m, <3>2
      <3>4. /\ m \in S /\ k \in S /\ Harmless(b, src, tgt, h, {m, k} \cup W)
            /\ OnCourse(b, src, tgt, h, {m, k} \cup W)
        BY <1>1, <2>3, <2>8, <3>d, <3>h, <3>m, <3>k, <3>2, CopyCreate DEF S
      <3> DEFINE more == << m, k >>
      <3>5. Elems(more) = {m, k} /\ more \in Seq(S) /\ Does(h, more)
        <4>1. m \in S /\ k \in S
          BY <3>4
        <4>2. Elems(<< m, k >>) = {m, k} /\ << m, k >> \in Seq(S)
          BY <4>1, ElemsTwo
        <4> QED
          BY <3>3, <4>2
      <3> HIDE DEF more
      <3> QED
        BY <1>4, <2>2, <3>4, <3>5 DEF W
    <2>e. PICK e : e = <<>>
      OBVIOUS
    <2>9. Elems(e) \cup W = W /\ e \in Seq(S)
      BY <2>e, <2>2, ElemsFew
    <2>10. CASE r.op = "fill"
      <3>1. Fill
        BY <1>r, <2>10, AnswerOfCopy
      <3>d. PICK d : d = Real(g, r.to)
        OBVIOUS
      <3>c. PICK c : c = g[Real(g, r.from)].data
        OBVIOUS
      <3>h. PICK h : h = Put(g, d, Node(g[d].type, c, g[d].mode, Root))
        OBVIOUS
      <3>2. Does(Put(g, d, [g[d] EXCEPT !.data = c]), e)
        BY <1>r, <1>g, <2>e, <3>d, <3>c, <3>1, FillDoes
      <3>3. Plain(g[d])
        <4>1. Plain(g[Real(g, r.to)])
          BY <1>1, <2>3, <2>10, FillAt
        <4> QED
          BY <3>d, <4>1
      <3>4. Does(h, e)
        <4>1. [g[d] EXCEPT !.data = c] = Node(g[d].type, c, g[d].mode, Root)
          BY <3>3, NodeData
        <4> QED
          BY <3>h, <3>2, <4>1
      <3>5. Harmless(b, src, tgt, h, W) /\ OnCourse(b, src, tgt, h, W)
        BY <1>1, <2>3, <2>10, <3>d, <3>c, <3>h, CopyFill
      <3> QED
        BY <1>4, <2>2, <2>9, <3>4, <3>5 DEF W
    <2>11. CASE r.op = "chmod"
      <3>1. Chmod
        BY <1>r, <2>11, AnswerOfCopy
      <3>d. PICK d : d = Real(g, r.from)
        OBVIOUS
      <3>h. PICK h : h = Put(g, d, Node(g[d].type, g[d].data, r.mode, Root))
        OBVIOUS
      <3>2. Does(Put(g, d, [g[d] EXCEPT !.mode = r.mode]), e)
        BY <1>r, <1>g, <2>e, <3>d, <3>1, ChmodDoes
      <3>3. Plain(g[d])
        <4>1. Plain(g[Real(g, r.from)])
          BY <1>1, <2>3, <2>11, ChmodAt
        <4> QED
          BY <3>d, <4>1
      <3>4. Does(h, e)
        <4>1. [g[d] EXCEPT !.mode = r.mode] = Node(g[d].type, g[d].data, r.mode, Root)
          BY <3>3, NodeMode
        <4> QED
          BY <3>h, <3>2, <4>1
      <3>5. Harmless(b, src, tgt, h, W) /\ OnCourse(b, src, tgt, h, W)
        BY <1>1, <2>3, <2>11, <3>d, <3>h, CopyChmod
      <3> QED
        BY <1>4, <2>2, <2>9, <3>4, <3>5 DEF W
    <2>12. CASE r.op = "list"
      <3>1. List
        BY <1>r, <2>12, AnswerOfCopy
      <3>C. PICK C : C = Children(g, Real(g, r.from))
        OBVIOUS
      <3>2. PICK s \in SetToSeqs(C) :
               Does(g, [i \in 1 .. Len(s) |-> Ask(r, s[i])] \o << AskMode(r) >>)
        <4>1. Asked.from \in Seq(Names) /\ Asked.to \in Seq(Names)
          BY <1>r, <2>3, CopyHead
        <4> QED
          BY <1>r, <1>g, <3>C, <3>1, <4>1, ListDoes
      <3>3. IsFiniteSet(C)
        <4>1. C \subseteq Names /\ IsFiniteSet(Names)
          BY <3>C DEF Children, TreesOK
        <4> QED
          BY <4>1, FS_Subset
      <3> DEFINE M == {Ask(r, n) : n \in C} \cup {AskMode(r)}
                 more == [i \in 1 .. Len(s) |-> Ask(r, s[i])] \o << AskMode(r) >>
      <3>4. more \in Seq(M) /\ Elems(more) = M
        BY <3>2, <3>3, ListMore
      <3>5. Does(g, more)
        BY <3>2
      <3>6. /\ AskMode(r) \in M /\ \A n \in C : Ask(r, n) \in M
            /\ \A m \in M : m = AskMode(r) \/ \E n \in C : m = Ask(r, n)
        OBVIOUS
      <3> HIDE DEF M, more
      <3>7. M \subseteq S /\ Harmless(b, src, tgt, g, M \cup W) /\ OnCourse(b, src, tgt, g, M \cup W)
        BY <1>1, <2>3, <2>12, <3>C, <3>6, CopyList DEF S
      <3>8. more \in Seq(S)
        BY <3>4, <3>7
      <3> QED
        BY <1>4, <2>2, <3>4, <3>5, <3>7, <3>8 DEF W
    <2> QED
      BY <2>4, <2>6, <2>7, <2>8, <2>10, <2>11, <2>12
  <1> QED
    BY <1>5, <1>6 DEF CopyInv

\* A copy's invariant holds in the beginning,
LEMMA CopyInvInit == ASSUME TreesOK, TreeInit PROVE CopyInv
  <1>1. call = Idle /\ fs = before /\ before \in Trees
    BY DEF TreeInit
  <1>2. CallShape /\ call.op # "copy"
    BY <1>1 DEF CallShape, Idle
  <1> QED
    BY <1>1, <1>2 DEF CopyInv

\* A copy that was refused or cut off.
LEMMA CopyFailed ==
    ASSUME NEW b, NEW src, NEW tgt, NEW g, Grown(b, LReal(b, tgt), g)
    PROVE  Copying(b, src, tgt, g, <<>>, "failed")
  <1>1. <<>> \in Seq(CopyRequest(b)) /\ Elems(<<>>) = {}
    BY DEF Elems
  <1>2. Harmless(b, src, tgt, g, {})
    BY DEF Harmless
  <1> QED
    BY <1>1, <1>2 DEF Copying

\* in every step,
LEMMA CopyInvNext == ASSUME PlainNames, TreesOK, CopyInv, [TreeNext]_treeVars PROVE CopyInv'
  <1>1. before \in Trees /\ CallShape
    BY DEF CopyInv
  <1>2. CASE UNCHANGED treeVars
    <2>1. fs' = fs /\ call' = call /\ before' = before
      BY <1>2 DEF treeVars
    <2>2. Source' = Source /\ Target' = Target
      BY <2>1, SamePaths
    <2> QED
      BY <2>1, <2>2 DEF CopyInv, CallShape, Starting
  <1>3. ASSUME NEW o \in DOMAIN First, NEW from \in Named, NEW to \in Named, Begin(o, from, to)
        PROVE  CopyInv'
    <2> DEFINE q == << Request(First[o], RemotePath(from), RemotePath(to), "new") >>
    <2>1. /\ call = Idle /\ fs' = fs /\ before' = before
          /\ call' = [op |-> o, from |-> from, to |-> to, result |-> "busy", todo |-> q]
      BY <1>3 DEF Begin
    <2> HIDE DEF q
    <2>2. /\ call'.op = o /\ call'.from = from /\ call'.to = to /\ call'.result = "busy"
          /\ call'.todo = q /\ CallShape'
      BY <2>1 DEF CallShape
    <2>3. call' # Idle
      BY <2>2 DEF Idle
    <2>6. Source' = RemotePath(from) /\ Target' = RemotePath(to)
      BY <2>2 DEF Source, Target
    <2>4. ASSUME o = "copy" PROVE Starting'
      <3>1. First[o] = "stat"
        BY <2>4 DEF First
      <3> QED
        BY <1>1, <2>1, <2>2, <2>6, <3>1 DEF Starting, CopyInv, q
    <2>5. RemotePath(from) \in Seq(Names) /\ RemotePath(to) \in Seq(Names)
      BY RemotePaths
    <2> QED
      BY <1>1, <2>1, <2>2, <2>3, <2>4, <2>5, <2>6 DEF CopyInv
  <1>4. CASE Answers
    <2>1. CASE call.op = "copy"
      BY <1>4, <2>1, CopyAnswer
    <2>2. CASE call.op # "copy"
      <3>1. /\ before' = before /\ CallShape' /\ call'.op = call.op /\ call'.result # "none"
        BY <1>1, <1>4, AnswersFacts
      <3>2. call' # Idle
        BY <3>1 DEF Idle
      <3> QED
        BY <1>1, <2>2, <3>1, <3>2 DEF CopyInv
    <2> QED
      BY <2>1, <2>2
  <1>5. CASE Fails
    <2>1. /\ call' = [op |-> call.op, from |-> call.from, to |-> call.to,
                      result |-> "failed", todo |-> <<>>]
          /\ fs' = fs /\ before' = before
      BY <1>1, <1>5 DEF Fails, CallShape
    <2>2. /\ call'.op = call.op /\ call'.from = call.from /\ call'.to = call.to
          /\ call'.result = "failed" /\ call'.todo = <<>> /\ CallShape'
      BY <2>1 DEF CallShape
    <2>3. call' # Idle
      BY <2>2 DEF Idle
    <2>4. ASSUME call.op = "copy"
          PROVE  Copying(before, Source, Target, fs, <<>>, "failed")
      <3>1. Grown(before, LReal(before, Target), fs)
        <4>1. CASE Starting
          <5>1. fs = before
            BY <4>1 DEF Starting
          <5> QED
            BY <1>1, <5>1, TreeFacts DEF Grown
        <4>2. CASE Copying(before, Source, Target, fs, call.todo, call.result)
          BY <4>2 DEF Copying, Harmless
        <4> QED
          BY <2>4, <4>1, <4>2 DEF CopyInv
      <3> QED
        BY <3>1, CopyFailed
    <2>5. Source' = Source /\ Target' = Target
      BY <2>2, SamePaths
    <2> QED
      BY <1>1, <2>1, <2>2, <2>3, <2>4, <2>5 DEF CopyInv
  <1> QED
    BY <1>2, <1>3, <1>4, <1>5 DEF TreeNext

\* A copy with nothing left to be made is exact.
LEMMA CopyEnds ==
    ASSUME TreesOK, NEW b \in Trees, NEW src \in Seq(Names), NEW tgt \in Seq(Names), NEW g,
           Grown(b, LReal(b, tgt), g), Orderly(b, src, tgt, g, {}), NEW s \in Seq(Names),
           NEW p, p = Real(b, Below(src, s)), NEW d, d = Below(LReal(b, tgt), s)
    PROVE  (p \in DOMAIN b <=> d \in DOMAIN g) /\ (d \in DOMAIN g => g[d] = b[p])
  <1>q. PICK q : q = LReal(b, tgt)
    OBVIOUS
  <1>e. PICK e : e = <<>>
    OBVIOUS
  <1>0. Grown(b, q, g)
    BY <1>q
  <1>1. /\ q \in Seq(Names) /\ d \in Seq(Names) /\ Under(q, d)
    BY <1>q, <1>0, CopyAt
  <1>2. /\ DOMAIN b \subseteq Seq(Names) /\ Tidy(b)
    BY <1>0, GrownFacts
  <1>3. /\ \A v \in Seq(Names) : Made(b, tgt, g, v) => Alike(b, src, tgt, g, {}, v)
        /\ \A v \in Seq(Names) : Real(b, Below(src, v)) \in DOMAIN b => Made(b, tgt, g, v)
        /\ Real(b, src) \in DOMAIN b
    BY DEF Orderly
  <1>4. q \notin DOMAIN b
    <2>1. e \in Seq(Names) /\ Below(src, e) = src /\ Below(q, e) = q
      BY <1>e, <1>1, BelowFacts
    <2>2. Made(b, tgt, g, e)
      BY <1>3, <2>1
    <2> QED
      BY <1>q, <2>1, <2>2 DEF Made
  <1>5. d \notin DOMAIN b
    BY <1>1, <1>2, <1>4, UnderIn
  <1>6. Made(b, tgt, g, s) <=> d \in DOMAIN g
    BY <1>q, <1>5 DEF Made
  <1>7. ASSUME d \in DOMAIN g PROVE p \in DOMAIN b /\ g[d] = b[p]
    <2>1. Alike(b, src, tgt, g, {}, s)
      BY <1>3, <1>6, <1>7
    <2>2. \A ops : ~Pending(src, tgt, {}, ops, s)
      BY DEF Pending
    <2>3. /\ p \in DOMAIN b /\ g[d].type = b[p].type /\ b[p].type # "link"
          /\ g[d].data = b[p].data /\ g[d].mode = b[p].mode
      BY <2>1, <2>2 DEF Alike
    <2>4. g[d] = Node(g[d].type, g[d].data, g[d].mode, Root)
      BY <1>0, <1>5, <1>7 DEF Grown
    <2>5. b[p] = Node(b[p].type, b[p].data, b[p].mode, Root)
      BY <2>3, NodeFacts
    <2> QED
      BY <2>3, <2>4, <2>5
  <1> QED
    BY <1>3, <1>6, <1>7

\* and says what is to be proved.
LEMMA CopyInvExact == ASSUME TreesOK, CopyInv PROVE CopyExact
  <1> SUFFICES ASSUME call.op = "copy"
               PROVE  /\ \A p \in DOMAIN before : Exists(fs, p) /\ fs[p] = before[p]
                      /\ call.result = "ok" /\ ~LeadsIntoCopy =>
                            \A s \in Paths :
                                LET p == Real(before, Source \o s)
                                    q == LReal(fs, Target) \o s
                                IN /\ Exists(before, p) <=> Exists(fs, q)
                                   /\ Exists(fs, q) => fs[q] = before[p]
    BY DEF CopyExact
  <1>1. before \in Trees /\ Source \in Seq(Names) /\ Target \in Seq(Names)
    BY DEF CopyInv
  <1>2. CASE Starting
    BY <1>2 DEF Starting, Exists
  <1>3. CASE Copying(before, Source, Target, fs, call.todo, call.result)
    <2>1. Grown(before, LReal(before, Target), fs)
      BY <1>3 DEF Copying, Harmless
    <2>2. ASSUME call.result = "ok", ~LeadsIntoCopy, NEW s \in Paths
          PROVE  LET p == Real(before, Source \o s)
                     q == LReal(fs, Target) \o s
                 IN /\ Exists(before, p) <=> Exists(fs, q)
                    /\ Exists(fs, q) => fs[q] = before[p]
      <3>1. s \in Seq(Names)
        BY PathsAreSeqs DEF TreesOK
      <3>2. call.todo = <<>> /\ OnCourse(before, Source, Target, fs, Elems(call.todo))
        BY <1>3, <2>2 DEF Copying
      <3>3. Elems(call.todo) = {}
        BY <3>2 DEF Elems
      <3>4. ~Leads(before, Source, Target)
        BY <2>2 DEF Leads, LeadsIntoCopy, Below
      <3>5. ~Trapped(before, Source, Target, fs, {})
        BY DEF Trapped
      <3>6. Orderly(before, Source, Target, fs, {})
        BY <3>2, <3>3, <3>4, <3>5 DEF OnCourse
      <3>p. PICK p : p = Real(before, Below(Source, s))
        OBVIOUS
      <3>d. PICK d : d = Below(LReal(before, Target), s)
        OBVIOUS
      <3>7. (p \in DOMAIN before <=> d \in DOMAIN fs) /\ (d \in DOMAIN fs => fs[d] = before[p])
        BY <1>1, <2>1, <3>1, <3>6, <3>p, <3>d, CopyEnds
      <3>8. LReal(fs, Target) = LReal(before, Target)
        BY <1>1, <2>1, LRealSame
      <3>9. Real(before, Source \o s) = p /\ LReal(fs, Target) \o s = d
        BY <3>p, <3>d, <3>8 DEF Below
      <3> QED
        BY <3>7, <3>9 DEF Exists
    <2>3. \A p \in DOMAIN before : Exists(fs, p) /\ fs[p] = before[p]
      BY <2>1 DEF Grown, Exists
    <2> QED
      BY <2>2, <2>3
  <1> QED
    BY <1>2, <1>3 DEF CopyInv

\* A copy changes nothing that was there, even one that is cut short, that
\* meets a name already taken, or whose target lies inside its source; one
\* that reports success holds, below its target, exactly what could be read
\* below the source, links replaced by what they lead to (unless a link
\* LeadsIntoCopy): copy and its helpers in sftp_client.rs, for every tree in
\* which no name ends in white space.  (remote_path trims what copy is given,
\* and every entry's path again, so that of a name that does, another entry is
\* copied or none.)
THEOREM CopiesExactly == ASSUME PlainNames PROVE TreeSpec => []CopyExact
  <1>1. TreeInit => CopyInv
    BY TreesAssumption, CopyInvInit
  <1>2. CopyInv /\ [TreeNext]_treeVars => CopyInv'
    BY TreesAssumption, CopyInvNext
  <1>3. CopyInv => CopyExact
    BY TreesAssumption, CopyInvExact
  <1> QED
    BY <1>1, <1>2, <1>3, PTL DEF TreeSpec

=============================================================================
