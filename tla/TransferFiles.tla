--------------------------- MODULE TransferFiles ---------------------------
(***************************************************************************)
(* What transfers do to files: TransferQueue with the two file systems its *)
(* threads read and write (download_via, upload_via, remove_partial and    *)
(* remove_remote_partial of src/src/core/queue.rs).                        *)
(*                                                                         *)
(* A path leads to an inode and an open file is an inode, so that a file   *)
(* removed or created anew under an open transfer behaves as it does on a  *)
(* POSIX system.  The server is taken to keep its files the same way and   *)
(* to close a transfer with 226 only at the end of the file.  Contents are *)
(* sequences of chunks that remember which file they were read from and    *)
(* which task wrote them.                                                  *)
(***************************************************************************)
EXTENDS TransferQueue

CONSTANTS
    Local, Remote,  \* paths on either side
    LoginDir,       \* for a remote path, the same file name in the login directory
    Wanted,         \* bound: the requests that are made
    Missing,        \* bound: the paths that may be empty at the start
    Size,           \* bound: chunks of every file there is at the start
    User            \* who wrote the files there are at the start

ASSUME PathAssumption == Local \cap Remote = {} /\ LoginDir \in [Remote -> Remote]
ASSUME SizeAssumption == Size \in Nat \ {0}
ASSUME RequestAssumption ==
    /\ Wanted \subseteq [direction : {"Download", "Upload"}, local : Local, remote : Remote]
    /\ Missing \subseteq Local \cup Remote

VARIABLES
    request,        \* the TransferRequest of each task, fixed when it is made
    dir,            \* which inode a path leads to
    data,           \* the chunks of each inode
    reading,        \* the inode a transfer has open to read
    writing,        \* the inode a transfer has open to write
    position,       \* how many chunks a transfer has moved
    astray,         \* transfers whose session could not enter its directory
    removed,        \* transfers whose cleanup was not refused
    disturbed       \* transfers that shared a path with another while open

fileVars == <<request, dir, data, reading, writing, position, astray, removed, disturbed>>
filesVars == <<vars, fileVars>>

Path == Local \cup Remote
\* The file that is at a path at the start, and the one a task creates.
Inode == Path \cup Task
NoFile == "no file"

Chunk == [of : Path \cup {NoFile}, by : Task \cup {User, NoFile}]
\* What lies between the end of a file and a write beyond it.
Hole == [of |-> NoFile, by |-> NoFile]

\* Files, tasks and the owner of the files there are at the start are told apart.
ASSUME NameAssumption ==
    Path \cap Task = {} /\ NoFile \notin Inode /\ User \notin Task

Download(t) == request[t].direction = "Download"
Source(t) == IF Download(t) THEN request[t].remote ELSE request[t].local
Target(t) == IF Download(t) THEN request[t].local ELSE request[t].remote

\* DELE names the file alone: it is looked up where the session is.
CleanupPath(t) == IF t \in astray THEN LoginDir[request[t].remote] ELSE Target(t)

Original(p) == [k \in 1..Size |-> [of |-> p, by |-> User]]

FilesInit ==
    /\ Init
    /\ request \in [Task -> Wanted]
    /\ \E missing \in SUBSET Missing :
         dir = [p \in Path |-> IF p \in missing THEN NoFile ELSE p]
    /\ data = [i \in Inode |-> IF i \in Path THEN Original(i) ELSE <<>>]
    /\ reading = [t \in Task |-> NoFile]
    /\ writing = [t \in Task |-> NoFile]
    /\ position = [t \in Task |-> 0]
    /\ astray = {}
    /\ removed = {}
    /\ disturbed = {}

-----------------------------------------------------------------------------
(* Opening.                                                                *)

\* File::create and STOR: a file that is there is emptied, else one is made.
Create(t) ==
    LET inode == IF dir[Target(t)] = NoFile THEN t ELSE dir[Target(t)]
    IN  /\ dir' = [dir EXCEPT ![Target(t)] = inode]
        /\ data' = [data EXCEPT ![inode] = <<>>]
        /\ writing' = [writing EXCEPT ![t] = inode]

\* The paths a transfer may change, and those it depends on.
Changes(t) == {Target(t)} \cup (IF Download(t) THEN {} ELSE {LoginDir[request[t].remote]})
Uses(t) == {Source(t)} \cup Changes(t)

Conflict(t, u) == Changes(t) \cap Uses(u) # {} \/ Changes(u) \cap Uses(t) # {}

\* Transfers between opening their files and having cleaned up.
Open == {t \in Task : worker[t] \in {"polling", "moving", "refreshing", "failed", "cleaning"}}

Meet(t) ==
    LET others == {u \in Open \ {t} : Conflict(t, u)}
    IN  disturbed' = disturbed \cup others \cup (IF others = {} THEN {} ELSE {t})

\* CWD is refused: nothing was opened, and the session is where it logged in.
RefuseDirectory(t) ==
    /\ astray' = IF Download(t) THEN astray ELSE astray \cup {t}
    /\ UNCHANGED <<dir, data, reading, writing>>

\* A download creates the local file and then asks for the remote one.
RefuseAfterCreate(t) ==
    /\ Download(t)
    /\ Create(t)
    /\ UNCHANGED <<reading, astray>>

\* An upload opens the local file first; STOR may be refused before or, when
\* the data connection fails, after the server created the file.
RefuseUpload(t) ==
    /\ ~Download(t)
    /\ \/ UNCHANGED <<dir, data, writing>>
       \/ dir[Source(t)] # NoFile /\ Create(t)
    /\ UNCHANGED <<reading, astray>>

\* Mutant of Accept: a file that cannot be opened for reading is not noticed.
AcceptBlind(t) ==
    /\ reading' = [reading EXCEPT ![t] = dir[Source(t)]]
    /\ Create(t)
    /\ UNCHANGED astray

Accept(t) ==
    /\ dir[Source(t)] # NoFile
    /\ reading' = [reading EXCEPT ![t] = dir[Source(t)]]
    /\ Create(t)
    /\ UNCHANGED astray

OpenFiles(t) ==
    /\ OpenTransfer(t)
    /\ IF worker'[t] = "polling"
       THEN Accept(t)
       ELSE RefuseDirectory(t) \/ RefuseAfterCreate(t) \/ RefuseUpload(t)
    /\ Meet(t)
    /\ UNCHANGED <<request, position, removed>>

-----------------------------------------------------------------------------
(* Moving chunks.                                                          *)

\* Both files are at the same position; if another task has emptied the one
\* that is written, the write leaves a hole.
WriteAt(seq, k, chunk) ==
    [j \in 1..(IF k > Len(seq) THEN k ELSE Len(seq)) |->
        IF j = k THEN chunk ELSE IF j <= Len(seq) THEN seq[j] ELSE Hole]

AtEnd(t) == position[t] >= Len(data[reading[t]])

CopyChunk(t) ==
    /\ MoveChunk(t)
    /\ ~AtEnd(t)
    /\ LET k == position[t] + 1
           chunk == [data[reading[t]][k] EXCEPT !.by = t]
       IN  data' = [data EXCEPT ![writing[t]] = WriteAt(@, k, chunk)]
    /\ position' = [position EXCEPT ![t] = @ + 1]
    /\ UNCHANGED <<request, dir, reading, writing, astray, removed, disturbed>>

\* Mutant of EndCopy: any pause of the stream counts as its end.
EndCopyEarly(t) ==
    /\ EndMove(t)
    /\ UNCHANGED fileVars

\* A transfer succeeds only at the end of the file it reads.
EndCopy(t) ==
    /\ EndMove(t)
    /\ worker'[t] = "refreshing" => AtEnd(t)
    /\ UNCHANGED fileVars

-----------------------------------------------------------------------------
(* Cleaning up.                                                            *)

\* Mutant of RemovePartial: only a cancelled transfer removes its file.
RemovePartialIfCancelled(t) ==
    IF outcome[t] = "Canceled"
    THEN /\ dir' = [dir EXCEPT ![CleanupPath(t)] = NoFile]
         /\ removed' = removed \cup {t}
    ELSE removed' = removed \cup {t} /\ UNCHANGED dir

\* remove_partial and remove_remote_partial: by path, whatever is there.
RemovePartial(t) ==
    /\ dir' = [dir EXCEPT ![CleanupPath(t)] = NoFile]
    /\ removed' = removed \cup {t}

\* Nobody looks at the result: DELE is tried on the session that may just have
\* broken down, and a local file may be one that cannot be removed.
CleanFiles(t) ==
    /\ Cleanup(t)
    /\ \/ RemovePartial(t)
       \/ UNCHANGED <<dir, removed>>
    /\ UNCHANGED <<request, data, reading, writing, position, astray, disturbed>>

-----------------------------------------------------------------------------

Aside(A) == A /\ UNCHANGED fileVars

FilesNext ==
    \/ Aside(Client)
    \/ Aside(Scheduler)
    \/ \E t \in Task :
         \/ OpenFiles(t) \/ CopyChunk(t) \/ EndCopy(t) \/ CleanFiles(t)
         \/ Aside(Announce(t) \/ CheckCancel(t) \/ Connect(t) \/ Poll(t)
                    \/ Refresh(t) \/ Conclude(t) \/ Report(t) \/ SignalDone(t))

FilesSpec == FilesInit /\ [][FilesNext]_filesVars

-----------------------------------------------------------------------------

\* Types, and that a transfer under way has both its files open.
FilesTypeOK ==
    /\ request \in [Task -> Wanted]
    /\ dir \in [Path -> Inode \cup {NoFile}]
    /\ data \in [Inode -> Seq(Chunk)]
    /\ reading \in [Task -> Inode \cup {NoFile}]
    /\ writing \in [Task -> Inode \cup {NoFile}]
    /\ position \in [Task -> 0..Size]
    /\ astray \cup removed \cup disturbed \subseteq Task
    /\ \A t \in Task : worker[t] \in {"polling", "moving"} =>
          reading[t] # NoFile /\ writing[t] # NoFile

\* A transfer that failed or was cancelled, and whose removal was not refused
\* by the disk or the server, leaves nothing of what it wrote at its target,
\* whoever else writes, empties or removes the same path at the same time.
NoResidue == \A t \in Task :
    /\ worker[t] \in {"reporting", "signalling", "gone"}
    /\ outcome[t] \in {"Failed", "Canceled"}
    /\ t \in removed
    /\ dir[Target(t)] # NoFile
    => \A k \in 1..Len(data[dir[Target(t)]]) : data[dir[Target(t)]][k].by # t

\* When a transfer succeeds and its directory is listed again, the target is
\* there and a whole copy of the source as it is, unless another transfer
\* that was open at the same time could change either of them.
CompletedIsWhole == \A t \in Task \ disturbed : worker[t] = "refreshing" =>
    /\ dir[Target(t)] = writing[t]
    /\ dir[Source(t)] = reading[t]
    /\ LET copy == data[writing[t]]
           source == data[reading[t]]
       IN  /\ Len(copy) = Len(source)
           /\ \A k \in 1..Len(copy) : copy[k].of = source[k].of /\ copy[k].by = t

\* "Failure and cancellation clean up what is left over: locally the
\* half-finished product is deleted, remotely the unfinished file"
\* (DEVELOPMENT.md:229): then cleanup removes only a file the transfer wrote.
OnlyOwnFileRemoved ==
    [][\A t \in Task : worker[t] = "cleaning" /\ worker'[t] # "cleaning" =>
          \A p \in Path : dir[p] # NoFile /\ dir'[p] = NoFile
             => dir[p] = writing[t]]_filesVars
=============================================================================
