------------------------ MODULE TransferFilesProofs ------------------------
(***************************************************************************)
(* What transfers do to files, for every set of tasks and paths, every     *)
(* combination of requests and every length of the files.                  *)
(*                                                                         *)
(* An inode never moves: it is only ever found at the path where it was    *)
(* made (Home).  So two transfers meet in a file only if their paths meet, *)
(* and a file that a cleanup took away does not come back.                 *)
(***************************************************************************)
EXTENDS TransferFiles, TransferQueueProofs

\* The thread has not come to its files yet.
Early == {"none", "started", "checking", "connecting", "opening"}
\* It has both files open, or has just come to the end of them.
Copying == {"polling", "moving", "refreshing"}
\* It is done with its files.
Over == {"reporting", "signalling", "gone"}

\* The path at which an inode was made, and the only one that may lead to it.
Home(i) == IF i \in Task THEN Target(i) ELSE i

Homes ==
    /\ \A p \in Path : dir[p] # NoFile => Home(dir[p]) = p
    /\ \A t \in Task : /\ writing[t] # NoFile => Home(writing[t]) = Target(t)
                       /\ reading[t] # NoFile => Home(reading[t]) = Source(t)

\* A thread that has not come to its files has made none.
Unopened == \A t \in Task : worker[t] \in Early =>
    /\ writing[t] = NoFile /\ position[t] = 0 /\ t \notin astray
    /\ \A p \in Path : dir[p] # t
    /\ \A u \in Task : writing[u] # t

Short == \A i \in Inode : Len(data[i]) <= Size

\* What a transfer wrote is in the one inode that it opened to write.
Written == \A t \in Task, i \in Inode :
    i # writing[t] => \A k \in 1..Len(data[i]) : data[i][k].by # t

\* Who could not enter its directory opened nothing, and cleaning up comes last.
Astray == \A t \in Task :
    /\ t \in astray => ~Download(t) /\ writing[t] = NoFile
    /\ t \in removed => worker[t] \in Over

\* A failed transfer has taken its file away, if the disk or the server let it.
Cleared == \A t \in Task :
    /\ worker[t] \in Over
    /\ outcome[t] \in {"Failed", "Canceled"}
    /\ t \in removed
    => writing[t] = NoFile \/ dir[Target(t)] # writing[t]

\* Whoever shares a path with another while open is disturbed.
Meetings == \A t, u \in Open : t # u /\ Conflict(t, u) => t \in disturbed

\* As far as it has come, an undisturbed transfer has copied its source.
CopiedSoFar(t) ==
    /\ dir[Target(t)] = writing[t]
    /\ dir[Source(t)] = reading[t]
    /\ position[t] <= Len(data[reading[t]])
    /\ Len(data[writing[t]]) = position[t]
    /\ \A k \in 1..position[t] :
         data[writing[t]][k].of = data[reading[t]][k].of /\ data[writing[t]][k].by = t

Faithful == \A t \in Task \ disturbed : worker[t] \in Copying =>
    /\ reading[t] # NoFile /\ writing[t] # NoFile
    /\ CopiedSoFar(t)
    /\ worker[t] = "refreshing" => AtEnd(t)

FilesInv == /\ Inv
            /\ FilesTypeOK
            /\ Homes
            /\ Unopened
            /\ Short
            /\ Written
            /\ Astray
            /\ Cleared
            /\ Meetings
            /\ Faithful

-----------------------------------------------------------------------------
(* Paths and inodes.                                                       *)

\* What a transfer reads, writes and removes.
LEMMA Endpoints ==
    ASSUME request \in [Task -> Wanted], NEW t \in Task
    PROVE  /\ Target(t) \in Path /\ Source(t) \in Path /\ Source(t) # Target(t)
           /\ Changes(t) \subseteq Uses(t)
           /\ Target(t) \in Changes(t) /\ Source(t) \in Uses(t)
           /\ CleanupPath(t) \in Path
           /\ (t \in astray => ~Download(t)) => CleanupPath(t) \in Changes(t)
           /\ t \notin astray => CleanupPath(t) = Target(t)
  <1>1. request[t].local \in Local /\ request[t].remote \in Remote
    BY RequestAssumption
  <1>2. LoginDir[request[t].remote] \in Remote
    BY <1>1, PathAssumption
  <1> QED  BY <1>1, <1>2, PathAssumption DEF Target, Source, Path, Uses, Changes, CleanupPath

\* Two transfers that use a common path and of which one may change it are in
\* conflict, whichever is named first.
LEMMA Conflicts ==
    ASSUME NEW t, NEW u
    PROVE  /\ Conflict(t, u) <=> Conflict(u, t)
           /\ ~Conflict(t, u) => \A p \in Changes(t) : p \notin Uses(u)
  BY DEF Conflict

\* An inode has a home, and is no other's.
LEMMA AtHome ==
    ASSUME Homes, request \in [Task -> Wanted], NEW t \in Task, NEW u \in Task,
           ~Conflict(t, u), writing[t] # NoFile
    PROVE  writing[t] # writing[u] /\ writing[t] # reading[u]
  <1>1. Target(t) \notin Uses(u)
    BY Endpoints, Conflicts
  <1>2. Target(u) \in Uses(u) /\ Source(u) \in Uses(u)
    BY Endpoints
  <1> QED  BY <1>1, <1>2 DEF Homes

\* The ones before it stay, and whatever is new besides is a hole.
Overwritten(new, seq, k, chunk) ==
    /\ Len(new) = IF k > Len(seq) THEN k ELSE Len(seq)
    /\ new[k] = chunk
    /\ \A j \in 1..Len(new) : \/ j = k
                              \/ j \in 1..Len(seq) /\ new[j] = seq[j]
                              \/ new[j] = Hole
    /\ \A j \in 1..Len(seq) : j # k => new[j] = seq[j]

\* That is what writing a chunk does.
LEMMA ChunkWritten ==
    ASSUME NEW seq \in Seq(Chunk), NEW k \in Nat \ {0}, NEW chunk \in Chunk
    PROVE  \E new \in Seq(Chunk) :
             /\ new = WriteAt(seq, k, chunk)
             /\ Overwritten(new, seq, k, chunk)
  <1>1. Hole \in Chunk
    BY DEF Hole, Chunk
  <1>2. PICK n \in Nat : n = IF k > Len(seq) THEN k ELSE Len(seq)
    OBVIOUS
  <1>3. PICK new : /\ new = WriteAt(seq, k, chunk)
                   /\ new = [j \in 1..n |-> IF j = k THEN chunk
                                            ELSE IF j <= Len(seq) THEN seq[j] ELSE Hole]
    BY <1>2 DEF WriteAt
  <1>4. new \in [1..n -> Chunk]
    <2>1. \A j \in 1..n : j <= Len(seq) => seq[j] \in Chunk
      OBVIOUS
    <2> QED  BY <1>1, <1>3, <2>1
  <1>5. new \in Seq(Chunk) /\ Len(new) = n
    BY <1>4
  <1>6. k \in 1..n /\ \A j \in 1..Len(seq) : j \in 1..n
    BY <1>2
  <1>7. Overwritten(new, seq, k, chunk)
    BY <1>2, <1>3, <1>5, <1>6 DEF Overwritten
  <1> QED  BY <1>3, <1>5, <1>7

-----------------------------------------------------------------------------
(* The steps.                                                              *)

\* To the queue, a step above it is one of its own.
LEMMA QueueOfFiles == [FilesNext]_filesVars => [Next]_vars
  <1> SUFFICES ASSUME [FilesNext]_filesVars
               PROVE  [Next]_vars
    OBVIOUS
  <1>1. CASE Aside(Client) \/ Aside(Scheduler)
    BY <1>1 DEF Aside, Next
  <1>2. ASSUME NEW t \in Task,
               \/ OpenFiles(t) \/ CopyChunk(t) \/ EndCopy(t) \/ CleanFiles(t)
               \/ Aside(Announce(t) \/ CheckCancel(t) \/ Connect(t) \/ Poll(t)
                          \/ Refresh(t) \/ Conclude(t) \/ Report(t) \/ SignalDone(t))
        PROVE  Acting(t) \/ Dialling(t) \/ Moving(t)
    BY <1>2 DEF OpenFiles, CopyChunk, EndCopy, CleanFiles, Aside, Acting, Dialling, Moving
  <1>3. CASE UNCHANGED filesVars
    BY <1>3 DEF filesVars
  <1> QED  BY <1>1, <1>2, <1>3 DEF FilesNext, Next

\* A thread goes on without touching a file.
Onward(t) ==
    \/ worker'[t] = worker[t] /\ outcome'[t] = outcome[t]
    \/ worker[t] \in Early /\ worker'[t] \in Early \cup {"reporting"}
    \/ worker[t] = "polling" /\ worker'[t] \in {"moving", "failed"}
    \/ worker[t] = "moving" /\ worker'[t] = "failed"
    \/ worker[t] = "moving" /\ worker'[t] = "refreshing" /\ AtEnd(t)
    \/ worker[t] = "refreshing" /\ worker'[t] = "reporting" /\ outcome'[t] = "Completed"
    \/ worker[t] = "failed" /\ worker'[t] = "cleaning"
    \/ /\ worker[t] \in {"reporting", "signalling"} /\ worker'[t] \in {"signalling", "gone"}
       /\ outcome'[t] = outcome[t]

\* The files are left as they are.
LEMMA FilesLeft ==
    ASSUME FilesInv, Inv', UNCHANGED fileVars, \A t \in Task : Onward(t)
    PROVE  FilesInv'
  <1>1. /\ request' = request /\ dir' = dir /\ data' = data /\ reading' = reading
        /\ writing' = writing /\ position' = position /\ astray' = astray
        /\ removed' = removed /\ disturbed' = disturbed
    BY DEF fileVars
  <1>2. FilesTypeOK /\ Homes /\ Unopened /\ Short /\ Written /\ Astray /\ Cleared /\ Meetings /\ Faithful
    BY DEF FilesInv
  <1>3. \A t \in Task : worker'[t] \in {"polling", "moving"} => worker[t] \in {"polling", "moving"}
    BY DEF Onward, Early
  <1>4. FilesTypeOK'
    BY <1>1, <1>2, <1>3 DEF FilesTypeOK
  <1>5. Homes' /\ Short' /\ Written'
    BY <1>1, <1>2 DEF Homes, Home, Target, Source, Download, Short, Written
  <1>6. Unopened'
    <2>1. \A t \in Task : worker'[t] \in Early => worker[t] \in Early
      BY DEF Onward, Early
    <2> QED  BY <1>1, <1>2, <2>1 DEF Unopened
  <1>7. Astray'
    <2>1. \A t \in Task : worker[t] \in Over => worker'[t] \in Over
      BY DEF Onward, Over, Early
    <2> QED  BY <1>1, <1>2, <2>1 DEF Astray, Download
  <1>8. Cleared'
    <2>1. \A t \in Task : worker'[t] \in Over /\ outcome'[t] \in {"Failed", "Canceled"} =>
            \/ worker[t] \in Early
            \/ worker[t] \in Over /\ outcome'[t] = outcome[t]
      BY DEF Onward, Over, Early
    <2> QED  BY <1>1, <1>2, <2>1 DEF Cleared, Unopened, Download, Target
  <1>9. Meetings'
    <2>1. \A t \in Task : t \in Open' => t \in Open
      BY DEF Onward, Open, Early
    <2> QED  BY <1>1, <1>2, <2>1 DEF Meetings, Open, Conflict, Changes, Uses, Target, Source, Download
  <1>10. Faithful'
    <2>1. ASSUME NEW t \in Task, worker'[t] \in Copying
          PROVE  /\ worker[t] \in Copying
                 /\ worker'[t] = "refreshing" => worker[t] = "refreshing" \/ AtEnd(t)
      BY <2>1 DEF Onward, Copying, Early
    <2> QED  BY <1>1, <1>2, <2>1 DEF Faithful, CopiedSoFar, AtEnd, Target, Source, Download
  <1> QED  BY <1>4, <1>5, <1>6, <1>7, <1>8, <1>9, <1>10 DEF FilesInv

\* The files are opened or refused.
LEMMA OpenKeeps ==
    ASSUME FilesInv, Inv', NEW t \in Task, OpenFiles(t)
    PROVE  FilesInv'
  <1>1. /\ FilesTypeOK /\ Homes /\ Unopened /\ Short /\ Written
        /\ Astray /\ Cleared /\ Meetings /\ Faithful
        /\ request \in [Task -> Wanted] /\ dir \in [Path -> Inode \cup {NoFile}]
        /\ data \in [Inode -> Seq(Chunk)] /\ reading \in [Task -> Inode \cup {NoFile}]
        /\ writing \in [Task -> Inode \cup {NoFile}] /\ position \in [Task -> 0..Size]
        /\ worker \in [Task -> Phase] /\ outcome' = outcome
    BY DEF FilesInv, FilesTypeOK, Inv, TypeOK, OpenFiles, OpenTransfer, Go
  <1>2. /\ worker[t] = "opening" /\ worker'[t] \in {"polling", "failed"}
        /\ \A u \in Task : u # t => worker'[u] = worker[u]
    BY <1>1 DEF OpenFiles, OpenTransfer, Go, Step
  <1>3. /\ request' = request /\ position' = position /\ removed' = removed /\ Meet(t)
    BY DEF OpenFiles
  <1>4. /\ writing[t] = NoFile /\ position[t] = 0 /\ t \notin astray /\ t \notin removed
        /\ \A p \in Path : dir[p] # t
        /\ \A u \in Task : writing[u] # t
    BY <1>1, <1>2 DEF Unopened, Early, Astray, Over
  <1>5. /\ Target(t) \in Path /\ Source(t) \in Path /\ Source(t) # Target(t)
        /\ t \in Inode /\ t # NoFile
    BY <1>1, Endpoints, NameAssumption DEF Inode
  <1>6. /\ Create(t) \/ UNCHANGED <<dir, data, writing>>
        /\ \/ reading' = reading
           \/ /\ reading' = [reading EXCEPT ![t] = dir[Source(t)]] /\ dir[Source(t)] # NoFile
        /\ worker'[t] = "polling" =>
             Create(t) /\ reading' = [reading EXCEPT ![t] = dir[Source(t)]] /\ dir[Source(t)] # NoFile
        /\ astray' = astray \/ (astray' = astray \cup {t} /\ ~Download(t) /\ UNCHANGED <<dir, data, writing>>)
    BY DEF OpenFiles, Accept, RefuseDirectory, RefuseAfterCreate, RefuseUpload
  <1>7. PICK i \in Inode :
          /\ i = IF dir[Target(t)] = NoFile THEN t ELSE dir[Target(t)]
          /\ Create(t) => /\ dir' = [dir EXCEPT ![Target(t)] = i]
                          /\ data' = [data EXCEPT ![i] = <<>>]
                          /\ writing' = [writing EXCEPT ![t] = i]
    BY <1>1, <1>5 DEF Create
  <1>8. i # NoFile /\ Home(i) = Target(t)
    BY <1>1, <1>5, <1>7, NameAssumption DEF Home, Homes
  <1>9. /\ \A u \in Task : u # t => writing'[u] = writing[u] /\ reading'[u] = reading[u]
        /\ \A p \in Path : p # Target(t) => dir'[p] = dir[p]
        /\ \A j \in Inode : j # i => data'[j] = data[j]
        /\ writing'[t] \in {NoFile, i} /\ dir'[Target(t)] \in {dir[Target(t)], i}
        /\ data'[i] \in {data[i], <<>>}
    BY <1>1, <1>4, <1>5, <1>6, <1>7
  <1>10. /\ dir' \in [Path -> Inode \cup {NoFile}] /\ data' \in [Inode -> Seq(Chunk)]
         /\ reading' \in [Task -> Inode \cup {NoFile}] /\ writing' \in [Task -> Inode \cup {NoFile}]
    <2>1. dir' \in [Path -> Inode \cup {NoFile}] /\ writing' \in [Task -> Inode \cup {NoFile}]
      <3>1. CASE Create(t)
        <4>1. /\ dir' = [dir EXCEPT ![Target(t)] = i]
              /\ writing' = [writing EXCEPT ![t] = i]
          BY <1>7, <3>1
        <4> QED  BY <1>1, <4>1
      <3>2. CASE dir' = dir /\ writing' = writing
        BY <1>1, <3>2
      <3> QED  BY <1>6, <3>1, <3>2
    <2>2. data' \in [Inode -> Seq(Chunk)]
      <3>1. <<>> \in Seq(Chunk)
        OBVIOUS
      <3> QED  BY <1>1, <1>6, <1>7, <3>1
    <2>3. reading' \in [Task -> Inode \cup {NoFile}]
      <3>1. dir[Source(t)] \in Inode \cup {NoFile}
        BY <1>1, <1>5
      <3> QED  BY <1>1, <1>6, <3>1
    <2> QED  BY <2>1, <2>2, <2>3
  <1>11. FilesTypeOK'
    <2>1. disturbed' \subseteq Task /\ astray' \subseteq Task /\ removed' \subseteq Task
      BY <1>1, <1>3, <1>6 DEF Meet, Open, FilesTypeOK
    <2>2. \A u \in Task : worker'[u] \in {"polling", "moving"} => reading'[u] # NoFile /\ writing'[u] # NoFile
      BY <1>1, <1>2, <1>6, <1>7, <1>8, <1>9 DEF FilesTypeOK
    <2> QED  BY <1>1, <1>3, <1>10, <2>1, <2>2 DEF FilesTypeOK
  <1>12. Homes'
    <2>1. /\ \A j : Home(j)' = Home(j)
          /\ \A u : Target(u)' = Target(u) /\ Source(u)' = Source(u)
      BY <1>3 DEF Home, Target, Source, Download
    <2>2. \A p \in Path : dir'[p] # NoFile => Home(dir'[p]) = p
      BY <1>1, <1>8, <1>9 DEF Homes
    <2>3. \A u \in Task : writing'[u] # NoFile => Home(writing'[u]) = Target(u)
      BY <1>1, <1>8, <1>9 DEF Homes
    <2>4. \A u \in Task : reading'[u] # NoFile => Home(reading'[u]) = Source(u)
      BY <1>1, <1>5, <1>6, <1>9 DEF Homes
    <2> QED  BY <2>1, <2>2, <2>3, <2>4 DEF Homes
  <1>13. Unopened'
    <2>1. ASSUME NEW u \in Task, worker'[u] \in Early
          PROVE  /\ writing'[u] = NoFile /\ position'[u] = 0 /\ u \notin astray'
                 /\ \A p \in Path : dir'[p] # u
                 /\ \A v \in Task : writing'[v] # u
      <3>1. u # t /\ worker[u] \in Early
        BY <1>2, <2>1 DEF Early
      <3>2. i # u
        BY <1>1, <1>5, <1>7, <3>1 DEF Unopened
      <3> QED  BY <1>1, <1>3, <1>4, <1>6, <1>9, <3>1, <3>2, NameAssumption DEF Unopened, Inode
    <2> QED  BY <2>1 DEF Unopened
  <1>14. Short'
    BY <1>1, <1>9, SizeAssumption DEF Short
  <1>15. Written'
    <2>1. ASSUME NEW u \in Task, NEW j \in Inode, j # writing'[u], NEW k \in 1..Len(data'[j])
          PROVE  data'[j][k].by # u
      <3>1. CASE data'[j] = <<>>
        BY <2>1, <3>1
      <3>2. CASE data'[j] = data[j]
        <4>1. j # writing[u]
          BY <1>4, <1>9, <2>1, NameAssumption
        <4> QED  BY <1>1, <2>1, <3>2, <4>1 DEF Written
      <3> QED  BY <1>9, <3>1, <3>2
    <2> QED  BY <2>1 DEF Written
  <1>16. Astray'
    <2>1. ASSUME NEW u \in Task, u \in astray'
          PROVE  ~Download(u) /\ writing'[u] = NoFile
      BY <1>1, <1>4, <1>6, <1>9, <2>1 DEF Astray
    <2>2. ASSUME NEW u \in Task, u \in removed
          PROVE  worker'[u] \in Over
      BY <1>1, <1>2, <1>4, <2>2 DEF Astray
    <2> QED  BY <1>3, <2>1, <2>2 DEF Astray, Download
  <1>17. Cleared'
    <2>1. ASSUME NEW u \in Task, worker'[u] \in Over, outcome[u] \in {"Failed", "Canceled"},
                 u \in removed
          PROVE  writing'[u] = NoFile \/ dir'[Target(u)] # writing'[u]
      <3>1. u # t /\ worker[u] \in Over /\ writing'[u] = writing[u]
        BY <1>2, <1>9, <2>1 DEF Over
      <3>2. writing[u] = NoFile \/ dir[Target(u)] # writing[u]
        BY <1>1, <2>1, <3>1 DEF Cleared
      <3>3. CASE dir'[Target(u)] = dir[Target(u)]
        BY <3>1, <3>2, <3>3
      <3>4. CASE dir'[Target(u)] # dir[Target(u)]
        <4>1. Target(u) = Target(t) /\ dir'[Target(t)] = i
          BY <1>1, <1>9, <3>4, Endpoints
        <4>2. i = t
          BY <1>7, <3>4, <4>1
        <4> QED  BY <1>4, <3>1, <4>1, <4>2
      <3> QED  BY <3>3, <3>4
    <2> QED  BY <1>1, <1>3, <2>1 DEF Cleared, Download, Target
  <1>18. \A u, v : Conflict(u, v)' <=> Conflict(u, v)
    BY <1>3 DEF Conflict, Changes, Uses, Target, Source, Download
  <1>19. /\ \A u \in Task : u \in Open' => u = t \/ u \in Open
         /\ Open \subseteq Task /\ Open' \subseteq Task
    BY <1>2 DEF Open
  <1>20. /\ disturbed \subseteq disturbed'
         /\ \A u \in Open : u # t /\ Conflict(t, u) => u \in disturbed' /\ t \in disturbed'
    BY <1>3 DEF Meet
  <1>21. Meetings'
    <2>1. ASSUME NEW u \in Open', NEW v \in Open', u # v, Conflict(u, v)
          PROVE  u \in disturbed'
      <3>1. CASE u = t \/ v = t
        BY <1>19, <1>20, <2>1, <3>1, Conflicts
      <3>2. CASE u # t /\ v # t
        BY <1>1, <1>19, <1>20, <2>1, <3>2 DEF Meetings
      <3> QED  BY <3>1, <3>2
    <2> QED  BY <1>18, <2>1 DEF Meetings
  <1>22. ASSUME NEW u \in Task, u \notin disturbed', worker'[u] \in Copying
         PROVE  /\ reading'[u] # NoFile /\ writing'[u] # NoFile
                /\ CopiedSoFar(u)'
                /\ worker'[u] = "refreshing" => AtEnd(u)'
    <2>1. Target(u)' = Target(u) /\ Source(u)' = Source(u)
      BY <1>3 DEF Target, Source, Download
    <2>2. CASE u = t
      <3>1. /\ worker'[t] = "polling" /\ writing'[t] = i /\ dir'[Target(t)] = i /\ data'[i] = <<>>
            /\ reading'[t] = dir[Source(t)] /\ dir'[Source(t)] = dir[Source(t)]
            /\ reading'[t] \in Inode /\ reading'[t] # NoFile
        BY <1>1, <1>2, <1>5, <1>6, <1>7, <1>9, <1>22, <2>2 DEF Copying
      <3>2. Len(data'[reading'[t]]) \in Nat /\ position'[t] = 0
        BY <1>3, <1>4, <1>10, <3>1
      <3> QED  BY <1>8, <2>1, <2>2, <3>1, <3>2 DEF CopiedSoFar
    <2>3. CASE u # t
      <3>1. /\ u \notin disturbed /\ worker[u] \in Copying /\ u \in Open /\ worker'[u] = worker[u]
            /\ writing'[u] = writing[u] /\ reading'[u] = reading[u] /\ position'[u] = position[u]
        BY <1>2, <1>3, <1>9, <1>20, <1>22, <2>3 DEF Open, Copying
      <3>2. /\ reading[u] # NoFile /\ writing[u] # NoFile /\ CopiedSoFar(u)
            /\ worker[u] = "refreshing" => AtEnd(u)
        BY <1>1, <3>1 DEF Faithful
      <3>3. ~Conflict(t, u)
        BY <1>20, <1>22, <2>3, <3>1
      <3>4. Target(t) # Target(u) /\ Target(t) # Source(u)
        <4>1. Target(t) \in Changes(t) /\ Target(u) \in Uses(u) /\ Source(u) \in Uses(u)
          BY <1>1, Endpoints
        <4> QED  BY <3>3, <4>1, Conflicts
      <3>5. dir'[Target(u)] = dir[Target(u)] /\ dir'[Source(u)] = dir[Source(u)]
        BY <1>1, <1>9, <3>4, Endpoints
      <3>6. i # writing[u] /\ i # reading[u]
        BY <1>1, <1>8, <3>2, <3>4 DEF Homes
      <3>7. data'[writing[u]] = data[writing[u]] /\ data'[reading[u]] = data[reading[u]]
        BY <1>1, <1>9, <3>2, <3>6
      <3> QED  BY <2>1, <3>1, <3>2, <3>5, <3>7 DEF CopiedSoFar, AtEnd
    <2> QED  BY <2>2, <2>3
  <1>23. Faithful'
    BY <1>22 DEF Faithful
  <1> QED  BY <1>11, <1>12, <1>13, <1>14, <1>15, <1>16, <1>17, <1>21, <1>23 DEF FilesInv

\* A chunk read from one file, with the name of who writes it.
LEMMA ChunkSigned ==
    ASSUME NEW c \in Chunk, NEW t \in Task, NEW signed, signed = [c EXCEPT !.by = t]
    PROVE  signed \in Chunk /\ signed.of = c.of /\ signed.by = t
  BY DEF Chunk

\* A chunk is copied.
LEMMA CopyKeeps ==
    ASSUME FilesInv, Inv', NEW t \in Task, CopyChunk(t)
    PROVE  FilesInv'
  <1>1. /\ FilesTypeOK /\ Homes /\ Unopened /\ Short /\ Written
        /\ Astray /\ Cleared /\ Meetings /\ Faithful
        /\ request \in [Task -> Wanted] /\ dir \in [Path -> Inode \cup {NoFile}]
        /\ data \in [Inode -> Seq(Chunk)] /\ reading \in [Task -> Inode \cup {NoFile}]
        /\ writing \in [Task -> Inode \cup {NoFile}] /\ position \in [Task -> 0..Size]
        /\ worker \in [Task -> Phase] /\ outcome' = outcome
    BY DEF FilesInv, FilesTypeOK, Inv, TypeOK, CopyChunk, MoveChunk, Go
  <1>2. /\ worker[t] = "moving" /\ worker'[t] = "polling"
        /\ \A u \in Task : u # t => worker'[u] = worker[u]
    BY <1>1 DEF CopyChunk, MoveChunk, Go, Step
  <1>3. /\ request' = request /\ dir' = dir /\ reading' = reading /\ writing' = writing
        /\ astray' = astray /\ removed' = removed /\ disturbed' = disturbed
        /\ position' = [position EXCEPT ![t] = @ + 1]
    BY DEF CopyChunk
  <1>4. PICK from \in Inode, to \in Inode : reading[t] = from /\ writing[t] = to
    BY <1>1, <1>2, NameAssumption DEF FilesTypeOK
  <1>5. PICK k \in Nat \ {0} : k = position[t] + 1
    BY <1>1, SizeAssumption
  <1>6. /\ from # to /\ k \in 1..Len(data[from]) /\ k \in 0..Size
    <2>1. from # to
      BY <1>1, <1>4, Endpoints, NameAssumption DEF Homes
    <2>2. ~(position[t] >= Len(data[from])) /\ Len(data[from]) \in Nat /\ Len(data[from]) <= Size
      BY <1>1, <1>4 DEF CopyChunk, AtEnd, Short
    <2> QED  BY <1>1, <1>5, <2>1, <2>2, SizeAssumption
  <1>7. PICK c \in Chunk : c = data[from][k]
    BY <1>1, <1>6
  <1>8. PICK chunk \in Chunk : chunk = [c EXCEPT !.by = t] /\ chunk.of = c.of /\ chunk.by = t
    <2>1. PICK signed : signed = [c EXCEPT !.by = t]
      OBVIOUS
    <2>2. signed \in Chunk /\ signed.of = c.of /\ signed.by = t
      BY <2>1, ChunkSigned, Zenon
    <2> QED  BY <2>1, <2>2, Zenon
  <1>9. chunk \in Chunk /\ chunk.of = c.of /\ chunk.by = t /\ k \in Nat \ {0}
    BY <1>5, <1>8, Zenon
  <1>10. PICK old \in Seq(Chunk) : old = data[to]
    BY <1>1
  <1>11. PICK new \in Seq(Chunk) : new = WriteAt(old, k, chunk) /\ Overwritten(new, old, k, chunk)
    <2>1. old \in Seq(Chunk) /\ chunk \in Chunk /\ k \in Nat \ {0}
      BY <1>9, <1>10
    <2> QED  BY <2>1, ChunkWritten
  <1>12. data' = [data EXCEPT ![to] = new]
    <2>1. data' = [data EXCEPT ![writing[t]] = WriteAt(data[writing[t]], position[t] + 1,
                                  [data[reading[t]][position[t] + 1] EXCEPT !.by = t])]
      BY DEF CopyChunk
    <2> QED  BY <1>4, <1>5, <1>7, <1>8, <1>10, <1>11, <2>1, Zenon
  <1>13. /\ new \in Seq(Chunk)
         /\ Len(new) = IF k > Len(old) THEN k ELSE Len(old)
         /\ new[k] = chunk
         /\ \A j \in 1..Len(new) : \/ j = k
                                   \/ j \in 1..Len(old) /\ new[j] = old[j]
                                   \/ new[j] = Hole
         /\ \A j \in 1..Len(old) : j # k => new[j] = old[j]
    BY <1>11 DEF Overwritten
  <1>14. /\ data'[to] = new /\ data' \in [Inode -> Seq(Chunk)]
         /\ \A j \in Inode : j # to => data'[j] = data[j]
    BY <1>1, <1>12, <1>13
  <1>15. /\ position'[t] = k /\ position' \in [Task -> 0..Size]
         /\ \A u \in Task : u # t => position'[u] = position[u]
    BY <1>1, <1>3, <1>5, <1>6
  <1>16. FilesTypeOK'
    <2>1. \A u \in Task : worker'[u] \in {"polling", "moving"} => worker[u] \in {"polling", "moving"}
      BY <1>2
    <2> QED  BY <1>1, <1>3, <1>14, <1>15, <2>1 DEF FilesTypeOK
  <1>17. Homes'
    BY <1>1, <1>3 DEF Homes, Home, Target, Source, Download
  <1>18. Unopened'
    <2>1. \A u \in Task : worker'[u] \in Early => u # t /\ worker[u] \in Early
      BY <1>2 DEF Early
    <2> QED  BY <1>1, <1>3, <1>15, <2>1 DEF Unopened
  <1>19. Short'
    <2>1. Len(new) <= Size
      BY <1>1, <1>6, <1>10, <1>13, SizeAssumption DEF Short
    <2> QED  BY <1>1, <1>14, <2>1 DEF Short
  <1>20. Written'
    <2>1. ASSUME NEW u \in Task, NEW j \in Inode, j # writing[u], NEW n \in 1..Len(data'[j])
          PROVE  data'[j][n].by # u
      <3>1. CASE j # to
        BY <1>1, <1>14, <2>1, <3>1 DEF Written
      <3>2. CASE j = to
        <4>1. u # t /\ u # NoFile /\ n \in 1..Len(new)
          BY <1>4, <1>14, <2>1, <3>2, NameAssumption DEF Inode
        <4>2. CASE n = k
          BY <1>9, <1>13, <1>14, <3>2, <4>1, <4>2
        <4>3. CASE n \in 1..Len(data[to]) /\ new[n] = data[to][n]
          BY <1>1, <1>14, <2>1, <3>2, <4>3 DEF Written
        <4>4. CASE new[n] = Hole
          BY <1>14, <3>2, <4>1, <4>4 DEF Hole
        <4> QED  BY <1>10, <1>13, <4>1, <4>2, <4>3, <4>4
      <3> QED  BY <3>1, <3>2
    <2> QED  BY <1>3, <2>1 DEF Written
  <1>21. Astray' /\ Cleared'
    <2>1. \A u \in Task : worker'[u] \in Over <=> worker[u] \in Over
      BY <1>2 DEF Over
    <2> QED  BY <1>1, <1>3, <2>1 DEF Astray, Cleared, Download, Target
  <1>22. Open' = Open /\ t \in Open /\ Open \subseteq Task
    BY <1>2 DEF Open
  <1>23. Meetings'
    BY <1>1, <1>3, <1>22 DEF Meetings, Conflict, Changes, Uses, Target, Source, Download
  <1>24. ASSUME NEW u \in Task, u \notin disturbed, worker'[u] \in Copying
         PROVE  /\ reading[u] # NoFile /\ writing[u] # NoFile
                /\ CopiedSoFar(u)'
                /\ worker'[u] = "refreshing" => AtEnd(u)'
    <2>1. /\ Target(u)' = Target(u) /\ Source(u)' = Source(u)
          /\ writing'[u] = writing[u] /\ reading'[u] = reading[u]
      BY <1>3 DEF Target, Source, Download
    <2>2. worker[u] \in Copying /\ u \in Open /\ (worker'[u] = "refreshing" => worker[u] = "refreshing")
      BY <1>2, <1>24 DEF Copying, Open
    <2>3. /\ reading[u] # NoFile /\ writing[u] # NoFile /\ CopiedSoFar(u)
          /\ worker[u] = "refreshing" => AtEnd(u)
      BY <1>1, <1>24, <2>2 DEF Faithful
    <2>4. CASE u = t
      <3>1. Len(data[to]) = k - 1 /\ k - 1 = position[t]
        BY <1>1, <1>4, <1>5, <2>3, <2>4 DEF CopiedSoFar
      <3>2. Len(new) = k
        BY <1>10, <1>13, <3>1
      <3>3. data'[from] = data[from]
        BY <1>6, <1>14
      <3>4. ASSUME NEW n \in 1..k
            PROVE  new[n].of = data[from][n].of /\ new[n].by = t
        <4>1. CASE n = k
          BY <1>7, <1>9, <1>13, <4>1
        <4>2. CASE n # k
          <5>1. n \in 1..position[t] /\ n \in 1..Len(data[to]) /\ new[n] = data[to][n]
            BY <1>10, <1>13, <3>1, <4>2
          <5> QED  BY <1>4, <2>3, <2>4, <5>1 DEF CopiedSoFar
        <4> QED  BY <4>1, <4>2
      <3>5. dir[Target(t)] = to /\ dir[Source(t)] = from
        BY <1>4, <2>3, <2>4 DEF CopiedSoFar
      <3>6. k <= Len(data[from]) /\ worker'[t] # "refreshing"
        BY <1>2, <1>6
      <3> QED  BY <1>3, <1>4, <1>14, <1>15, <2>1, <2>3, <2>4, <3>2, <3>3, <3>4, <3>5, <3>6 DEF CopiedSoFar
    <2>5. CASE u # t
      <3>1. ~Conflict(t, u)
        BY <1>1, <1>22, <1>24, <2>2, <2>5, Conflicts DEF Meetings
      <3>2. to # writing[u] /\ to # reading[u]
        BY <1>1, <1>4, <3>1, AtHome, NameAssumption
      <3>3. writing[u] \in Inode /\ reading[u] \in Inode
        BY <1>1, <2>3
      <3>4. data'[writing[u]] = data[writing[u]] /\ data'[reading[u]] = data[reading[u]]
        BY <1>14, <3>2, <3>3
      <3> QED  BY <1>3, <1>15, <2>1, <2>2, <2>3, <2>5, <3>4 DEF CopiedSoFar, AtEnd
    <2> QED  BY <2>4, <2>5
  <1>25. Faithful'
    BY <1>3, <1>24 DEF Faithful
  <1> QED  BY <1>16, <1>17, <1>18, <1>19, <1>20, <1>21, <1>23, <1>25 DEF FilesInv

\* What is left of a file is removed.
LEMMA CleanKeeps ==
    ASSUME FilesInv, Inv', NEW t \in Task, CleanFiles(t)
    PROVE  FilesInv'
  <1>1. /\ FilesTypeOK /\ Homes /\ Unopened /\ Short /\ Written
        /\ Astray /\ Cleared /\ Meetings /\ Faithful
        /\ request \in [Task -> Wanted] /\ dir \in [Path -> Inode \cup {NoFile}]
        /\ worker \in [Task -> Phase] /\ outcome' = outcome
    BY DEF FilesInv, FilesTypeOK, Inv, TypeOK, CleanFiles, Cleanup, Go
  <1>2. /\ worker[t] = "cleaning" /\ worker'[t] = "reporting"
        /\ \A u \in Task : u # t => worker'[u] = worker[u]
    BY <1>1 DEF CleanFiles, Cleanup, Go, Step
  <1>3. /\ request' = request /\ data' = data /\ reading' = reading /\ writing' = writing
        /\ position' = position /\ astray' = astray /\ disturbed' = disturbed
    BY DEF CleanFiles
  <1>4. \/ dir' = [dir EXCEPT ![CleanupPath(t)] = NoFile] /\ removed' = removed \cup {t}
        \/ dir' = dir /\ removed' = removed
    BY DEF CleanFiles, RemovePartial
  <1>5. /\ CleanupPath(t) \in Path /\ CleanupPath(t) \in Changes(t)
        /\ t \notin astray => CleanupPath(t) = Target(t)
    BY <1>1, Endpoints DEF Astray
  <1>6. /\ \A p \in Path : dir'[p] \in {dir[p], NoFile}
        /\ \A p \in Path : p # CleanupPath(t) => dir'[p] = dir[p]
    BY <1>1, <1>4, <1>5
  <1>7. FilesTypeOK'
    <2>1. dir' \in [Path -> Inode \cup {NoFile}] /\ removed' \subseteq Task
      BY <1>1, <1>4 DEF FilesTypeOK
    <2>2. \A u \in Task : worker'[u] \in {"polling", "moving"} => worker[u] \in {"polling", "moving"}
      BY <1>2
    <2> QED  BY <1>1, <1>3, <2>1, <2>2 DEF FilesTypeOK
  <1>8. Homes' /\ Short' /\ Written'
    BY <1>1, <1>3, <1>6 DEF Homes, Home, Target, Source, Download, Short, Written
  <1>9. Unopened'
    <2>1. \A u \in Task : worker'[u] \in Early => worker[u] \in Early
      BY <1>2 DEF Early
    <2>2. \A u \in Task : u # NoFile
      BY NameAssumption DEF Inode
    <2> QED  BY <1>1, <1>3, <1>6, <2>1, <2>2 DEF Unopened
  <1>10. Astray'
    <2>1. \A u \in Task : u \in removed' => u = t \/ u \in removed
      BY <1>4
    <2> QED  BY <1>1, <1>2, <1>3, <2>1 DEF Astray, Download, Over
  <1>11. Cleared'
    <2>1. ASSUME NEW u \in Task, worker'[u] \in Over, outcome[u] \in {"Failed", "Canceled"},
                 u \in removed', writing[u] # NoFile
          PROVE  dir'[Target(u)] # writing[u]
      <3>1. Target(u) \in Path /\ dir'[Target(u)] \in {dir[Target(u)], NoFile}
        BY <1>1, <1>6, Endpoints
      <3>2. CASE u = t
        <4>1. t \notin astray /\ t \notin removed
          BY <1>1, <1>2, <2>1, <3>2 DEF Astray, Over
        <4>2. dir' = [dir EXCEPT ![Target(t)] = NoFile]
          BY <1>4, <1>5, <2>1, <3>2, <4>1
        <4> QED  BY <1>1, <2>1, <3>1, <3>2, <4>2
      <3>3. CASE u # t
        <4>1. worker[u] \in Over /\ u \in removed
          BY <1>2, <1>4, <2>1, <3>3
        <4> QED  BY <1>1, <2>1, <3>1, <4>1 DEF Cleared
      <3> QED  BY <3>2, <3>3
    <2> QED  BY <1>1, <1>3, <2>1 DEF Cleared, Download, Target
  <1>12. /\ Open' \subseteq Open /\ t \in Open /\ Open \subseteq Task
    BY <1>2 DEF Open
  <1>13. Meetings'
    BY <1>1, <1>3, <1>12 DEF Meetings, Conflict, Changes, Uses, Target, Source, Download
  <1>14. ASSUME NEW u \in Task, u \notin disturbed, worker'[u] \in Copying
         PROVE  /\ reading[u] # NoFile /\ writing[u] # NoFile
                /\ CopiedSoFar(u)'
                /\ worker'[u] = "refreshing" => AtEnd(u)'
    <2>1. Target(u)' = Target(u) /\ Source(u)' = Source(u)
      BY <1>3 DEF Target, Source, Download
    <2>2. u # t /\ worker'[u] = worker[u] /\ u \in Open
      BY <1>2, <1>14 DEF Copying, Open
    <2>3. /\ reading[u] # NoFile /\ writing[u] # NoFile /\ CopiedSoFar(u)
          /\ worker[u] = "refreshing" => AtEnd(u)
      BY <1>1, <1>14, <2>2 DEF Faithful
    <2>4. CleanupPath(t) \notin Uses(u)
      BY <1>1, <1>5, <1>12, <1>14, <2>2, Conflicts DEF Meetings
    <2>5. /\ Target(u) \in Uses(u) /\ Source(u) \in Uses(u)
          /\ Target(u) \in Path /\ Source(u) \in Path
      BY <1>1, Endpoints
    <2>6. dir'[Target(u)] = dir[Target(u)] /\ dir'[Source(u)] = dir[Source(u)]
      BY <1>6, <2>4, <2>5
    <2> QED  BY <1>3, <2>1, <2>2, <2>3, <2>6 DEF CopiedSoFar, AtEnd
  <1>15. Faithful'
    BY <1>3, <1>14 DEF Faithful
  <1> QED  BY <1>7, <1>8, <1>9, <1>10, <1>11, <1>13, <1>15 DEF FilesInv

LEMMA FilesInitInv == FilesInit => FilesInv
  <1> SUFFICES ASSUME FilesInit
               PROVE  FilesInv
    OBVIOUS
  <1>1. /\ Inv
        /\ request \in [Task -> Wanted]
        /\ reading = [t \in Task |-> NoFile] /\ writing = [t \in Task |-> NoFile]
        /\ position = [t \in Task |-> 0] /\ astray = {} /\ removed = {} /\ disturbed = {}
        /\ worker = [t \in Task |-> "none"]
        /\ data = [i \in Inode |-> IF i \in Path THEN Original(i) ELSE <<>>]
    BY InitInv DEF FilesInit, Init
  <1>2. PICK missing : dir = [p \in Path |-> IF p \in missing THEN NoFile ELSE p]
    BY DEF FilesInit
  <1>3. \A p \in Path : dir[p] \in {p, NoFile}
    BY <1>2
  <1>4. \A i \in Path : Original(i) \in Seq(Chunk) /\ Len(Original(i)) = Size
                          /\ \A k \in 1..Size : Original(i)[k].by = User
    <2> SUFFICES ASSUME NEW i \in Path
                 PROVE  Original(i) \in Seq(Chunk) /\ Len(Original(i)) = Size
                          /\ \A k \in 1..Size : Original(i)[k].by = User
      OBVIOUS
    <2>1. PICK chunk : chunk = [of |-> i, by |-> User]
      OBVIOUS
    <2>2. chunk \in Chunk /\ chunk.by = User
      BY <2>1 DEF Chunk
    <2>3. Original(i) = [k \in 1..Size |-> chunk]
      BY <2>1 DEF Original
    <2> QED  BY <2>2, <2>3, SizeAssumption
  <1>5. \A i \in Inode : IF i \in Path THEN data[i] = Original(i) ELSE data[i] = <<>>
    BY <1>1
  <1>6. FilesTypeOK
    <2>1. dir \in [Path -> Inode \cup {NoFile}]
      BY <1>2 DEF Inode
    <2>2. data \in [Inode -> Seq(Chunk)]
      <3>1. \A i \in Inode : data[i] \in Seq(Chunk)
        <4>1. <<>> \in Seq(Chunk)
          OBVIOUS
        <4> QED  BY <1>4, <1>5, <4>1
      <3> QED  BY <1>1, <3>1
    <2>3. position \in [Task -> 0..Size]
      BY <1>1, SizeAssumption
    <2> QED  BY <1>1, <2>1, <2>2, <2>3 DEF FilesTypeOK
  <1>7. Homes /\ Unopened
    BY <1>1, <1>3, NameAssumption DEF Homes, Unopened, Home, Inode
  <1>8. Short
    BY <1>4, <1>5, SizeAssumption DEF Short
  <1>9. Written
    <2>1. ASSUME NEW t \in Task, NEW i \in Inode, NEW k \in 1..Len(data[i])
          PROVE  data[i][k].by # t
      <3>1. i \in Path /\ data[i] = Original(i) /\ k \in 1..Size
        BY <1>4, <1>5, <2>1
      <3> QED  BY <1>4, <3>1, NameAssumption
    <2> QED  BY <2>1 DEF Written
  <1>10. Astray /\ Cleared /\ Meetings /\ Faithful
    BY <1>1 DEF Astray, Cleared, Meetings, Faithful, Over, Open, Copying
  <1> QED  BY <1>1, <1>6, <1>7, <1>8, <1>9, <1>10 DEF FilesInv

LEMMA FilesKeep == FilesInv /\ [FilesNext]_filesVars => FilesInv'
  <1> SUFFICES ASSUME FilesInv, [FilesNext]_filesVars
               PROVE  FilesInv'
    OBVIOUS
  <1>1. Inv /\ Inv' /\ worker \in [Task -> Phase] /\ outcome \in [Task -> Outcome \cup {NoOutcome}]
    BY QueueOfFiles, NextKeepsInv DEF FilesInv, Inv, TypeOK
  <1>2. CASE Aside(Client) \/ UNCHANGED filesVars
    <2>1. worker' = worker /\ outcome' = outcome /\ UNCHANGED fileVars
      BY <1>2 DEF Aside, Client, SendSetConfig, SendEnqueue, SendCancel, Send, filesVars, vars,
         workerVars, schedulerVars
    <2> QED  BY <1>1, <2>1, FilesLeft DEF Onward
  <1>3. CASE Aside(Scheduler)
    <2>1. \A t \in Task : Onward(t)
      BY <1>1, <1>3, SchedulerStarts DEF Aside, Onward, Early
    <2> QED  BY <1>1, <1>3, <2>1, FilesLeft DEF Aside
  <1>4. ASSUME NEW t \in Task, UNCHANGED fileVars, NEW to, worker' = [worker EXCEPT ![t] = to],
               \A u \in Task : u # t => outcome'[u] = outcome[u], Onward(t)
        PROVE  FilesInv'
    <2>1. \A u \in Task : Onward(u)
      BY <1>1, <1>4 DEF Onward
    <2> QED  BY <1>1, <1>4, <2>1, FilesLeft
  <1>5. ASSUME NEW t \in Task, EndCopy(t)
        PROVE  FilesInv'
    <2>1. PICK to \in {"refreshing", "failed"} : Go(t, "moving", to)
      BY <1>5 DEF EndCopy, EndMove
    <2>2. Onward(t)
      BY <1>1, <1>5, <2>1 DEF Onward, EndCopy, Go, Step
    <2> QED  BY <1>4, <1>5, <2>1, <2>2 DEF EndCopy, Go, Step
  <1>6. ASSUME NEW t \in Task,
               Aside(Announce(t) \/ CheckCancel(t) \/ Connect(t) \/ Poll(t)
                       \/ Refresh(t) \/ Conclude(t) \/ Report(t) \/ SignalDone(t))
        PROVE  FilesInv'
    <2>1. PICK from, to : Step(t, from, to) /\ \A u \in Task : u # t => outcome'[u] = outcome[u]
      BY <1>1, <1>6 DEF Aside, Announce, CheckCancel, Connect, Poll, Refresh, Conclude, Report,
         SignalDone, Go, Settle
    <2>2. Onward(t)
      BY <1>1, <1>6 DEF Onward, Early, Aside, Announce, CheckCancel, Connect, Poll, Refresh,
         Conclude, Report, SignalDone, Go, Settle, Step
    <2> QED  BY <1>4, <1>6, <2>1, <2>2 DEF Aside, Step
  <1> QED  BY <1>1, <1>2, <1>3, <1>5, <1>6, OpenKeeps, CopyKeeps, CleanKeeps DEF FilesNext

-----------------------------------------------------------------------------
(* The theorems.                                                           *)

\* Everything below follows from FilesInv, which every step keeps.
THEOREM FilesInvHolds == FilesSpec => []FilesInv
  <1> QED  BY FilesInitInv, FilesKeep, PTL DEF FilesSpec

\* download_via and upload_via have both files open while they copy, and move no
\* more chunks than a file had at the start, though files are emptied, written
\* beyond their end and read by others meanwhile.
THEOREM FilesTyped == FilesSpec => []FilesTypeOK
  <1>1. FilesInv => FilesTypeOK
    BY DEF FilesInv
  <1> QED  BY <1>1, FilesInvHolds, PTL

\* remove_partial and remove_remote_partial remove by path, so that they may miss
\* the file the transfer wrote.  Still, unless the removal was refused, nothing it
\* wrote is left at its target: that file cannot come back there.
THEOREM FailuresLeaveNothing == FilesSpec => []NoResidue
  <1>1. FilesInv => NoResidue
    <2> SUFFICES ASSUME FilesInv, NEW t \in Task,
                        worker[t] \in Over, outcome[t] \in {"Failed", "Canceled"},
                        t \in removed, dir[Target(t)] # NoFile
                 PROVE  \A k \in 1..Len(data[dir[Target(t)]]) : data[dir[Target(t)]][k].by # t
      BY DEF NoResidue, Over
    <2>1. dir[Target(t)] # writing[t]
      BY DEF FilesInv, Cleared
    <2>2. dir[Target(t)] \in Inode
      BY Endpoints DEF FilesInv, FilesTypeOK
    <2> QED  BY <2>1, <2>2 DEF FilesInv, Written
  <1> QED  BY <1>1, FilesInvHolds, PTL

\* Once the copying loop of download_via or upload_via has come to its end, the
\* source is copied whole, and is at the path asked for, unless another transfer
\* could change one of the two files meanwhile: nothing else comes between.
THEOREM CompletedIsCopy == FilesSpec => []CompletedIsWhole
  <1>1. FilesInv => CompletedIsWhole
    <2> SUFFICES ASSUME FilesInv, NEW t \in Task, t \notin disturbed, worker[t] = "refreshing"
                 PROVE  /\ dir[Target(t)] = writing[t]
                        /\ dir[Source(t)] = reading[t]
                        /\ Len(data[writing[t]]) = Len(data[reading[t]])
                        /\ \A k \in 1..Len(data[writing[t]]) :
                             /\ data[writing[t]][k].of = data[reading[t]][k].of
                             /\ data[writing[t]][k].by = t
      BY DEF CompletedIsWhole
    <2>1. /\ reading[t] # NoFile /\ CopiedSoFar(t) /\ AtEnd(t)
      BY DEF FilesInv, Faithful, Copying
    <2>2. position[t] \in Nat /\ Len(data[reading[t]]) \in Nat
      BY <2>1, SizeAssumption DEF FilesInv, FilesTypeOK
    <2> QED  BY <2>1, <2>2 DEF CopiedSoFar, AtEnd
  <1> QED  BY <1>1, FilesInvHolds, PTL
=============================================================================
