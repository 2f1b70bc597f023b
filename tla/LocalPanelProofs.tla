-------------------------- MODULE LocalPanelProofs --------------------------
(***************************************************************************)
(* The local panel, for every set of names, paths and texts of paths and   *)
(* every length of the channels: its types, and that at rest the panel     *)
(* shows the disk as it is.                                                *)
(*                                                                         *)
(* What holds at rest is no invariant of its own: it follows from what     *)
(* holds of the newest listing, shown or on its way, in every state.       *)
(***************************************************************************)
EXTENDS LocalPanel, TreesProofs

Shows(listing, t) ==
    Reached(t, listing.path) /\ listing.entries = Contents(t, Leads[listing.path])

\* The newest listing shows the disk.
NewestIsTrue ==
    ~localDrifted =>
        /\ localEvents # <<>> => Shows(localEvents[Len(localEvents)], disk)
        /\ localEvents = <<>> /\ localShown # NoListing => Shows(localShown, disk)

LocalInv == LocalTypeOK /\ NewestIsTrue

-----------------------------------------------------------------------------
(* The pieces the actions are made of.                                     *)

LEMMA ListingMade ==
    ASSUME NEW t \in Tree, NEW dir \in Text
    PROVE  /\ ListingOf(dir, Contents(t, Leads[dir])) \in LocalListing
           /\ Reached(t, dir) => Shows(ListingOf(dir, Contents(t, Leads[dir])), t)
  <1>1. Contents(t, Leads[dir]) \in Entries
    BY TextAssumption, ContentsAreEntries
  <1> QED
    BY <1>1 DEF ListingOf, ListingsOf, LocalListing, Shows

\* Which fields a command has.
LEMMA CommandFields ==
    ASSUME NEW c \in LocalFsCommand
    PROVE  /\ c.kind \in {"List", "Mkdir", "Delete"} => c.path \in Text
           /\ c.kind = "Rename" => c.from \in Text /\ c.to \in Text
  BY DEF LocalFsCommand

\* A command given changes nothing else.
LEMMA AskKeeps ==
    ASSUME LocalInv, NEW command \in LocalFsCommand, LocalAsk(command)
    PROVE  LocalInv'
  <1>1. localRequests' \in Seq(LocalFsCommand)
    BY DEF LocalAsk, LocalInv, LocalTypeOK
  <1> QED
    BY <1>1 DEF LocalAsk, LocalInv, LocalTypeOK, NewestIsTrue

\* A listing on its way to the panel, of what the disk is by now.
LEMMA ListKeeps ==
    ASSUME LocalInv, NEW kind, LocalServe(kind), NEW dir \in Text,
           disk' \in Tree, Grown(disk'), LocalList(dir)
    PROVE  LocalInv'
  <1> DEFINE made == ListingOf(dir, Contents(disk', Leads[dir]))
  <1>1. /\ localRequests' \in Seq(LocalFsCommand)
        /\ localShown' = localShown /\ download' = download
    BY DEF LocalInv, LocalTypeOK, LocalServe
  <1>2. made \in LocalListing /\ (Reached(disk', dir) => Shows(made, disk'))
    BY ListingMade
  <1> HIDE DEF made
  <1>3. CASE /\ Reached(disk', dir) /\ localEvents' = Append(localEvents, made)
             /\ localDrifted' = (localDrifted /\ download # NoDownload)
    <2>1. /\ localEvents' \in Seq(LocalListing) /\ Len(localEvents') = Len(localEvents) + 1
          /\ localEvents'[Len(localEvents')] = made /\ localEvents' # <<>>
          /\ \A i \in 1..Len(localEvents) : localEvents'[i] = localEvents[i]
      BY <1>2, <1>3, AppendProperties DEF LocalInv, LocalTypeOK
    <2>2. localDrifted' \in BOOLEAN
      BY <1>3 DEF LocalInv, LocalTypeOK
    <2>3. LocalTypeOK'
      BY <1>1, <2>1, <2>2 DEF LocalInv, LocalTypeOK
    <2>4. NewestIsTrue'
      BY <1>2, <1>3, <2>1 DEF NewestIsTrue
    <2> QED
      BY <2>3, <2>4 DEF LocalInv
  <1>4. CASE /\ localEvents' = localEvents
             /\ localDrifted' = (localDrifted \/ disk' # disk)
    <2>1. localDrifted' \in BOOLEAN
      BY <1>4 DEF LocalInv, LocalTypeOK
    <2>2. LocalTypeOK'
      BY <1>1, <1>4, <2>1 DEF LocalInv, LocalTypeOK
    <2>3. ~localDrifted' => ~localDrifted /\ disk' = disk
      BY <1>4
    <2>4. NewestIsTrue'
      BY <1>1, <1>4, <2>3 DEF LocalInv, NewestIsTrue
    <2> QED
      BY <2>2, <2>4 DEF LocalInv
  <1> QED
    BY <1>3, <1>4 DEF LocalList, made

\* Nothing is said of the disk while a download is at work.
LEMMA DownloadKeeps ==
    ASSUME LocalInv, DownloadStep, UNCHANGED localEvents, disk' \in Tree, Grown(disk'),
           download' \in {NoDownload} \cup [phase : {"open"}, path : Text \ {<<>>}]
    PROVE  LocalInv'
  <1>1. LocalTypeOK'
    BY DEF LocalInv, LocalTypeOK, DownloadStep
  <1>2. NewestIsTrue'
    BY DEF NewestIsTrue, DownloadStep
  <1> QED
    BY <1>1, <1>2 DEF LocalInv

\* Most commands end with a listing of the directory above what they name.
LEMMA RefreshKeeps ==
    ASSUME LocalInv, NEW kind, LocalServe(kind), NEW path \in Text,
           disk' \in Tree, Grown(disk'), RefreshLocal(path)
    PROVE  LocalInv'
  <1>1. PICK dir \in Text : LocalList(dir)
    BY FrontIsText DEF RefreshLocal
  <1> QED
    BY <1>1, ListKeeps

-----------------------------------------------------------------------------
(* What the worker makes of the disk.                                      *)

\* All directories on the way were made.
LEMMA MadeIsGrown ==
    ASSUME disk \in Tree, Grown(disk), NEW text \in Text, MadeUpTo(text)
    PROVE  disk' \in Tree /\ Grown(disk')
  <1>1. disk' \in Tree /\ \A p \in Path : disk'[p] = IF p \in Way(text) THEN "dir" ELSE disk[p]
    BY DEF MadeUpTo, Tree
  <1>2. ASSUME NEW p \in Way(text), NEW r \in Path, IsPrefix(r, p)
        PROVE  r \in Way(text)
    <2>1. PICK n \in 0..Len(text) : p \in Path /\ IsPrefix(p, Leads[SubSeq(text, 1, n)])
      BY DEF Way
    <2>2. Leads[SubSeq(text, 1, n)] \in Path
      BY TextBegins
    <2>3. IsPrefix(r, Leads[SubSeq(text, 1, n)])
      BY <1>2, <2>1, <2>2, PathAssumption, PrefixTransitive
    <2> QED
      BY <2>1, <2>3 DEF Way
  <1>3. ASSUME NEW p \in Path, NEW r \in Path, disk'[p] # "none", IsStrictPrefix(r, p)
        PROVE  disk'[r] = "dir"
    <2>1. CASE p \in Way(text)
      BY <1>1, <1>2, <1>3, <2>1 DEF IsStrictPrefix
    <2>2. CASE p \notin Way(text)
      BY <1>1, <1>3, <2>2 DEF Grown
    <2> QED
      BY <2>1, <2>2
  <1> QED
    BY <1>1, <1>3 DEF Grown

LEMMA RemovedIsGrown ==
    ASSUME disk \in Tree, Grown(disk), NEW path \in Text, RemovedFrom(path)
    PROVE  disk' \in Tree /\ Grown(disk')
  BY DEF RemovedFrom, Tree

LEMMA RenamedIsGrown ==
    ASSUME disk \in Tree, Grown(disk), NEW from \in Text, NEW to \in Text,
           CanName(disk, from), CanName(disk, to), CanRename(Leads[from], Leads[to]),
           disk' = Moved(disk, Leads[from], Leads[to])
    PROVE  disk' \in Tree /\ Grown(disk')
  <1>1. /\ Leads[from] \in Path /\ Leads[to] \in Path
        /\ Leads[to] # <<>> /\ disk[Front(Leads[to])] = "dir"
    BY NamedInDir DEF IsDir
  <1>2. CASE Leads[from] = Leads[to]
    BY <1>1, <1>2, MovedNowhere
  <1>3. CASE Leads[from] # Leads[to]
    <2>1. /\ ~IsPrefix(Leads[from], Leads[to])
          /\ disk[Leads[to]] # "dir" \/ Contents(disk, Leads[to]) = NoEntries
      BY <1>3 DEF CanRename
    <2> QED
      BY <1>1, <2>1, GrownMoved
  <1> QED
    BY <1>2, <1>3

-----------------------------------------------------------------------------
(* The invariant.                                                          *)

LEMMA LocalStarts == LocalInit => LocalInv
  <1> SUFFICES ASSUME LocalInit
               PROVE  LocalInv
    OBVIOUS
  <1>1. disk \in Tree /\ \A p \in Path : disk[p] = IF IsPrefix(p, Start) THEN "dir" ELSE "none"
    BY DEF LocalInit, Tree
  <1>2. ASSUME NEW p \in Path, NEW q \in Path, disk[p] # "none", IsStrictPrefix(q, p)
        PROVE  disk[q] = "dir"
    <2>1. /\ p \in Seq(Name) /\ q \in Seq(Name) /\ Start \in Seq(Name)
          /\ IsPrefix(p, Start) /\ IsPrefix(q, p)
      BY <1>1, <1>2, PathAssumption, LocalAssumption DEF IsStrictPrefix
    <2> QED
      BY <1>1, <2>1, PrefixTransitive
  <1>3. Grown(disk)
    BY <1>2 DEF Grown
  <1>4. localRequests \in Seq(LocalFsCommand)
    <2>1. [kind |-> "List", path |-> Start] \in LocalFsCommand
      BY LocalAssumption, TextAssumption DEF LocalFsCommand
    <2> QED
      BY <2>1 DEF LocalInit
  <1>5. localEvents = <<>> /\ localEvents \in Seq(LocalListing) /\ Len(localEvents) = 0
    BY DEF LocalInit
  <1>6. LocalTypeOK
    BY <1>1, <1>3, <1>4, <1>5 DEF LocalInit, LocalTypeOK
  <1>7. NewestIsTrue
    BY <1>5 DEF LocalInit, NewestIsTrue
  <1> QED
    BY <1>6, <1>7 DEF LocalInv

LEMMA UserKeeps == LocalInv /\ LocalUser => LocalInv'
  <1> SUFFICES ASSUME LocalInv, LocalUser
               PROVE  LocalInv'
    OBVIOUS
  <1>1. localShown # NoListing => localShown.path \in Text
    BY DEF LocalInv, LocalTypeOK, LocalListing, ListingsOf
  <1>2. ASSUME NEW kind \in {"List", "Mkdir", "Delete"}, NEW path \in Text,
               LocalAsk([kind |-> kind, path |-> path])
        PROVE  LocalInv'
    <2>1. [kind |-> kind, path |-> path] \in LocalFsCommand
      BY DEF LocalFsCommand
    <2> QED
      BY <1>2, <2>1, AskKeeps
  <1>3. ASSUME NEW n \in Name, LocalOpen(n)
        PROVE  LocalInv'
    BY <1>2, <1>3 DEF LocalOpen, ValidRow
  <1>4. ASSUME NEW p \in Entered, LocalGoto(p)
        PROVE  LocalInv'
    BY <1>2, <1>4, LocalAssumption DEF LocalGoto
  <1>5. CASE LocalRefresh
    BY <1>1, <1>2, <1>5 DEF LocalRefresh
  <1>6. CASE LocalUp
    BY <1>1, <1>2, <1>6, FrontIsText DEF LocalUp
  <1>7. ASSUME NEW typed \in Called, LocalMkdir(typed)
        PROVE  LocalInv'
    BY <1>2, <1>7 DEF LocalMkdir, ValidTarget
  <1>8. ASSUME NEW n \in Name, LocalDelete(n)
        PROVE  LocalInv'
    BY <1>2, <1>8 DEF LocalDelete, ValidRow
  <1>9. ASSUME NEW n \in Name, NEW typed \in Called, LocalRename(n, typed)
        PROVE  LocalInv'
    <2>1. Target(n) \in Text /\ TargetText(typed) \in Text
      BY <1>9 DEF LocalRename, ValidRow, ValidTarget
    <2>2. [kind |-> "Rename", from |-> Target(n), to |-> TargetText(typed)] \in LocalFsCommand
      BY <2>1 DEF LocalFsCommand
    <2> QED
      BY <1>9, <2>2, AskKeeps DEF LocalRename
  <1>10. ASSUME NEW n \in Fetched, StartDownload(n)
         PROVE  LocalInv'
    <2>1. /\ Target(n) \in Text
          /\ download' = [phase |-> "waiting", path |-> Target(n)]
          /\ UNCHANGED <<disk, localRequests, localEvents, localShown, localDrifted>>
      BY <1>10 DEF StartDownload, ValidRow
    <2>2. Target(n) # <<>>
      <3>1. localShown.path \in Seq(Name \cup {"above"}) /\ n \in Name \cup {"above"}
        BY <1>1, <1>10, TextAssumption, LocalAssumption DEF StartDownload, ValidRow
      <3> QED
        BY <3>1, AppendProperties DEF Target
    <2>3. download' \in [phase : {"waiting"}, path : Text \ {<<>>}]
      BY <2>1, <2>2
    <2>4. LocalTypeOK'
      BY <2>1, <2>3 DEF LocalInv, LocalTypeOK
    <2>5. NewestIsTrue'
      BY <2>1 DEF LocalInv, NewestIsTrue
    <2> QED
      BY <2>4, <2>5 DEF LocalInv
  <1> QED
    BY <1>3, <1>4, <1>5, <1>6, <1>7, <1>8, <1>9, <1>10 DEF LocalUser

LEMMA ApplyKeeps == LocalInv /\ ApplyLocalListing => LocalInv'
  <1> SUFFICES ASSUME LocalInv, ApplyLocalListing
               PROVE  LocalInv'
    OBVIOUS
  <1>1. /\ localEvents \in Seq(LocalListing) /\ localEvents # <<>> /\ Len(localEvents) \in Nat \ {0}
        /\ localShown' = localEvents[1] /\ localEvents' = Tail(localEvents)
        /\ UNCHANGED <<disk, localRequests, download, localDrifted>>
    BY EmptySeq DEF LocalInv, LocalTypeOK, ApplyLocalListing
  <1>2. /\ localEvents' \in Seq(LocalListing) /\ Len(localEvents') = Len(localEvents) - 1
        /\ \A i \in 1..Len(localEvents') : localEvents'[i] = localEvents[i + 1]
        /\ localEvents[1] \in LocalListing
    BY <1>1, HeadTailProperties
  <1>3. LocalTypeOK'
    BY <1>1, <1>2 DEF LocalInv, LocalTypeOK
  <1>4. NewestIsTrue'
    <2>1. CASE localEvents' = <<>>
      <3>1. localEvents[Len(localEvents)] = localEvents[1]
        BY <1>1, <2>1, TailKeepsLast
      <3> QED
        BY <1>1, <2>1, <3>1 DEF LocalInv, NewestIsTrue
    <2>2. CASE localEvents' # <<>>
      <3>1. localEvents'[Len(localEvents')] = localEvents[Len(localEvents)]
        BY <1>1, <2>2, TailKeepsLast
      <3> QED
        BY <1>1, <2>2, <3>1 DEF LocalInv, NewestIsTrue
    <2> QED
      BY <2>1, <2>2
  <1> QED
    BY <1>3, <1>4 DEF LocalInv

LEMMA WorkerKeeps == LocalInv /\ LocalWorker => LocalInv'
  <1> SUFFICES ASSUME LocalInv, LocalWorker
               PROVE  LocalInv'
    OBVIOUS
  <1>0. disk \in Tree /\ Grown(disk) /\ localRequests \in Seq(LocalFsCommand)
    BY DEF LocalInv, LocalTypeOK
  <1> DEFINE c == Head(localRequests)
  <1>1. localRequests # <<>> => c \in LocalFsCommand
    BY <1>0
  <1>2. CASE ServeLocalList
    <2>1. c.path \in Text
      BY <1>1, <1>2, CommandFields DEF ServeLocalList, LocalServe
    <2> QED
      BY <1>0, <1>2, <2>1, ListKeeps DEF ServeLocalList
  <1>3. CASE ServeLocalMkdir
    <2>1. c.path \in Text
      BY <1>1, <1>3, CommandFields DEF ServeLocalMkdir, LocalServe
    <2>2. CASE MadeUpTo(c.path) /\ RefreshLocal(c.path)
      BY <1>0, <1>3, <2>1, <2>2, MadeIsGrown, RefreshKeeps DEF ServeLocalMkdir
    <2>3. CASE /\ \E n \in 0..Len(c.path) - 1 : MadeUpTo(SubSeq(c.path, 1, n))
               /\ localDrifted' = (localDrifted \/ disk' # disk)
               /\ UNCHANGED localEvents
      <3>1. PICK n \in 0..Len(c.path) - 1 : MadeUpTo(SubSeq(c.path, 1, n))
        BY <2>3
      <3>2. n \in 0..Len(c.path)
        <4>1. PICK l \in Nat : l = Len(c.path)
          BY <2>1, TextAssumption
        <4>2. n \in 0..l - 1
          BY <4>1
        <4>3. n \in 0..l
          BY <4>2
        <4> QED
          BY <4>1, <4>3
      <3>3. disk' \in Tree /\ Grown(disk')
        BY <1>0, <2>1, <3>1, <3>2, TextBegins, MadeIsGrown
      <3>4. /\ localRequests' = Tail(localRequests) /\ localRequests # <<>>
            /\ UNCHANGED <<localShown, download, localEvents>>
        BY <1>3, <2>3 DEF ServeLocalMkdir, LocalServe
      <3>5. localDrifted' \in BOOLEAN /\ (~localDrifted' => ~localDrifted /\ disk' = disk)
        BY <2>3 DEF LocalInv, LocalTypeOK
      <3>6. LocalTypeOK'
        BY <1>0, <3>3, <3>4, <3>5 DEF LocalInv, LocalTypeOK
      <3>7. NewestIsTrue'
        BY <3>4, <3>5 DEF LocalInv, NewestIsTrue
      <3> QED
        BY <3>6, <3>7 DEF LocalInv
    <2> QED
      BY <1>3, <2>2, <2>3 DEF ServeLocalMkdir
  <1>4. CASE ServeLocalDelete
    <2>1. c.path \in Text
      BY <1>1, <1>4, CommandFields DEF ServeLocalDelete, LocalServe
    <2> QED
      BY <1>0, <1>4, <2>1, RemovedIsGrown, RefreshKeeps DEF ServeLocalDelete
  <1>5. CASE ServeLocalRename
    <2>1. c.from \in Text /\ c.to \in Text
      BY <1>1, <1>5, CommandFields DEF ServeLocalRename, LocalServe
    <2>2. CASE /\ CanName(disk, c.from) /\ CanName(disk, c.to)
               /\ CanRename(Leads[c.from], Leads[c.to])
               /\ disk' = Moved(disk, Leads[c.from], Leads[c.to])
               /\ RefreshLocal(c.to)
      BY <1>0, <1>5, <2>1, <2>2, RenamedIsGrown, RefreshKeeps DEF ServeLocalRename
    <2>3. CASE UNCHANGED <<disk, localEvents, localDrifted>>
      <3>1. /\ localRequests' = Tail(localRequests) /\ localRequests # <<>>
            /\ UNCHANGED <<localShown, download>>
        BY <1>5 DEF ServeLocalRename, LocalServe
      <3> QED
        BY <1>0, <2>3, <3>1 DEF LocalInv, LocalTypeOK, NewestIsTrue
    <2> QED
      BY <1>5, <2>2, <2>3 DEF ServeLocalRename
  <1> QED
    BY <1>2, <1>3, <1>4, <1>5 DEF LocalWorker

LEMMA DownloadsKeep == LocalInv /\ Download => LocalInv'
  <1> SUFFICES ASSUME LocalInv, Download
               PROVE  LocalInv'
    OBVIOUS
  <1>0. disk \in Tree /\ Grown(disk)
    BY DEF LocalInv, LocalTypeOK
  <1>1. download # NoDownload /\ download.phase \in {"waiting", "open"} =>
          /\ download \in [phase : {"waiting", "open"}, path : Text \ {<<>>}]
          /\ download.path \in Text \ {<<>>}
    BY DEF LocalInv, LocalTypeOK
  <1>2. ASSUME NEW path \in Text, CanName(disk, path), disk[Leads[path]] # "dir",
               NEW what \in {"none", "file"}
        PROVE  LET d == [disk EXCEPT ![Leads[path]] = what] IN d \in Tree /\ Grown(d)
    <2>1. Leads[path] \in Path /\ Leads[path] # <<>> /\ disk[Front(Leads[path])] = "dir"
      BY <1>2, NamedInDir DEF IsDir
    <2> QED
      BY <1>0, <1>2, <2>1, GrownWith
  <1>3. CASE OpenDownload
    <2>1. download.path \in Text
      BY <1>1, <1>3 DEF OpenDownload
    <2>2. disk' \in Tree /\ Grown(disk')
      BY <1>2, <1>3, <2>1 DEF OpenDownload
    <2>3. download' \in [phase : {"open"}, path : Text \ {<<>>}]
      BY <1>1, <1>3 DEF OpenDownload
    <2> QED
      BY <1>3, <2>2, <2>3, DownloadKeeps DEF OpenDownload
  <1>4. CASE FailDownload
    <2>1. download.path \in Text
      BY <1>1, <1>4 DEF FailDownload
    <2>2. disk' \in Tree /\ Grown(disk')
      BY <1>0, <1>2, <1>4, <2>1 DEF FailDownload
    <2> QED
      BY <1>4, <2>2, DownloadKeeps DEF FailDownload
  <1>5. CASE ListDownload
    <2> DEFINE dir == Front(download.path)
               made == ListingOf(dir, Contents(disk, Leads[dir]))
    <2>1. /\ UNCHANGED <<disk, localEvents, localRequests, localShown>> /\ localDrifted' = TRUE
          /\ DownloadStep
      BY <1>5 DEF ListDownload, DownloadStep
    <2>2. CASE download' = NoDownload
      BY <1>0, <2>1, <2>2, DownloadKeeps
    <2>3. CASE download' = [phase |-> "listed", listing |-> made]
      <3>1. dir \in Text
        BY <1>1, <1>5, FrontIsText DEF ListDownload
      <3>2. made \in LocalListing
        BY <1>0, <3>1, ListingMade
      <3> HIDE DEF made, dir
      <3>3. download' \in [phase : {"listed"}, listing : LocalListing]
        BY <2>3, <3>2
      <3>4. LocalTypeOK'
        BY <2>1, <3>3 DEF LocalInv, LocalTypeOK
      <3>5. NewestIsTrue'
        BY <2>1 DEF NewestIsTrue
      <3> QED
        BY <3>4, <3>5 DEF LocalInv
    <2> QED
      BY <1>5, <2>2, <2>3 DEF ListDownload
  <1>6. CASE EmitDownload
    <2>1. /\ UNCHANGED <<disk, localRequests, localShown>> /\ localDrifted' = TRUE
          /\ download' = NoDownload /\ localEvents' = Append(localEvents, download.listing)
      BY <1>6 DEF EmitDownload, DownloadStep
    <2>2. download.listing \in LocalListing
      BY <1>6 DEF LocalInv, LocalTypeOK, EmitDownload
    <2>3. localEvents' \in Seq(LocalListing)
      BY <2>1, <2>2, AppendProperties DEF LocalInv, LocalTypeOK
    <2>4. LocalTypeOK'
      BY <2>1, <2>3 DEF LocalInv, LocalTypeOK
    <2>5. NewestIsTrue'
      BY <2>1 DEF NewestIsTrue
    <2> QED
      BY <2>4, <2>5 DEF LocalInv
  <1> QED
    BY <1>3, <1>4, <1>5, <1>6 DEF Download

LEMMA LocalInvHolds == LocalSpec => []LocalInv
  <1>1. LocalInv /\ UNCHANGED localVars => LocalInv'
    BY DEF LocalInv, LocalTypeOK, NewestIsTrue, localVars
  <1>2. LocalInv /\ [LocalNext]_localVars => LocalInv'
    BY <1>1, UserKeeps, ApplyKeeps, WorkerKeeps, DownloadsKeep DEF LocalNext
  <1> QED
    BY <1>2, LocalStarts, PTL DEF LocalSpec

-----------------------------------------------------------------------------

\* Whatever the user asks and however much of it fails halfway, what hangs on
\* the disk hangs below directories; and whatever is typed, with separators,
\* "." and ".." in it, commands, listings and downloads name texts of paths
\* (app.rs:229-250, 746-814, local.rs:88-90).
THEOREM LocalTyped == LocalSpec => []LocalTypeOK
  <1>1. LocalInv => LocalTypeOK
    BY DEF LocalInv
  <1> QED
    BY <1>1, LocalInvHolds, PTL

\* At rest the panel shows the disk as it is (app.rs:746-803), but for what no
\* listing follows.
THEOREM LocalPanelsAreTrue == LocalSpec => []LocalPanelIsTrue
  <1>1. LocalInv => LocalPanelIsTrue
    BY DEF LocalInv, NewestIsTrue, Shows, LocalPanelIsTrue
  <1> QED
    BY <1>1, LocalInvHolds, PTL
=============================================================================
