----------------------------- MODULE LocalPanel -----------------------------
(***************************************************************************)
(* Browsing the local disk: the callbacks of the local panel and the local *)
(* worker behind them (src/src/app.rs), what the worker asks of the disk   *)
(* (src/src/core/local.rs), and the listing that a finished download sends *)
(* to the panel on its own (src/src/core/queue.rs).                        *)
(*                                                                         *)
(* The worker keeps nothing between two commands: each names its paths in  *)
(* full, as the panel showed them when it was given.  The disk is external *)
(* and nobody else changes it; any call to it may fail, and those that do  *)
(* more than one thing may fail halfway.                                   *)
(*                                                                         *)
(* A menu may name a row of a directory that is no longer shown (see       *)
(* RemoteBrowser, the panels are alike): here any name may be chosen.      *)
(***************************************************************************)
EXTENDS Trees

CONSTANTS
    Start,          \* the directory the program begins to browse in
    Entered,        \* bound: the absolute paths typed into the path line
    Called,         \* bound: what is typed as a name, split at "/"
    Fetched,        \* bound: the names of the remote files that are downloaded
    NoListing,      \* the panel before its first listing
    NoDownload,     \* no download under way
    MaxLocalRequests, \* bound on the commands left unserved
    MaxLocalEvents  \* bound on the listings left unapplied

ASSUME LocalAssumption ==
    /\ Start \in Path /\ Entered \subseteq Text
    /\ Called \subseteq Seq(Part) \ {<<>>} /\ Fetched \subseteq Name
    /\ {MaxLocalRequests, MaxLocalEvents} \subseteq Nat \ {0}

VARIABLES
    disk,           \* what is at each path: "none", "file" or "dir"
    localRequests,  \* LocalFsCommand values not yet received, oldest first
    localEvents,    \* listings in the event loop, oldest first
    localShown,     \* local-path and local-files
    download,       \* a download to a directory of the panel
    localDrifted    \* history: why the panel may be wrong, see LocalPanelIsTrue

localVars == <<disk, localRequests, localEvents, localShown, download, localDrifted>>

LocalListing == ListingsOf(Text)

LocalFsCommand == [kind : {"List", "Mkdir", "Delete"}, path : Text]
                    \cup [kind : {"Rename"}, from : Text, to : Text]

\* open_initial_local
LocalInit ==
    /\ disk = [p \in Path |-> IF IsPrefix(p, Start) THEN "dir" ELSE "none"]
    /\ localRequests = <<[kind |-> "List", path |-> Start]>>
    /\ localEvents = <<>>
    /\ localShown = NoListing
    /\ download = NoDownload
    /\ localDrifted = FALSE

-----------------------------------------------------------------------------
(* The panel.                                                              *)

LocalAsk(command) ==
    /\ Len(localRequests) < MaxLocalRequests
    /\ localRequests' = Append(localRequests, command)
    /\ UNCHANGED <<disk, localEvents, localShown, download, localDrifted>>

\* local_fs::join, for a row.
Target(n) == Append(localShown.path, n)

\* local_fs::join, for a typed name: one that begins with a separator takes
\* the place of the directory that is shown, and ".." stays in the text.
TargetText(typed) ==
    IF Len(typed) > 1 /\ Head(typed) = "nothing" THEN Kept(typed)
    ELSE localShown.path \o Kept(typed)

\* valid_target (and the bounds)
ValidRow(n) == localShown # NoListing /\ Target(n) \in Text
ValidTarget(typed) == localShown # NoListing /\ ValidName(typed) /\ TargetText(typed) \in Text

LocalOpen(n) ==
    /\ ValidRow(n)
    /\ n \in DOMAIN localShown.entries /\ localShown.entries[n] = "dir"
    /\ LocalAsk([kind |-> "List", path |-> Target(n)])

LocalGoto(p) == LocalAsk([kind |-> "List", path |-> p])

LocalRefresh ==
    /\ localShown # NoListing
    /\ LocalAsk([kind |-> "List", path |-> localShown.path])

\* The text loses its last part, whatever that is.
LocalUp ==
    /\ localShown # NoListing /\ localShown.path # <<>>
    /\ LocalAsk([kind |-> "List", path |-> Front(localShown.path)])

LocalMkdir(typed) ==
    /\ ValidTarget(typed)
    /\ LocalAsk([kind |-> "Mkdir", path |-> TargetText(typed)])

LocalDelete(n) ==
    /\ ValidRow(n)
    /\ LocalAsk([kind |-> "Delete", path |-> Target(n)])

LocalRename(n, typed) ==
    /\ ValidRow(n) /\ ValidTarget(typed) /\ typed # <<n>>
    /\ LocalAsk([kind |-> "Rename", from |-> Target(n), to |-> TargetText(typed)])

\* download_remote_file: the target is joined to the path on screen.  (Before
\* there is one, the file would go where the program was started.)
StartDownload(n) ==
    /\ download = NoDownload
    /\ ValidRow(n)
    /\ download' = [phase |-> "waiting", path |-> Target(n)]
    /\ UNCHANGED <<disk, localRequests, localEvents, localShown, localDrifted>>

ApplyLocalListing ==
    /\ localEvents # <<>>
    /\ localShown' = Head(localEvents)
    /\ localEvents' = Tail(localEvents)
    /\ UNCHANGED <<disk, localRequests, download, localDrifted>>

LocalUser ==
    \/ \E n \in Name : LocalOpen(n)
    \/ \E p \in Entered : LocalGoto(p)
    \/ LocalRefresh \/ LocalUp
    \/ \E typed \in Called : LocalMkdir(typed)
    \/ \E n \in Name : LocalDelete(n) \/ (\E typed \in Called : LocalRename(n, typed))
    \/ \E n \in Fetched : StartDownload(n)

-----------------------------------------------------------------------------
(* The local worker.                                                       *)

LocalServe(kind) ==
    /\ localRequests # <<>>
    /\ Head(localRequests).kind = kind
    /\ localRequests' = Tail(localRequests)
    /\ Len(localEvents) < MaxLocalEvents
    /\ UNCHANGED <<localShown, download>>

\* list_dir of what the disk is by now, or an error.
LocalList(dir) ==
    \/ /\ Reached(disk', dir)
       /\ localEvents' = Append(localEvents, ListingOf(dir, Contents(disk', Leads[dir])))
       /\ localDrifted' = (localDrifted /\ download # NoDownload)
    \/ /\ UNCHANGED localEvents
       /\ localDrifted' = (localDrifted \/ disk' # disk)

\* refresh_local: the parent of the text.
RefreshLocal(path) == LocalList(IF path = <<>> THEN path ELSE Front(path))

ServeLocalList ==
    /\ LocalServe("List")
    /\ UNCHANGED disk
    /\ LocalList(Head(localRequests).path)

\* What has to be there before, and on the way to, what a text leads to.
Way(text) == {p \in Path : \E n \in 0..Len(text) : IsPrefix(p, Leads[SubSeq(text, 1, n)])}

\* Mutant of MadeUpTo: only what the text leads to is made.
MadeLast(text) ==
    /\ disk[Leads[text]] # "file"
    /\ disk' = [disk EXCEPT ![Leads[text]] = "dir"]

\* create_dir_all: a directory that ".." steps out of is made too.
MadeUpTo(text) ==
    /\ \A p \in Way(text) : disk[p] # "file"
    /\ disk' = [p \in Path |-> IF p \in Way(text) THEN "dir" ELSE disk[p]]

\* What it made before it failed is not shown.
ServeLocalMkdir ==
    /\ LocalServe("Mkdir")
    /\ LET path == Head(localRequests).path
       IN  \/ MadeUpTo(path) /\ RefreshLocal(path)
           \/ /\ \E n \in 0..Len(path) - 1 : MadeUpTo(SubSeq(path, 1, n))
              /\ localDrifted' = (localDrifted \/ disk' # disk)
              /\ UNCHANGED localEvents

\* remove_dir_all or remove_file, as far as it gets.
RemovedFrom(path) ==
    \/ UNCHANGED disk
    \/ /\ CanName(disk, path)
       /\ \E gone \in SUBSET {p \in Path : IsPrefix(Leads[path], p)} :
            disk' = [p \in Path |-> IF p \in gone THEN "none" ELSE disk[p]]
       /\ Grown(disk')

\* Mutant of ServeLocalDelete: like the others, it returns when it fails.
ServeLocalDeleteReturns ==
    /\ LocalServe("Delete")
    /\ LET path == Head(localRequests).path
       IN  /\ RemovedFrom(path)
           /\ IF disk'[Leads[path]] = "none" THEN RefreshLocal(path)
              ELSE UNCHANGED <<localEvents, localDrifted>>

\* The parent is listed whether it worked or not.
ServeLocalDelete ==
    /\ LocalServe("Delete")
    /\ LET path == Head(localRequests).path
       IN  RemovedFrom(path) /\ RefreshLocal(path)

\* fs::rename replaces a file by a file, an empty directory by a directory.
CanRename(from, to) ==
    /\ disk[from] # "none"
    /\ \/ from = to
       \/ /\ ~IsPrefix(from, to)
          /\ \/ disk[to] = "none"
             \/ disk[to] = disk[from] /\ Contents(disk, to) = NoEntries
    /\ Fits(disk, from, to)

ServeLocalRename ==
    /\ LocalServe("Rename")
    /\ LET from == Head(localRequests).from
           to == Head(localRequests).to
       IN  \/ /\ CanName(disk, from) /\ CanName(disk, to)
              /\ CanRename(Leads[from], Leads[to])
              /\ disk' = Moved(disk, Leads[from], Leads[to])
              /\ RefreshLocal(to)
           \/ UNCHANGED <<disk, localEvents, localDrifted>>

LocalWorker == ServeLocalList \/ ServeLocalMkdir \/ ServeLocalDelete \/ ServeLocalRename

-----------------------------------------------------------------------------
(* A download, on a thread of its own; TransferQueue and TransferFiles say *)
(* when it starts and what it writes.                                      *)

DownloadStep ==
    /\ UNCHANGED <<localRequests, localShown>>
    /\ localDrifted' = TRUE

OpenDownload ==
    /\ download # NoDownload /\ download.phase = "waiting"
    /\ CanName(disk, download.path) /\ disk[Leads[download.path]] # "dir"
    /\ disk' = [disk EXCEPT ![Leads[download.path]] = "file"]
    /\ download' = [download EXCEPT !.phase = "open"]
    /\ DownloadStep /\ UNCHANGED localEvents

\* remove_partial, before the file was opened too; it may itself fail.
FailDownload ==
    /\ download # NoDownload /\ download.phase \in {"waiting", "open"}
    /\ \/ UNCHANGED disk
       \/ /\ CanName(disk, download.path) /\ disk[Leads[download.path]] = "file"
          /\ disk' = [disk EXCEPT ![Leads[download.path]] = "none"]
    /\ download' = NoDownload
    /\ DownloadStep /\ UNCHANGED localEvents

\* refresh_local_after_download lists the directory of the file ...
ListDownload ==
    /\ download # NoDownload /\ download.phase = "open"
    /\ LET dir == Front(download.path)
       IN  \/ /\ Reached(disk, dir)
              /\ download' = [phase |-> "listed",
                              listing |-> ListingOf(dir, Contents(disk, Leads[dir]))]
           \/ download' = NoDownload
    /\ DownloadStep /\ UNCHANGED <<disk, localEvents>>

\* ... and sends the listing, which replaces what the panel shows.
EmitDownload ==
    /\ download # NoDownload /\ download.phase = "listed"
    /\ Len(localEvents) < MaxLocalEvents
    /\ localEvents' = Append(localEvents, download.listing)
    /\ download' = NoDownload
    /\ DownloadStep /\ UNCHANGED disk

Download == OpenDownload \/ FailDownload \/ ListDownload \/ EmitDownload

LocalNext == LocalUser \/ ApplyLocalListing \/ LocalWorker \/ Download

LocalSpec == LocalInit /\ [][LocalNext]_localVars

-----------------------------------------------------------------------------

LocalTypeOK ==
    /\ disk \in Tree /\ Grown(disk)
    /\ localRequests \in Seq(LocalFsCommand)
    /\ localEvents \in Seq(LocalListing)
    /\ localShown \in LocalListing \cup {NoListing}
    /\ download \in {NoDownload}
                      \cup [phase : {"waiting", "open"}, path : Text \ {<<>>}]
                      \cup [phase : {"listed"}, listing : LocalListing]
    /\ localDrifted \in BOOLEAN

\* At rest the panel shows its directory as it is on the disk, however commands
\* and listings crossed: the panel may have moved on since a command was given,
\* a typed name may lead to another directory, and deleting may have failed
\* halfway.  Excepted is only, until the next listing of the worker, what no
\* listing follows: a download, mkdir that failed halfway, or a listing that
\* failed after something was changed.
LocalPanelIsTrue ==
    localRequests = <<>> /\ localEvents = <<>> /\ ~localDrifted /\ localShown # NoListing =>
        /\ Reached(disk, localShown.path)
        /\ localShown.entries = Contents(disk, Leads[localShown.path])
=============================================================================
