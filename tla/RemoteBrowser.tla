--------------------------- MODULE RemoteBrowser ---------------------------
(***************************************************************************)
(* Browsing the server: the remote panel of the window (its callbacks in   *)
(* src/src/app.rs and file_panel.slint), the control worker that serves    *)
(* its commands on one FTP session, and the listings both it and finished  *)
(* uploads send back.                                                      *)
(*                                                                         *)
(* Three pieces of state that ought to agree live in three places: the     *)
(* path and rows on screen, the working directory of the session, and the  *)
(* row that was chosen last.  Commands and listings cross each other.      *)
(*                                                                         *)
(* The server is external: a tree of files and directories that refuses    *)
(* what makes no sense and may refuse anything else; a refusal changes     *)
(* nothing.                                                                *)
(***************************************************************************)
EXTENDS Trees

CONSTANTS
    Home,           \* the directory a login starts in
    NoSession,      \* Option::None of the control worker's session
    NoRow,          \* no row chosen yet
    NoMenu,         \* no menu open
    NoUpload,       \* no upload under way
    Typed,          \* bound: the paths that are typed into the path line
    Named,          \* bound: what is typed as a name, split at "/"
    Chosen,         \* bound: the names of the local files that are uploaded
    MaxEntries,     \* bound on the files and directories of the server
    MaxRequests,    \* bound on the commands the user leaves unserved
    MaxEvents       \* bound on the listings left unapplied

ASSUME HomeAssumption == Home \in Path
ASSUME InputAssumption ==
    Typed \subseteq Text /\ Named \subseteq Seq(Part) \ {<<>>} /\ Chosen \subseteq Name
ASSUME NoRowAssumption == NoRow \notin Name
ASSUME BrowserBounds == {MaxEntries, MaxRequests, MaxEvents} \subseteq Nat \ {0}

VARIABLES
    \* the server
    tree,           \* what is at each path: "none", "file" or "dir"
    \* the control worker
    requests,       \* FtpCommand values not yet received, oldest first
    session,        \* the working directory of its session
    \* the user interface
    events,         \* listings in the event loop, oldest first
    shown,          \* remote-path and remote-files
    selected,       \* FilePanel.selected
    menu,           \* the directory a row's menu was opened in, or NoMenu
    \* scheduler and transfer threads
    configured,     \* cfg.is_some()
    upload,         \* an upload to a directory of the panel
    \* history
    drifted,        \* why the panel may differ from the session, see PanelIsTrue
    stale           \* why the rows may be out of date, see RowsAreCurrent

browserVars ==
    <<tree, requests, session, events, shown, selected, menu, configured, upload,
      drifted, stale>>

Listing == ListingsOf(Path)

Request == [kind : {"Connect", "Quit"}]
             \cup [kind : {"List", "Mkdir", "Delete", "EnqueueTransfers"}, path : Path]
             \cup [kind : {"Navigate"}, path : Text, relative : BOOLEAN]
             \cup [kind : {"Rename"}, from : Path, to : Path]

BrowserInit ==
    /\ tree = [p \in Path |-> IF IsPrefix(p, Home) THEN "dir" ELSE "none"]
    /\ requests = <<>>
    /\ session = NoSession
    /\ events = <<>>
    /\ shown = ListingOf(<<>>, NoEntries)
    /\ selected = NoRow
    /\ menu = NoMenu
    /\ configured = FALSE
    /\ upload = NoUpload
    /\ drifted = FALSE
    /\ stale = TRUE

-----------------------------------------------------------------------------
(* The server.                                                             *)

Room(t) == Cardinality({p \in Path : t[p] # "none"}) <= MaxEntries

CanMake(p) == tree[p] = "none" /\ p # <<>> /\ IsDir(tree, Front(p))

\* DELE takes files, RMD empty directories.
CanRemove(p) ==
    /\ p # <<>>
    /\ tree[p] # "none"
    /\ Contents(tree, p) = NoEntries

\* RNTO may replace a file by a file, and anything by itself.
CanMove(from, to) ==
    /\ tree[from] # "none"
    /\ to # <<>> /\ IsDir(tree, Front(to))
    /\ \/ from = to
       \/ /\ ~IsPrefix(from, to)
          /\ tree[to] = "none" \/ {tree[from], tree[to]} = {"file"}
    /\ Fits(tree, from, to)

-----------------------------------------------------------------------------
(* The panel.                                                              *)

\* Everything the user asked for has been answered and shown.
Quiet == requests = <<>> /\ events = <<>>

Ask(request) ==
    /\ Len(requests) < MaxRequests
    /\ requests' = Append(requests, request)
    /\ drifted' = (drifted \/ ~Quiet)
    /\ UNCHANGED <<tree, session, events, shown, configured, upload, stale>>

\* join_remote, for a row.
Joined(n) == Append(shown.path, n)

\* join_remote, for a typed name: a separator before it does not lead to the
\* root, but what is typed may lead out of the directory that is shown.
JoinedText(typed) == shown.path \o Kept(typed)

\* Mutant of Choose: the whole path is kept as the selection.
ChoosePath(n) ==
    /\ n \in DOMAIN shown.entries
    /\ selected' = Joined(n)

Choose(n) ==
    /\ n \in DOMAIN shown.entries
    /\ selected' = n

SelectRow(n) ==
    /\ Choose(n)
    /\ UNCHANGED <<tree, requests, session, events, shown, menu, configured, upload, drifted,
                   stale>>

\* A right click.  The menu, and the rename dialog after it, leave the rest of
\* the window alone but not the threads that serve it.
OpenMenu(n) ==
    /\ Choose(n)
    /\ menu' = shown.path
    /\ UNCHANGED <<tree, requests, session, events, shown, configured, upload, drifted,
                   stale>>

CloseMenu ==
    /\ menu # NoMenu
    /\ menu' = NoMenu
    /\ UNCHANGED <<tree, requests, session, events, shown, selected, configured, upload, drifted,
                   stale>>

OpenDir(n) ==
    /\ Choose(n)
    /\ shown.entries[n] = "dir"
    /\ Ask([kind |-> "Navigate", path |-> Joined(n), relative |-> FALSE])
    /\ UNCHANGED menu

\* The path line takes any path and hands it on as it is.
Goto(p, relative) ==
    /\ Ask([kind |-> "Navigate", path |-> p, relative |-> relative])
    /\ UNCHANGED <<selected, menu>>

\* At the root there is nowhere to go.
Up ==
    /\ shown.path # <<>>
    /\ Ask([kind |-> "Navigate", path |-> Front(shown.path), relative |-> FALSE])
    /\ UNCHANGED <<selected, menu>>

RefreshPanel ==
    /\ Ask([kind |-> "List", path |-> shown.path])
    /\ UNCHANGED <<selected, menu>>

MakeDirectory(typed) ==
    /\ ValidName(typed)
    /\ JoinedText(typed) \in Text
    /\ Ask([kind |-> "Mkdir", path |-> Leads[JoinedText(typed)]])
    /\ UNCHANGED <<selected, menu>>

\* The menu names the row by the name that is selected, the directory by the
\* path that is shown by now.
DeleteSelected ==
    /\ menu # NoMenu
    /\ menu' = NoMenu
    /\ Joined(selected) \in Path
    /\ Ask([kind |-> "Delete", path |-> Joined(selected)])
    /\ UNCHANGED selected

\* The new name may be a path: what is renamed then moves.
RenameSelected(typed) ==
    /\ menu # NoMenu
    /\ menu' = NoMenu
    /\ typed # <<selected>> /\ ValidName(typed)
    /\ Joined(selected) \in Path /\ JoinedText(typed) \in Text
    /\ Ask([kind |-> "Rename", from |-> Joined(selected), to |-> Leads[JoinedText(typed)]])
    /\ UNCHANGED selected

QuickConnectAgain == Ask([kind |-> "Connect"]) /\ UNCHANGED <<selected, menu>>
Disconnect == Ask([kind |-> "Quit"]) /\ UNCHANGED <<selected, menu>>

\* upload_local_file: the target is joined to the path on screen.
ChooseUpload(n) ==
    /\ Joined(n) \in Path
    /\ Ask([kind |-> "EnqueueTransfers", path |-> Joined(n)])
    /\ UNCHANGED <<selected, menu>>

\* apply_event: the path and the rows are replaced, the selection is not.
ApplyListing ==
    /\ events # <<>>
    /\ shown' = Head(events)
    /\ events' = Tail(events)
    /\ UNCHANGED <<tree, requests, session, selected, menu, configured, upload, drifted,
                   stale>>

Window ==
    \/ \E n \in Name : SelectRow(n) \/ OpenMenu(n) \/ OpenDir(n)
    \/ \E typed \in Named : MakeDirectory(typed)
    \/ \E p \in Typed, relative \in BOOLEAN : Goto(p, relative)
    \/ Up \/ RefreshPanel \/ QuickConnectAgain \/ Disconnect
    \/ \E n \in Chosen : ChooseUpload(n)

User ==
    \/ menu = NoMenu /\ Window
    \/ DeleteSelected \/ (\E typed \in Named : RenameSelected(typed)) \/ CloseMenu

-----------------------------------------------------------------------------
(* The control worker.                                                     *)

Serve(kind) ==
    /\ requests # <<>>
    /\ Head(requests).kind = kind
    /\ requests' = Tail(requests)
    /\ Len(events) < MaxEvents
    /\ UNCHANGED <<shown, selected, menu>>

\* refresh_listing: PWD, then a listing of the working directory.  It shows
\* the session as it is if nothing else is on its way to the panel.
ListWorkingDir(dir, t) ==
    \/ /\ IsDir(t, dir)
       /\ events' = Append(events, ListingOf(dir, Contents(t, dir)))
       /\ drifted' = (drifted /\ ~(Len(requests) = 1 /\ events = <<>>))
       /\ stale' = FALSE
    \/ /\ drifted' = TRUE
       /\ stale' = (stale \/ t # tree)
       /\ UNCHANGED events

\* Most commands: refused and reported, with nothing changed.
Refused == UNCHANGED <<tree, session, events, drifted, stale>>

NoTransfer == UNCHANGED <<configured, upload>>

\* with_session: without a session a command is answered by an error.
NoSessionFor(kind) == Serve(kind) /\ session = NoSession /\ Refused /\ NoTransfer

\* A failed login leaves the old session in place.
ServeConnect ==
    /\ Serve("Connect")
    /\ \/ /\ session' = Home
          /\ configured' = TRUE
          /\ ListWorkingDir(Home, tree)
          /\ UNCHANGED tree
       \/ Refused /\ UNCHANGED configured
    /\ UNCHANGED upload

ServeQuit ==
    /\ Serve("Quit")
    /\ session' = NoSession
    /\ UNCHANGED <<tree, events, drifted, stale>> /\ NoTransfer

\* Mutant of ServeList: the working directory is listed under the path asked for.
ServeListHere ==
    /\ Serve("List") /\ NoTransfer
    /\ session # NoSession
    /\ LET dir == Head(requests).path
       IN  \/ /\ IsDir(tree, session)
              /\ events' = Append(events, ListingOf(dir, Contents(tree, session)))
              /\ stale' = FALSE
              /\ UNCHANGED <<tree, session, drifted>>
           \/ Refused

\* Lists the path on screen and leaves the working directory alone.
ServeList ==
    /\ Serve("List") /\ NoTransfer
    /\ session # NoSession
    /\ LET dir == Head(requests).path
       IN  \/ /\ IsDir(tree, dir)
              /\ events' = Append(events, ListingOf(dir, Contents(tree, dir)))
              /\ stale' = FALSE
              /\ UNCHANGED <<tree, session, drifted>>
           \/ Refused

ServeNavigate ==
    /\ Serve("Navigate") /\ NoTransfer
    /\ session # NoSession
    /\ LET path == Head(requests).path
           text == IF Head(requests).relative THEN session \o path ELSE path
       IN  \/ /\ text \in Text /\ IsDir(tree, Leads[text])
              /\ session' = Leads[text]
              /\ ListWorkingDir(Leads[text], tree)
              /\ UNCHANGED tree
           \/ Refused

ServeMkdir ==
    /\ Serve("Mkdir") /\ NoTransfer
    /\ session # NoSession
    /\ \/ /\ CanMake(Head(requests).path)
          /\ tree' = [tree EXCEPT ![Head(requests).path] = "dir"]
          /\ Room(tree')
          /\ ListWorkingDir(session, tree')
          /\ UNCHANGED session
       \/ Refused

\* Mutant of ServeDelete: it is done when DELE succeeds.
ServeDeleteReturns ==
    /\ Serve("Delete") /\ NoTransfer
    /\ session # NoSession
    /\ LET path == Head(requests).path
       IN  \/ /\ CanRemove(path)
              /\ tree' = [tree EXCEPT ![path] = "none"]
              /\ IF tree[path] = "file" THEN UNCHANGED <<events, drifted, stale>>
                 ELSE ListWorkingDir(session, tree')
           \/ UNCHANGED tree /\ ListWorkingDir(session, tree)
    /\ UNCHANGED session

\* DELE, or else RMD; the directory is listed whether either worked or not.
ServeDelete ==
    /\ Serve("Delete") /\ NoTransfer
    /\ session # NoSession
    /\ LET path == Head(requests).path
       IN  \/ CanRemove(path) /\ tree' = [tree EXCEPT ![path] = "none"]
           \/ UNCHANGED tree
    /\ ListWorkingDir(session, tree')
    /\ UNCHANGED session

ServeRename ==
    /\ Serve("Rename") /\ NoTransfer
    /\ session # NoSession
    /\ LET from == Head(requests).from
           to == Head(requests).to
       IN  \/ /\ CanMove(from, to)
              /\ tree' = Moved(tree, from, to)
              /\ ListWorkingDir(session, tree')
              /\ UNCHANGED session
           \/ Refused

\* The scheduler drops what it is given before the first login.
ServeEnqueue ==
    /\ Serve("EnqueueTransfers")
    /\ upload = NoUpload
    /\ upload' = IF configured THEN [phase |-> "waiting", path |-> Head(requests).path]
                               ELSE NoUpload
    /\ UNCHANGED <<tree, session, events, drifted, stale, configured>>

Worker ==
    \/ ServeConnect \/ ServeQuit \/ ServeEnqueue \/ ServeList \/ ServeNavigate
    \/ ServeMkdir \/ ServeDelete \/ ServeRename
    \/ \E kind \in {"List", "Navigate", "Mkdir", "Delete", "Rename"} : NoSessionFor(kind)

-----------------------------------------------------------------------------
(* An upload, on a session of its own; TransferQueue and TransferFiles say *)
(* when it starts and what it writes.                                      *)

UploadStep ==
    /\ UNCHANGED <<requests, session, shown, selected, menu, configured>>
    /\ drifted' = TRUE
    /\ stale' = TRUE

StoreUpload ==
    /\ upload # NoUpload /\ upload.phase = "waiting"
    /\ CanMake(upload.path) \/ tree[upload.path] = "file"
    /\ tree' = [tree EXCEPT ![upload.path] = "file"]
    /\ Room(tree')
    /\ upload' = [upload EXCEPT !.phase = "stored"]
    /\ UploadStep /\ UNCHANGED events

\* An upload that fails removes the bare name from the directory its session is
\* in, the login directory if it could not enter its own, or fails at that.
FailUpload ==
    /\ upload # NoUpload /\ upload.phase \in {"waiting", "stored"}
    /\ \/ UNCHANGED tree
       \/ \E dir \in {Front(upload.path)} \cup (IF upload.phase = "waiting" THEN {Home} ELSE {}) :
            LET p == Append(dir, Last(upload.path))
            IN  /\ p \in Path /\ tree[p] = "file"
                /\ tree' = [tree EXCEPT ![p] = "none"]
    /\ upload' = NoUpload
    /\ UploadStep /\ UNCHANGED events

\* refresh_remote_after_upload lists the directory of the target ...
ListUpload ==
    /\ upload # NoUpload /\ upload.phase = "stored"
    /\ LET dir == Front(upload.path)
       IN  \/ /\ IsDir(tree, dir)
              /\ upload' = [phase |-> "listed",
                            listing |-> ListingOf(dir, Contents(tree, dir))]
           \/ upload' = NoUpload
    /\ UploadStep /\ UNCHANGED <<tree, events>>

\* ... and sends the listing, which replaces what the panel shows.
EmitUpload ==
    /\ upload # NoUpload /\ upload.phase = "listed"
    /\ Len(events) < MaxEvents
    /\ events' = Append(events, upload.listing)
    /\ upload' = NoUpload
    /\ UploadStep /\ UNCHANGED tree

Upload == StoreUpload \/ FailUpload \/ ListUpload \/ EmitUpload

BrowserNext == User \/ ApplyListing \/ Worker \/ Upload

BrowserSpec == BrowserInit /\ [][BrowserNext]_browserVars

-----------------------------------------------------------------------------

BrowserTypeOK ==
    /\ tree \in Tree
    /\ requests \in Seq(Request)
    /\ session \in Path \cup {NoSession}
    /\ events \in Seq(Listing)
    /\ shown \in Listing
    /\ selected \in Name \cup {NoRow}
    /\ upload \in {NoUpload}
                    \cup [phase : {"waiting", "stored"}, path : Path]
                    \cup [phase : {"listed"}, listing : Listing]
    /\ menu \in Path \cup {NoMenu}
    /\ menu # NoMenu => selected # NoRow
    /\ {configured, drifted, stale} \subseteq BOOLEAN
    /\ Grown(tree)     \* whatever is moved or removed

\* Once the listings have been applied, the rows are what is in the directory
\* that the path above them names, although commands name directories that were
\* shown when they were given, the session may be elsewhere by the time they
\* are served, and each lists what it lists.  Excepted is, until the next
\* listing of the control worker, a change that no listing followed because
\* it failed, and an upload, which may store a file, remove one or send a
\* listing that was read before.
RowsAreCurrent ==
    events = <<>> /\ ~stale =>
        /\ IsDir(tree, shown.path)
        /\ shown.entries = Contents(tree, shown.path)

\* At rest the panel shows the working directory of the session as it is,
\* although the two are changed in different threads, unless something named
\* here happened since the last listing that was sent in peace: a command
\* given before the last one was answered and shown, a listing that failed,
\* or an upload.
PanelIsTrue ==
    Quiet /\ ~drifted /\ session # NoSession =>
        /\ shown.path = session
        /\ shown.entries = Contents(tree, session)

\* "A context menu" with delete and rename for the row it is opened on
\* (DEVELOPMENT.md:204): the panel shows the directory it was opened in when the
\* command is given, so that the command names that very entry.
MenuActsOnRow ==
    [][DeleteSelected \/ (\E typed \in Named : RenameSelected(typed)) => menu = shown.path]_browserVars
=============================================================================
