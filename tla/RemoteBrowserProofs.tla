------------------------ MODULE RemoteBrowserProofs ------------------------
(***************************************************************************)
(* The remote panel, for every set of names and paths and every length of  *)
(* the channels: its types, that its rows are up to date once the listings *)
(* have been applied, and that at rest it shows the working directory of   *)
(* the session.                                                            *)
(***************************************************************************)
EXTENDS RemoteBrowser, TreesProofs

\* An upload goes to a name in a directory.
HasName(request) == request.kind = "EnqueueTransfers" => request.path # <<>>

Naming ==
    /\ \A i \in 1..Len(requests) : HasName(requests[i])
    /\ upload # NoUpload /\ upload.phase \in {"waiting", "stored"} => upload.path # <<>>

\* The rows of a listing have paths.
Rooted(listing) ==
    \A n \in DOMAIN listing.entries : Append(listing.path, n) \in Path

AllRooted ==
    /\ Rooted(shown)
    /\ \A i \in 1..Len(events) : Rooted(events[i])
    /\ upload # NoUpload /\ upload.phase = "listed" => Rooted(upload.listing)

Current(listing) ==
    IsDir(tree, listing.path) /\ listing.entries = Contents(tree, listing.path)

\* The newest listing is up to date.
NewestIsCurrent ==
    ~stale =>
        /\ events # <<>> => Current(events[Len(events)])
        /\ events = <<>> => Current(shown)

ShowsSession(listing) == listing.path = session /\ listing.entries = Contents(tree, session)

\* In peace there is one command or one listing under way; the newest listing
\* shows the session, and a refresh asks for what it shows.
Peaceful ==
    ~drifted =>
        /\ Len(requests) <= 1 /\ Len(events) <= 1
        /\ requests = <<>> \/ events = <<>>
        /\ session # NoSession =>
             /\ events # <<>> => ShowsSession(events[1])
             /\ events = <<>> => ShowsSession(shown)
             /\ requests # <<>> /\ requests[1].kind = "List" => requests[1].path = session

BrowserInv == BrowserTypeOK /\ Naming /\ AllRooted /\ NewestIsCurrent /\ Peaceful

-----------------------------------------------------------------------------
(* The pieces the actions are made of.                                     *)

LEMMA ListingMade ==
    ASSUME NEW t \in Tree, NEW dir \in Path
    PROVE  /\ ListingOf(dir, Contents(t, dir)) \in Listing
           /\ Rooted(ListingOf(dir, Contents(t, dir)))
           /\ ListingOf(dir, Contents(t, dir)).path = dir
           /\ ListingOf(dir, Contents(t, dir)).entries = Contents(t, dir)
  <1>1. Contents(t, dir) \in Entries
    BY ContentsAreEntries
  <1>2. \A n \in DOMAIN Contents(t, dir) : Append(dir, n) \in Path
    BY DEF Contents
  <1>3. Rooted(ListingOf(dir, Contents(t, dir)))
    BY <1>2 DEF ListingOf, Rooted
  <1> QED
    BY <1>1, <1>3 DEF ListingOf, ListingsOf, Listing

\* Which fields a command has.
LEMMA RequestFields ==
    ASSUME NEW r \in Request
    PROVE  /\ r.kind \in {"List", "Mkdir", "Delete", "EnqueueTransfers"} => r.path \in Path
           /\ r.kind = "Rename" => r.from \in Path /\ r.to \in Path
  BY DEF Request

\* The oldest command is taken.
LEMMA RequestTaken ==
    ASSUME BrowserInv, NEW kind, Serve(kind)
    PROVE  /\ requests # <<>> /\ requests[1] \in Request /\ Head(requests) = requests[1]
           /\ Head(requests).kind = kind /\ HasName(Head(requests))
           /\ requests' \in Seq(Request) /\ Len(requests') = Len(requests) - 1
           /\ Len(requests) <= 1 => Len(requests) = 1 /\ Len(requests') = 0 /\ requests' = <<>>
           /\ \A i \in 1..Len(requests') : HasName(requests'[i])
           /\ UNCHANGED <<shown, selected, menu>>
  <1>1. requests \in Seq(Request) /\ requests # <<>> /\ requests' = Tail(requests)
    BY DEF BrowserInv, BrowserTypeOK, Serve
  <1>2. /\ requests' \in Seq(Request) /\ Len(requests') = Len(requests) - 1
        /\ \A i \in 1..Len(requests') : requests'[i] = requests[i + 1]
        /\ Len(requests) \in Nat \ {0} /\ Head(requests) = requests[1]
    BY <1>1, HeadTailProperties, EmptySeq
  <1>3. requests[1] \in Request /\ HasName(requests[1])
    BY <1>1, <1>2 DEF BrowserInv, Naming
  <1>4. \A i \in 1..Len(requests') : HasName(requests'[i])
    BY <1>2 DEF BrowserInv, Naming
  <1>5. Len(requests) <= 1 => Len(requests) = 1 /\ Len(requests') = 0 /\ requests' = <<>>
    <2> DEFINE n == Len(requests)
    <2>1. n \in Nat \ {0} /\ Len(requests') = n - 1
      BY <1>2
    <2> HIDE DEF n
    <2>2. n <= 1 => n = 1 /\ Len(requests') = 0
      BY <2>1
    <2> QED
      BY <1>2, <2>2, EmptySeq DEF n
  <1> QED
    BY <1>1, <1>2, <1>3, <1>4, <1>5 DEF Serve

\* A listing is appended.
LEMMA ListingSent ==
    ASSUME BrowserInv, NEW made \in Listing, Rooted(made), events' = Append(events, made)
    PROVE  /\ events' \in Seq(Listing) /\ Len(events') = Len(events) + 1 /\ Len(events) \in Nat
           /\ events' # <<>> /\ events'[Len(events) + 1] = made
           /\ \A i \in 1..Len(events') : Rooted(events'[i])
  <1>1. /\ events' \in Seq(Listing) /\ Len(events') = Len(events) + 1 /\ Len(events) \in Nat
        /\ events'[Len(events) + 1] = made
        /\ \A i \in 1..Len(events) : events'[i] = events[i]
    BY AppendProperties DEF BrowserInv, BrowserTypeOK
  <1>2. \A i \in 1..Len(events') : Rooted(events'[i])
    BY <1>1 DEF BrowserInv, AllRooted
  <1> QED
    BY <1>1, <1>2

\* A command is given, with what becomes of the row and its menu.
LEMMA AskKeeps ==
    ASSUME BrowserInv, NEW request \in Request, HasName(request),
           request.kind = "List" => request.path = shown.path,
           Ask(request), selected' \in Name \cup {NoRow}, menu' \in Path \cup {NoMenu},
           menu' # NoMenu => selected' # NoRow
    PROVE  BrowserInv'
  <1>1. /\ requests' = Append(requests, request)
        /\ UNCHANGED <<tree, session, events, shown, configured, upload, stale>>
        /\ drifted' = (drifted \/ ~Quiet)
    BY DEF Ask
  <1>2. requests \in Seq(Request)
    BY DEF BrowserInv, BrowserTypeOK
  <1>3. /\ requests' \in Seq(Request) /\ Len(requests') = Len(requests) + 1
        /\ requests'[Len(requests) + 1] = request
        /\ \A i \in 1..Len(requests) : requests'[i] = requests[i]
    BY <1>1, <1>2, AppendProperties
  <1>4. drifted' \in BOOLEAN /\ (~drifted' => ~drifted /\ requests = <<>> /\ events = <<>>)
    BY <1>1 DEF Quiet, BrowserInv, BrowserTypeOK
  <1>5. BrowserTypeOK'
    BY <1>1, <1>3, <1>4 DEF BrowserInv, BrowserTypeOK
  <1>6. Naming'
    <2>1. \A i \in 1..Len(requests') : HasName(requests'[i])
      BY <1>2, <1>3 DEF BrowserInv, Naming
    <2> QED
      BY <1>1, <2>1 DEF BrowserInv, Naming
  <1>7. AllRooted' /\ NewestIsCurrent'
    BY <1>1 DEF BrowserInv, AllRooted, NewestIsCurrent, Current
  <1>8. Peaceful'
    <2>1. SUFFICES ASSUME ~drifted'
                   PROVE  /\ Len(requests') <= 1 /\ Len(events') <= 1
                          /\ requests' = <<>> \/ events' = <<>>
                          /\ session' # NoSession =>
                               /\ events' # <<>> => ShowsSession(events[1])'
                               /\ events' = <<>> => ShowsSession(shown)'
                               /\ requests' # <<>> /\ requests'[1].kind = "List" =>
                                    requests'[1].path = session'
      BY DEF Peaceful
    <2>2. ~drifted /\ Len(requests) = 0 /\ Len(events) = 0 /\ events = <<>>
      BY <1>4, <2>1
    <2>3. Len(requests') = 1 /\ Len(events') = 0 /\ events' = <<>> /\ requests'[1] = request
      BY <1>1, <1>3, <2>2
    <2>4. session # NoSession => ShowsSession(shown)
      BY <2>2 DEF BrowserInv, Peaceful
    <2> QED
      BY <1>1, <2>3, <2>4 DEF ShowsSession
  <1> QED
    BY <1>5, <1>6, <1>7, <1>8 DEF BrowserInv

\* A command is answered by a listing of the working directory.
LEMMA ListKeeps ==
    ASSUME BrowserInv, NEW kind, Serve(kind), NEW dir \in Path, session' = dir,
           tree' \in Tree, Grown(tree'), ListWorkingDir(dir, tree'),
           configured' \in BOOLEAN, upload' = upload
    PROVE  BrowserInv'
  <1> DEFINE made == ListingOf(dir, Contents(tree', dir))
  <1>1. /\ requests' \in Seq(Request) /\ Len(requests') = Len(requests) - 1
        /\ \A i \in 1..Len(requests') : HasName(requests'[i])
        /\ UNCHANGED <<shown, selected, menu>>
        /\ requests # <<>>
        /\ Len(requests) <= 1 => Len(requests) = 1 /\ Len(requests') = 0 /\ requests' = <<>>
    BY RequestTaken
  <1>2. /\ made \in Listing /\ Rooted(made)
        /\ made.path = dir /\ made.entries = Contents(tree', dir)
    BY ListingMade
  <1> HIDE DEF made
  <1>3. Naming'
    BY <1>1 DEF BrowserInv, Naming
  <1>4. CASE /\ IsDir(tree', dir) /\ events' = Append(events, made)
             /\ drifted' = (drifted /\ ~(Len(requests) = 1 /\ events = <<>>))
             /\ stale' = FALSE
    <2>1. /\ events' \in Seq(Listing) /\ Len(events') = Len(events) + 1 /\ Len(events) \in Nat
          /\ events' # <<>> /\ events'[Len(events) + 1] = made
          /\ \A i \in 1..Len(events') : Rooted(events'[i])
      BY <1>2, <1>4, ListingSent
    <2>2. drifted' \in BOOLEAN /\ stale' \in BOOLEAN
      BY <1>4 DEF BrowserInv, BrowserTypeOK
    <2>3. BrowserTypeOK'
      BY <1>1, <2>1, <2>2 DEF BrowserInv, BrowserTypeOK
    <2>4. AllRooted'
      BY <1>1, <2>1 DEF BrowserInv, AllRooted
    <2>5. Peaceful'
      <3>1. ASSUME ~drifted'
            PROVE  Len(requests) = 1 /\ events = <<>>
        <4>1. CASE drifted
          BY <1>4, <3>1, <4>1
        <4>2. CASE ~drifted
          <5>1. Len(requests) <= 1 /\ events = <<>>
            BY <1>1, <4>2 DEF BrowserInv, Peaceful
          <5> QED
            BY <1>1, <5>1
        <4> QED
          BY <4>1, <4>2
      <3>2. ASSUME ~drifted'
            PROVE  Len(requests') = 0 /\ requests' = <<>> /\ Len(events') = 1 /\ events'[1] = made
        <4>1. Len(requests) = 1 /\ Len(events) = 0
          BY <3>1, <3>2
        <4>2. Len(requests') = 0 /\ requests' = <<>>
          BY <1>1, <4>1
        <4> QED
          BY <2>1, <4>1, <4>2
      <3>3. ASSUME ~drifted'
            PROVE  ShowsSession(events[1])'
        BY <1>2, <3>2, <3>3 DEF ShowsSession
      <3> QED
        BY <2>1, <3>2, <3>3 DEF Peaceful
    <2>6. NewestIsCurrent'
      BY <1>2, <1>4, <2>1 DEF NewestIsCurrent, Current
    <2> QED
      BY <1>3, <2>3, <2>4, <2>5, <2>6 DEF BrowserInv
  <1>5. CASE drifted' = TRUE /\ stale' = (stale \/ tree' # tree) /\ events' = events
    <2>1. stale' \in BOOLEAN /\ (~stale' => ~stale /\ tree' = tree)
      BY <1>5 DEF BrowserInv, BrowserTypeOK
    <2>2. BrowserTypeOK' /\ AllRooted' /\ Peaceful'
      BY <1>1, <1>5, <2>1 DEF BrowserInv, BrowserTypeOK, AllRooted, Peaceful
    <2>3. NewestIsCurrent'
      BY <1>1, <1>5, <2>1 DEF BrowserInv, NewestIsCurrent, Current
    <2> QED
      BY <1>3, <2>2, <2>3 DEF BrowserInv
  <1> QED
    BY <1>4, <1>5 DEF ListWorkingDir, made

\* A command is answered by no listing and changes nothing on the server.
LEMMA RefusalKeeps ==
    ASSUME BrowserInv, NEW kind, Serve(kind), session' \in {session, NoSession},
           UNCHANGED <<tree, events, drifted, stale>>, configured' \in BOOLEAN,
           upload' \in {upload, NoUpload} \cup [phase : {"waiting"}, path : Path \ {<<>>}]
    PROVE  BrowserInv'
  <1>1. /\ requests' \in Seq(Request) /\ Len(requests') = Len(requests) - 1
        /\ \A i \in 1..Len(requests') : HasName(requests'[i])
        /\ UNCHANGED <<shown, selected, menu>>
        /\ requests # <<>>
        /\ Len(requests) <= 1 => Len(requests) = 1 /\ Len(requests') = 0 /\ requests' = <<>>
    BY RequestTaken
  <1>2. BrowserTypeOK'
    BY <1>1 DEF BrowserInv, BrowserTypeOK
  <1>3. Naming' /\ AllRooted' /\ NewestIsCurrent'
    BY <1>1 DEF BrowserInv, Naming, AllRooted, NewestIsCurrent, Current
  <1>4. Peaceful'
    <2>1. ~drifted => Len(requests') = 0 /\ requests' = <<>>
      BY <1>1 DEF BrowserInv, Peaceful
    <2>2. session' # NoSession => session' = session
      OBVIOUS
    <2> QED
      BY <1>1, <2>1, <2>2 DEF BrowserInv, Peaceful, ShowsSession
  <1> QED
    BY <1>2, <1>3, <1>4 DEF BrowserInv

\* Nothing is said of the panel while an upload is at work.
LEMMA UploadKeeps ==
    ASSUME BrowserInv, UploadStep, UNCHANGED events, tree' \in Tree, Grown(tree'),
           upload' \in {NoUpload} \cup [phase : {"stored"}, path : Path \ {<<>>}]
    PROVE  BrowserInv'
  <1>1. BrowserTypeOK'
    BY DEF BrowserInv, BrowserTypeOK, UploadStep
  <1>2. Naming' /\ AllRooted'
    BY DEF BrowserInv, Naming, AllRooted, UploadStep
  <1>3. Peaceful' /\ NewestIsCurrent'
    BY DEF Peaceful, NewestIsCurrent, UploadStep
  <1> QED
    BY <1>1, <1>2, <1>3 DEF BrowserInv

-----------------------------------------------------------------------------
(* What becomes of the server's tree.                                      *)

\* What is moved goes to a directory, not below itself, or stays where it is.
LEMMA MovingKeeps ==
    ASSUME tree \in Tree, Grown(tree), NEW from \in Path, NEW to \in Path, CanMove(from, to)
    PROVE  Moved(tree, from, to) \in Tree /\ Grown(Moved(tree, from, to))
  <1>1. CASE from = to
    BY <1>1, MovedNowhere
  <1>2. CASE from # to
    <2>1. /\ to # <<>> /\ tree[Front(to)] = "dir" /\ ~IsPrefix(from, to)
          /\ tree[to] # "dir"
      BY <1>2 DEF CanMove, IsDir
    <2> QED
      BY <2>1, GrownMoved
  <1> QED
    BY <1>1, <1>2

-----------------------------------------------------------------------------
(* The invariant.                                                          *)

LEMMA BrowserStarts == BrowserInit => BrowserInv
  <1> SUFFICES ASSUME BrowserInit
               PROVE  BrowserInv
    OBVIOUS
  <1>1. tree \in Tree /\ \A p \in Path : tree[p] = IF IsPrefix(p, Home) THEN "dir" ELSE "none"
    BY DEF BrowserInit, Tree
  <1>2. ASSUME NEW p \in Path, NEW q \in Path, tree[p] # "none", IsStrictPrefix(q, p)
        PROVE  tree[q] = "dir"
    <2>1. /\ p \in Seq(Name) /\ q \in Seq(Name) /\ Home \in Seq(Name)
          /\ IsPrefix(p, Home) /\ IsPrefix(q, p)
      BY <1>1, <1>2, PathAssumption, HomeAssumption DEF IsStrictPrefix
    <2> QED
      BY <1>1, <2>1, PrefixTransitive
  <1>3. Grown(tree)
    BY <1>2 DEF Grown
  <1>4. NoEntries \in Entries /\ DOMAIN NoEntries = {}
    BY DEF NoEntries, Entries
  <1>5. shown \in Listing /\ Rooted(shown)
    <2>1. ListingOf(<<>>, NoEntries) \in Listing
      BY <1>4, PathAssumption DEF ListingOf, ListingsOf, Listing
    <2> QED
      BY <1>4, <2>1 DEF BrowserInit, Rooted, ListingOf
  <1>6. /\ requests = <<>> /\ requests \in Seq(Request) /\ Len(requests) = 0
        /\ events = <<>> /\ events \in Seq(Listing) /\ Len(events) = 0
    BY DEF BrowserInit
  <1>7. BrowserTypeOK
    BY <1>1, <1>3, <1>5, <1>6 DEF BrowserInit, BrowserTypeOK
  <1>8. Naming /\ AllRooted /\ NewestIsCurrent /\ Peaceful
    BY <1>5, <1>6 DEF BrowserInit, Naming, AllRooted, NewestIsCurrent, Peaceful
  <1> QED
    BY <1>7, <1>8 DEF BrowserInv

\* What the user does to the panel.
LEMMA UserKeeps == BrowserInv /\ User => BrowserInv'
  <1> SUFFICES ASSUME BrowserInv, User
               PROVE  BrowserInv'
    OBVIOUS
  <1>0. /\ selected \in Name \cup {NoRow} /\ menu \in Path \cup {NoMenu} /\ shown.path \in Path
        /\ menu # NoMenu => selected \in Name
    BY DEF BrowserInv, BrowserTypeOK, Listing, ListingsOf
  <1>1. ASSUME menu = NoMenu, NEW n \in Name, SelectRow(n)
        PROVE  BrowserInv'
    BY <1>1 DEF SelectRow, Choose, BrowserInv, BrowserTypeOK, Naming, AllRooted,
                NewestIsCurrent, Current, Peaceful, ShowsSession
  <1>2. ASSUME NEW n \in Name, OpenMenu(n)
        PROVE  BrowserInv'
    BY <1>0, <1>2, NoRowAssumption DEF OpenMenu, Choose, BrowserInv, BrowserTypeOK, Naming,
                                       AllRooted, NewestIsCurrent, Current, Peaceful, ShowsSession
  <1>3. ASSUME menu = NoMenu, NEW n \in Name, OpenDir(n)
        PROVE  BrowserInv'
    <2> DEFINE r == [kind |-> "Navigate", path |-> Joined(n), relative |-> FALSE]
    <2>1. Joined(n) \in Path
      BY <1>3 DEF OpenDir, Choose, Joined, BrowserInv, AllRooted, Rooted
    <2>2. r \in Request /\ HasName(r)
      BY <2>1, TextAssumption DEF Request, HasName
    <2>3. selected' = n /\ menu' = NoMenu
      BY <1>3 DEF OpenDir, Choose
    <2> QED
      BY <1>3, <2>2, <2>3, AskKeeps DEF OpenDir
  <1>4. ASSUME NEW p \in Typed, NEW relative \in BOOLEAN, Goto(p, relative)
        PROVE  BrowserInv'
    <2> DEFINE r == [kind |-> "Navigate", path |-> p, relative |-> relative]
    <2>1. r \in Request /\ HasName(r)
      BY InputAssumption DEF Request, HasName
    <2> QED
      BY <1>0, <1>4, <2>1, AskKeeps, NoRowAssumption DEF Goto
  <1>5. CASE Up
    <2> DEFINE r == [kind |-> "Navigate", path |-> Front(shown.path), relative |-> FALSE]
    <2>1. Front(shown.path) \in Path
      BY <1>0, <1>5, FrontIsPath DEF Up
    <2>2. r \in Request /\ HasName(r)
      BY <2>1, TextAssumption DEF Request, HasName
    <2> QED
      BY <1>0, <1>5, <2>2, AskKeeps, NoRowAssumption DEF Up
  <1>6. CASE RefreshPanel
    <2> DEFINE r == [kind |-> "List", path |-> shown.path]
    <2>1. r \in Request /\ HasName(r) /\ r.path = shown.path
      BY <1>0 DEF Request, HasName
    <2> QED
      BY <1>0, <1>6, <2>1, AskKeeps, NoRowAssumption DEF RefreshPanel
  <1>7. ASSUME NEW typed \in Named, MakeDirectory(typed)
        PROVE  BrowserInv'
    <2> DEFINE r == [kind |-> "Mkdir", path |-> Leads[JoinedText(typed)]]
    <2>1. r \in Request /\ HasName(r)
      BY <1>7, TextAssumption DEF MakeDirectory, Request, HasName
    <2> QED
      BY <1>0, <1>7, <2>1, AskKeeps, NoRowAssumption DEF MakeDirectory
  <1>8. CASE QuickConnectAgain
    <2>1. [kind |-> "Connect"] \in Request /\ HasName([kind |-> "Connect"])
      BY DEF Request, HasName
    <2> QED
      BY <1>0, <1>8, <2>1, AskKeeps, NoRowAssumption DEF QuickConnectAgain
  <1>9. CASE Disconnect
    <2>1. [kind |-> "Quit"] \in Request /\ HasName([kind |-> "Quit"])
      BY DEF Request, HasName
    <2> QED
      BY <1>0, <1>9, <2>1, AskKeeps, NoRowAssumption DEF Disconnect
  <1>10. ASSUME NEW n \in Chosen, ChooseUpload(n)
         PROVE  BrowserInv'
    <2> DEFINE r == [kind |-> "EnqueueTransfers", path |-> Joined(n)]
    <2>1. Joined(n) \in Path /\ n \in Name /\ shown.path \in Seq(Name)
      BY <1>0, <1>10, InputAssumption, PathAssumption DEF ChooseUpload
    <2>2. Joined(n) # <<>>
      BY <2>1, AppendProperties DEF Joined
    <2>3. r \in Request /\ HasName(r)
      BY <2>1, <2>2 DEF Request, HasName
    <2> QED
      BY <1>0, <1>10, <2>3, AskKeeps, NoRowAssumption DEF ChooseUpload
  <1>11. CASE DeleteSelected
    <2> DEFINE r == [kind |-> "Delete", path |-> Joined(selected)]
    <2>1. r \in Request /\ HasName(r)
      BY <1>11 DEF DeleteSelected, Request, HasName
    <2> QED
      BY <1>0, <1>11, <2>1, AskKeeps DEF DeleteSelected
  <1>12. ASSUME NEW typed \in Named, RenameSelected(typed)
         PROVE  BrowserInv'
    <2> DEFINE r == [kind |-> "Rename", from |-> Joined(selected), to |-> Leads[JoinedText(typed)]]
    <2>1. r \in Request /\ HasName(r)
      BY <1>12, TextAssumption DEF RenameSelected, Request, HasName
    <2> QED
      BY <1>0, <1>12, <2>1, AskKeeps DEF RenameSelected
  <1>13. CASE CloseMenu
    BY <1>13 DEF CloseMenu, BrowserInv, BrowserTypeOK, Naming, AllRooted, NewestIsCurrent,
                 Current, Peaceful, ShowsSession
  <1> QED
    BY <1>1, <1>2, <1>3, <1>4, <1>5, <1>6, <1>7, <1>8, <1>9, <1>10, <1>11, <1>12, <1>13
       DEF User, Window

\* The panel shows the listing that is due.
LEMMA ApplyKeeps == BrowserInv /\ ApplyListing => BrowserInv'
  <1> SUFFICES ASSUME BrowserInv, ApplyListing
               PROVE  BrowserInv'
    OBVIOUS
  <1>1. /\ events \in Seq(Listing) /\ events # <<>>
        /\ shown' = events[1] /\ events' = Tail(events)
        /\ UNCHANGED <<tree, requests, session, selected, menu, configured, upload, drifted,
                       stale>>
    BY DEF BrowserInv, BrowserTypeOK, ApplyListing
  <1>2. /\ events' \in Seq(Listing) /\ Len(events') = Len(events) - 1
        /\ \A i \in 1..Len(events') : events'[i] = events[i + 1]
        /\ events[1] \in Listing /\ Len(events) \in Nat \ {0}
    BY <1>1, HeadTailProperties, EmptySeq
  <1>3. Len(events) <= 1 => Len(events') = 0 /\ events' = <<>>
    <2> DEFINE n == Len(events)
    <2>1. n \in Nat \ {0} /\ Len(events') = n - 1
      BY <1>2
    <2> HIDE DEF n
    <2>2. n <= 1 => Len(events') = 0
      BY <2>1
    <2> QED
      BY <1>2, <2>2, EmptySeq DEF n
  <1>4. BrowserTypeOK'
    BY <1>1, <1>2 DEF BrowserInv, BrowserTypeOK
  <1>5. Naming'
    BY <1>1 DEF BrowserInv, Naming
  <1>6. AllRooted'
    BY <1>1, <1>2 DEF BrowserInv, AllRooted
  <1>7. Peaceful'
    <2>1. ~drifted => requests = <<>> /\ Len(events') = 0 /\ events' = <<>>
      BY <1>1, <1>3 DEF BrowserInv, Peaceful
    <2>2. ~drifted /\ session # NoSession => ShowsSession(events[1])
      BY <1>1 DEF BrowserInv, Peaceful
    <2>3. Len(requests) <= 1 \/ drifted
      BY DEF BrowserInv, Peaceful
    <2> QED
      BY <1>1, <2>1, <2>2, <2>3 DEF Peaceful, ShowsSession
  <1>8. NewestIsCurrent'
    <2>1. CASE events' = <<>>
      <3>1. events[Len(events)] = events[1]
        BY <1>1, <2>1, TailKeepsLast
      <3> QED
        BY <1>1, <2>1, <3>1 DEF BrowserInv, NewestIsCurrent, Current
    <2>2. CASE events' # <<>>
      <3>1. events'[Len(events')] = events[Len(events)]
        BY <1>1, <2>2, TailKeepsLast
      <3> QED
        BY <1>1, <2>2, <3>1 DEF BrowserInv, NewestIsCurrent, Current
    <2> QED
      BY <2>1, <2>2
  <1> QED
    BY <1>4, <1>5, <1>6, <1>7, <1>8 DEF BrowserInv

\* What the control worker does with a command.
LEMMA WorkerKeeps == BrowserInv /\ Worker => BrowserInv'
  <1> SUFFICES ASSUME BrowserInv, Worker
               PROVE  BrowserInv'
    OBVIOUS
  <1> DEFINE r == Head(requests)
  <1>0. /\ tree \in Tree /\ Grown(tree) /\ session \in Path \cup {NoSession}
        /\ configured \in BOOLEAN
    BY DEF BrowserInv, BrowserTypeOK
  <1>1. ASSUME NEW kind, Serve(kind)
        PROVE  /\ r \in Request /\ r.kind = kind /\ HasName(r)
               /\ requests # <<>> /\ r = requests[1]
    BY <1>1, RequestTaken
  <1>2. CASE ServeConnect
    <2>1. CASE /\ session' = Home /\ configured' = TRUE
               /\ ListWorkingDir(Home, tree) /\ UNCHANGED tree
      <3>1. ListWorkingDir(Home, tree') /\ upload' = upload
        BY <1>2, <2>1 DEF ServeConnect, ListWorkingDir
      <3> QED
        BY <1>0, <1>2, <2>1, <3>1, ListKeeps, HomeAssumption DEF ServeConnect
    <2>2. CASE Refused /\ UNCHANGED configured
      BY <1>0, <1>2, <2>2, RefusalKeeps DEF ServeConnect, Refused
    <2> QED
      BY <1>2, <2>1, <2>2 DEF ServeConnect
  <1>3. CASE ServeQuit
    BY <1>0, <1>3, RefusalKeeps DEF ServeQuit, NoTransfer
  <1>4. CASE ServeEnqueue
    <2>1. r \in Request /\ r.kind = "EnqueueTransfers" /\ HasName(r)
      BY <1>1, <1>4 DEF ServeEnqueue
    <2>2. r.path \in Path \ {<<>>}
      BY <2>1, RequestFields DEF HasName
    <2>3. upload' \in {upload, NoUpload} \cup [phase : {"waiting"}, path : Path \ {<<>>}]
      BY <1>4, <2>2 DEF ServeEnqueue
    <2> QED
      BY <1>0, <1>4, <2>3, RefusalKeeps DEF ServeEnqueue
  <1>5. CASE ServeList
    <2> DEFINE made == ListingOf(r.path, Contents(tree, r.path))
    <2>1. CASE Refused
      BY <1>0, <1>5, <2>1, RefusalKeeps DEF ServeList, Refused, NoTransfer
    <2>2. CASE /\ IsDir(tree, r.path) /\ events' = Append(events, made)
               /\ stale' = FALSE /\ UNCHANGED <<tree, session, drifted>>
      <3>1. /\ requests' \in Seq(Request) /\ UNCHANGED <<shown, selected, menu>>
            /\ \A i \in 1..Len(requests') : HasName(requests'[i])
            /\ r.kind = "List" /\ r = requests[1] /\ requests # <<>>
            /\ Len(requests) <= 1 => Len(requests') = 0 /\ requests' = <<>>
        BY <1>5, RequestTaken DEF ServeList
      <3>2. /\ UNCHANGED <<configured, upload>> /\ session # NoSession
        BY <1>5 DEF ServeList, NoTransfer
      <3>3. /\ made \in Listing /\ Rooted(made)
            /\ made.path = r.path /\ made.entries = Contents(tree, r.path)
        BY <1>0, <2>2, ListingMade DEF IsDir
      <3> HIDE DEF made
      <3>4. /\ events' \in Seq(Listing) /\ Len(events') = Len(events) + 1 /\ Len(events) \in Nat
            /\ events' # <<>> /\ events'[Len(events) + 1] = made
            /\ \A i \in 1..Len(events') : Rooted(events'[i])
        BY <2>2, <3>3, ListingSent
      <3>5. BrowserTypeOK'
        BY <2>2, <3>1, <3>2, <3>4 DEF BrowserInv, BrowserTypeOK
      <3>6. Naming' /\ AllRooted'
        BY <3>1, <3>2, <3>4 DEF BrowserInv, Naming, AllRooted
      <3>7. Peaceful'
        <4>1. ~drifted => Len(requests) <= 1 /\ events = <<>> /\ r.path = session
          BY <3>1, <3>2 DEF BrowserInv, Peaceful
        <4>2. ~drifted => /\ Len(requests') = 0 /\ requests' = <<>>
                          /\ Len(events') = 1 /\ events'[1] = made
          <5>1. ~drifted => Len(events) = 0
            BY <4>1
          <5> QED
            BY <3>1, <3>4, <4>1, <5>1
        <4>3. ~drifted => made.path = session /\ made.entries = Contents(tree, session)
          BY <3>3, <4>1
        <4> QED
          BY <2>2, <3>4, <4>2, <4>3 DEF Peaceful, ShowsSession
      <3>8. NewestIsCurrent'
        BY <2>2, <3>3, <3>4 DEF NewestIsCurrent, Current
      <3> QED
        BY <3>5, <3>6, <3>7, <3>8 DEF BrowserInv
    <2> QED
      BY <1>5, <2>1, <2>2 DEF ServeList
  <1>6. CASE ServeNavigate
    <2>1. CASE Refused
      BY <1>0, <1>6, <2>1, RefusalKeeps DEF ServeNavigate, Refused, NoTransfer
    <2>2. ASSUME NEW dir, IsDir(tree, dir), session' = dir, ListWorkingDir(dir, tree),
                 UNCHANGED tree
          PROVE  BrowserInv'
      <3>1. dir \in Path /\ ListWorkingDir(dir, tree')
        BY <2>2 DEF IsDir, ListWorkingDir
      <3> QED
        BY <1>0, <1>6, <2>2, <3>1, ListKeeps DEF ServeNavigate, NoTransfer
    <2> QED
      BY <1>6, <2>1, <2>2 DEF ServeNavigate
  <1>7. CASE ServeMkdir
    <2>1. CASE Refused
      BY <1>0, <1>7, <2>1, RefusalKeeps DEF ServeMkdir, Refused, NoTransfer
    <2>2. CASE /\ CanMake(r.path) /\ tree' = [tree EXCEPT ![r.path] = "dir"]
               /\ ListWorkingDir(session, tree') /\ UNCHANGED session
      <3>1. r.path \in Path
        BY <1>1, <1>7, RequestFields DEF ServeMkdir
      <3>2. tree' \in Tree /\ Grown(tree')
        BY <1>0, <2>2, <3>1, GrownWith DEF CanMake, IsDir
      <3>3. session \in Path
        BY <1>0, <1>7 DEF ServeMkdir
      <3> QED
        BY <1>0, <1>7, <2>2, <3>2, <3>3, ListKeeps DEF ServeMkdir, NoTransfer
    <2> QED
      BY <1>7, <2>1, <2>2 DEF ServeMkdir
  <1>8. CASE ServeDelete
    <2>1. r.path \in Path
      BY <1>1, <1>8, RequestFields DEF ServeDelete
    <2>2. tree' \in Tree /\ Grown(tree')
      <3>1. CASE CanRemove(r.path) /\ tree' = [tree EXCEPT ![r.path] = "none"]
        BY <1>0, <2>1, <3>1, GrownWith DEF CanRemove
      <3>2. CASE UNCHANGED tree
        BY <1>0, <3>2
      <3> QED
        BY <1>8, <3>1, <3>2 DEF ServeDelete
    <2>3. session \in Path
      BY <1>0, <1>8 DEF ServeDelete
    <2> QED
      BY <1>0, <1>8, <2>2, <2>3, ListKeeps DEF ServeDelete, NoTransfer
  <1>9. CASE ServeRename
    <2>1. CASE Refused
      BY <1>0, <1>9, <2>1, RefusalKeeps DEF ServeRename, Refused, NoTransfer
    <2>2. CASE /\ CanMove(r.from, r.to) /\ tree' = Moved(tree, r.from, r.to)
               /\ ListWorkingDir(session, tree') /\ UNCHANGED session
      <3>1. r.from \in Path /\ r.to \in Path
        BY <1>1, <1>9, RequestFields DEF ServeRename
      <3>2. tree' \in Tree /\ Grown(tree')
        BY <1>0, <2>2, <3>1, MovingKeeps
      <3>3. session \in Path
        BY <1>0, <1>9 DEF ServeRename
      <3> QED
        BY <1>0, <1>9, <2>2, <3>2, <3>3, ListKeeps DEF ServeRename, NoTransfer
    <2> QED
      BY <1>9, <2>1, <2>2 DEF ServeRename
  <1>10. ASSUME NEW kind, NoSessionFor(kind)
         PROVE  BrowserInv'
    BY <1>0, <1>10, RefusalKeeps DEF NoSessionFor, Refused, NoTransfer
  <1> QED
    BY <1>2, <1>3, <1>4, <1>5, <1>6, <1>7, <1>8, <1>9, <1>10 DEF Worker

\* What an upload does to the server and to the panel.
LEMMA UploadsKeep == BrowserInv /\ Upload => BrowserInv'
  <1> SUFFICES ASSUME BrowserInv, Upload
               PROVE  BrowserInv'
    OBVIOUS
  <1>0. tree \in Tree /\ Grown(tree)
    BY DEF BrowserInv, BrowserTypeOK
  <1>1. upload # NoUpload /\ upload.phase \in {"waiting", "stored"} =>
          /\ upload \in [phase : {"waiting", "stored"}, path : Path]
          /\ upload.path \in Path /\ upload.path # <<>>
    BY DEF BrowserInv, BrowserTypeOK, Naming
  <1>2. CASE StoreUpload
    <2>1. upload.path \in Path /\ upload.path # <<>>
      BY <1>1, <1>2 DEF StoreUpload
    <2>2. tree' = [tree EXCEPT ![upload.path] = "file"]
      BY <1>2 DEF StoreUpload
    <2>3. tree[Front(upload.path)] = "dir" /\ tree[upload.path] # "dir"
      <3>1. CASE CanMake(upload.path)
        BY <3>1 DEF CanMake, IsDir
      <3>2. CASE tree[upload.path] = "file"
        BY <1>0, <2>1, <3>2, AboveIsDir
      <3> QED
        BY <1>2, <3>1, <3>2 DEF StoreUpload
    <2>4. tree' \in Tree /\ Grown(tree')
      BY <1>0, <2>1, <2>2, <2>3, GrownWith
    <2>5. upload' \in [phase : {"stored"}, path : Path \ {<<>>}]
      BY <1>1, <1>2 DEF StoreUpload
    <2> QED
      BY <1>2, <2>4, <2>5, UploadKeeps DEF StoreUpload
  <1>3. CASE FailUpload
    <2>1. tree' \in Tree /\ Grown(tree')
      <3>1. CASE UNCHANGED tree
        BY <1>0, <3>1
      <3>2. ASSUME NEW p \in Path, tree[p] = "file", tree' = [tree EXCEPT ![p] = "none"]
            PROVE  tree' \in Tree /\ Grown(tree')
        BY <1>0, <3>2, GrownWith
      <3> QED
        BY <1>3, <3>1, <3>2 DEF FailUpload
    <2> QED
      BY <1>3, <2>1, UploadKeeps DEF FailUpload
  <1>4. CASE ListUpload
    <2> DEFINE dir == Front(upload.path)
               made == ListingOf(dir, Contents(tree, dir))
    <2>1. UploadStep /\ UNCHANGED <<tree, events>>
      BY <1>4 DEF ListUpload
    <2>2. CASE upload' = NoUpload
      BY <1>0, <2>1, <2>2, UploadKeeps
    <2>3. CASE IsDir(tree, dir) /\ upload' = [phase |-> "listed", listing |-> made]
      <3>1. made \in Listing /\ Rooted(made)
        BY <1>0, <2>3, ListingMade DEF IsDir
      <3> HIDE DEF made, dir
      <3>2. upload' \in [phase : {"listed"}, listing : Listing] /\ Rooted(upload'.listing)
        BY <2>3, <3>1
      <3>3. BrowserTypeOK'
        BY <2>1, <3>2 DEF BrowserInv, BrowserTypeOK, UploadStep
      <3>4. Naming' /\ AllRooted' /\ NewestIsCurrent' /\ Peaceful'
        BY <2>1, <3>2 DEF BrowserInv, Naming, AllRooted, NewestIsCurrent, Peaceful, UploadStep
      <3> QED
        BY <3>3, <3>4 DEF BrowserInv
    <2> QED
      BY <1>4, <2>2, <2>3 DEF ListUpload
  <1>5. CASE EmitUpload
    <2>1. /\ UploadStep /\ UNCHANGED tree
          /\ upload' = NoUpload /\ events' = Append(events, upload.listing)
      BY <1>5 DEF EmitUpload
    <2>2. upload.listing \in Listing /\ Rooted(upload.listing)
      BY <1>5 DEF BrowserInv, BrowserTypeOK, AllRooted, EmitUpload
    <2>3. events' \in Seq(Listing) /\ \A i \in 1..Len(events') : Rooted(events'[i])
      BY <2>1, <2>2, ListingSent
    <2>4. BrowserTypeOK'
      BY <2>1, <2>3 DEF BrowserInv, BrowserTypeOK, UploadStep
    <2>5. Naming' /\ AllRooted' /\ NewestIsCurrent' /\ Peaceful'
      BY <2>1, <2>3 DEF BrowserInv, Naming, AllRooted, NewestIsCurrent, Peaceful, UploadStep
    <2> QED
      BY <2>4, <2>5 DEF BrowserInv
  <1> QED
    BY <1>2, <1>3, <1>4, <1>5 DEF Upload

LEMMA BrowserInvHolds == BrowserSpec => []BrowserInv
  <1>1. BrowserInv /\ UNCHANGED browserVars => BrowserInv'
    BY DEF BrowserInv, BrowserTypeOK, Naming, AllRooted, NewestIsCurrent, Current, Peaceful,
           ShowsSession, browserVars
  <1>2. BrowserInv /\ [BrowserNext]_browserVars => BrowserInv'
    BY <1>1, UserKeeps, ApplyKeeps, WorkerKeeps, UploadsKeep DEF BrowserNext
  <1> QED
    BY <1>2, BrowserStarts, PTL DEF BrowserSpec

-----------------------------------------------------------------------------

\* Whatever is asked, refused or stored, and wherever a name that is typed leads
\* out of the directory that is shown, what hangs on the server hangs below
\* directories, and commands, listings and uploads name paths (app.rs:177-203,
\* 316-411, 543-744).
THEOREM BrowserTyped == BrowserSpec => []BrowserTypeOK
  <1>1. BrowserInv => BrowserTypeOK
    BY DEF BrowserInv
  <1> QED
    BY <1>1, BrowserInvHolds, PTL

\* Once the listings have been applied the rows are what is in the directory
\* above them, although some commands list the directory on screen and others
\* the working directory of a session that may be elsewhere by then
\* (app.rs:677-744): the newest listing, shown or on its way, is up to date.
THEOREM RowsStayCurrent == BrowserSpec => []RowsAreCurrent
  <1>1. BrowserInv => RowsAreCurrent
    BY DEF BrowserInv, NewestIsCurrent, Current, RowsAreCurrent
  <1> QED
    BY <1>1, BrowserInvHolds, PTL

\* At rest, and in peace, the panel shows the working directory of the session
\* as it is, although the two are changed in different threads.
THEOREM PanelsAreTrue == BrowserSpec => []PanelIsTrue
  <1>1. BrowserInv => PanelIsTrue
    BY DEF BrowserInv, Peaceful, ShowsSession, Quiet, PanelIsTrue
  <1> QED
    BY <1>1, BrowserInvHolds, PTL
=============================================================================
