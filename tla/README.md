# ftp-slint: a verification project

ftp-slint is a desktop FTP client in Rust and Slint with two file panels, a
transfer queue and a log. This directory holds TLA+ models of it, the TLC runs
that check them and TLAPS proofs about them. Paths below are relative to the
repository root; in the modules and in `PROJECT.json` they carry the prefix
`src/` of the checkout (`src/src/core/queue.rs` is `src/core/queue.rs` here).

## 1. The system

Four kinds of threads, each owning its state and talking through channels:

| thread | code | state it owns | receives | sends |
|---|---|---|---|---|
| UI | `src/app.rs` `install_callbacks`, `apply_event`; `src/ui/*.slint` | rows of the queue panel, the two listings and their paths, the connection indicator, the log | events, in the order of the Slint event loop | `FtpCommand` to the control worker, `LocalFsCommand` to the local worker |
| control worker | `src/app.rs` `control_worker` | `session: Option<FtpSession>` | `FtpCommand`, one at a time; a network operation blocks it | events; `QueueCommand` to the scheduler |
| local worker | `src/app.rs` `local_worker` | nothing | `LocalFsCommand` | events |
| scheduler | `src/core/queue.rs` `Scheduler` | `cfg`, `pending`, `running` (task id to `CancelHandle`) | `QueueCommand` | events; spawns transfer threads; raises cancel flags |
| transfer thread, at most `DEFAULT_CONCURRENCY` = 2 | `src/core/queue.rs` `spawn_transfer`, `run_download`, `run_upload` | an `FtpSession` of its own, the open file | its `CancelHandle` | events; `TaskDone` to the scheduler |

All channels are unbounded `mpsc` queues; events go through
`slint::invoke_from_event_loop`, which is one queue for all senders. The only
memory two threads share is the `AtomicBool` of a `CancelHandle`.

### Components, what is hard about them, and what makes them correct

* **Scheduler and queue channel.** Operations: `SetConfig`, `Enqueue`,
  `Cancel`, `TaskDone`, each ending in `dispatch` where a slot is freed or the
  line grows. Hard: a cancel meets its task anywhere between the line and the
  end of its thread; slots are freed by messages the threads send about
  themselves. Correct when no request is lost or in two places, the limit
  holds, no slot idles while a request waits, requests start in order, each is
  reported once with its true outcome, and cancellations end tasks.
* **Transfer threads.** Connect, open, copy chunk by chunk while polling the
  flag, refresh the listing, clean up on error, report, signal. Hard: the flag is
  only read at two places, errors and cancellation race, the data connection has
  no timeout, cleanup removes files. Correct when the outcome is honest, the slot
  comes back, and only files the transfer wrote are removed.
* **Queue panel.** A row is created before the request is sent, and rewritten
  by `TaskProgress` and `TaskFinished` events; finished rows can be cleared.
  Hard: three queues and a thread that may be busy lie between a click and the
  scheduler's answer. Correct
  when a row tells the truth once its events are applied and a final status
  stays.
* **Control worker, connection and forwarding.** `Connect`, `Quit`,
  `EnqueueTransfers`, `CancelTask`. Correct when the indicator, the scheduler's
  configuration and the session agree.
* **Control worker, browsing.** `List`, `Navigate`, `Mkdir`, `Delete`, `Rename`
  on the session's working directory, each followed by a listing. Hard: the path
  shown, the working directory and the selected name are three pieces of state
  that drift apart; finished transfers send listings of their own.
* **Local worker and panel.** The same for local files; a finished download
  also lists its directory.
* **FTP session.** `src/ftp/client.rs`: dialling, login, the passive mode
  (EPSV with a fallback to PASV that sticks), MLSD with a fallback to LIST.
* **Listing parser and remote paths.** Pure functions of `src/ftp/parser.rs` and
  `src/ftp/types.rs`: Unix, Windows and MLSD lines, the year of a line without
  one, days from a civil date, sorting, joining and splitting paths.
* **Start-up, window, log.** Environment files, layout, tracing.

`PROJECT.json` lists each with its status, and under `hazards` every place where
the code can go wrong in a way a test would hardly reach.

## 2. Modules

| module | what it is |
|---|---|
| `TransferQueue` | the scheduler, its channel and the transfer threads; the safety and liveness properties |
| `TransferService` | what the queue promises to a client: order, limit, life cycle |
| `TransferRefinement` | the refinement mapping from the first to the second; the table `can_transition` |
| `TransferQueueInv` | the inductive invariant, as named parts |
| `TransferQueueProofs` | its theorems, and that the queue implements the service |
| `TransferQueueMC` | the model-checking root of the above |
| `TransferPanel` | the UI thread, the control worker and the event loop composed with `TransferQueue` |
| `TransferPanelProofs` | its theorems |
| `TransferPanelMC` | its model-checking root |
| `TransferFiles` | the two file systems that transfers read and write, composed with `TransferQueue` |
| `TransferFilesProofs` | its theorems |
| `TransferFilesMC` | its model-checking root |
| `Trees` | trees of files and directories, as both panels browse them; listings |
| `TreesProofs` | lemmas about them: what is made, moved or removed leaves a tree a tree |
| `RemoteBrowser` | the remote panel, the control worker's browsing commands, the server's directories and an upload that finishes meanwhile |
| `RemoteBrowserProofs` | its theorems |
| `RemoteBrowserMC` | its model-checking root |
| `LocalPanel` | the local panel, the local worker, the disk and a download that finishes meanwhile |
| `LocalPanelProofs` | its theorems |
| `PanelsMC` | the model-checking root of both panels |
| `FtpSession` | login, the passive mode and its fallbacks, MLSD and LIST, transfers |
| `FtpSessionProofs` | its theorems |
| `Calendar` | the parser's date arithmetic beside a calendar that is turned over day by day |
| `Listings` | what each format of a listing keeps of a name, a kind and a time |
| `ListingsProofs` | the theorems of both: days, years, names and times, for every date and every name |
| `SessionListingsMC` | the model-checking root of sessions and listings |

### TransferQueue

Variables: `commands` is the `mpsc` channel; `cfg`, `pending`, `running` are the
fields of `Scheduler`; `cancelled` the tasks whose flag is up; `worker`,
`server`, `outcome` the program point, the moved configuration and the local
result of each transfer thread; `submitted`, `rejected`, `reports` what a client
could observe (requests sent, requests refused, `TaskFinished` events).

One action per handler: `RecvSetConfig`, `RecvEnqueue`, `RecvTaskDone`, and
`cancel` as the three actions `CancelRunning`, `CancelPending`, `CancelNothing`
for its three paths. `Dispatch` is the whole loop of `dispatch` and part of the
handlers that call it: `Turns` says how many turns it takes, the batch is
popped, registered and spawned. `SpawnMayFail` lets any spawn fail, as
`let _ = Builder::spawn` permits.

A transfer thread steps through `Announce`, `CheckCancel`, `Connect`,
`OpenTransfer`, `Poll`, `MoveChunk` / `EndMove`, `Refresh`, `Conclude`,
`Cleanup`, `Report`, `SignalDone`. The cut points are those at which another
thread's action can matter: reading the flag, a blocking operation, sending a
message. In particular the flag is read in `Poll` and again in `Conclude`, as
the code reads it before each chunk and once more when it maps an error to an
outcome; a failure to connect does not read it. `run_download` and `run_upload`
have this same control flow. A download gives its connection up just before it
removes the partial file, an upload after it, so `Connections` counts the former
one step too long, which only makes the bound stronger.

### TransferPanel

Adds `rows`, `requested`, `connected` (UI), `ftpCommands`, `events` (the two
queues), and `session`, `control`, `dialled` (control worker). Each callback and each
arm of `apply_event` that touches them is an action; the actions of `TransferQueue`
are reused with the event each of them emits. A handler of `control_worker` that
talks to the server is several actions, one for each stretch between two effects that
others can see, and `control` is where it is: `Connect` dials and logs in
(`ServeConnect`; then `FailLogin`, or `LogIn` with its `Connected` event), tells the
scheduler (`Inform`), lists the directory and only then has its session
(`EndConnect`), the configuration being in `dialled` meanwhile; `Quit` takes the
session out (`ServeQuit`) and reports once the reply is there (`EndQuit`). The five
commands of browsing are one, `Browse`, of which only the wait is modelled here:
requests to transfer and to cancel queue up behind it, and what it does is in
`RemoteBrowser`.

### TransferFiles

Adds what the threads of `TransferQueue` do to files, each file action being a
thread step with its effect: `OpenFiles` is CWD, `File::create` / `File::open`
and RETR / STOR with their refusals (`RefuseDirectory`, `RefuseAfterCreate`,
`RefuseUpload`, `Accept`), `CopyChunk` and `EndCopy` are the copying loop,
`CleanFiles` is `remove_partial` / `remove_remote_partial`, either of which may be
refused (a file in a directory one may not write to, a session that has broken down)
without anybody looking; `removed` are the tasks for which it worked. `request` is the
`TransferRequest` of each task. A path leads to an inode (`dir`) whose chunks
are in `data`, and an open file is an inode, so that truncating or removing a
file under an open transfer does what it does on a POSIX system; a chunk
remembers the file it was read from and the task that wrote it. `astray`
remembers an upload whose CWD failed: its DELE names the bare file and reaches
the login directory (`LoginDir`). `disturbed` is a history of the transfers
that shared a path with another while open. The server is external: it is
taken to keep its files the same way, to create a file at STOR, and to send
226 only at the end of the file.

### RemoteBrowser

A module of its own: browsing meets transfers in one place only, the listing a
finished upload sends. `requests` is the channel to the control worker, `session`
the working directory of its `FtpSession` (or `NoSession`), `events` the listings
in the event loop, `shown` the path and rows of the panel, `selected` the property
of `FilePanel`, `menu` whether the menu of a row (or the rename dialog it opens)
is up, and if so the directory it was opened in; `configured` is `cfg.is_some()`
of the scheduler, `upload` one upload from the panel. `tree` is the server: what
is at each path, a path being the sequence of its names, so that for a row `join_remote`
is `Append` and `parent_remote` is `Front`. A name that is typed (mkdir, rename) is split
at its separators (`Named`), passes `valid_target` as in the code, and is joined as
`join_remote` does it: `JoinedText` of "b/", "../b" or "/" is below, beside or the same
as the directory shown, so that a rename may move a directory. Each callback of the panel and each arm of
`control_worker` is an action; `ListWorkingDir` is `refresh_listing`, PWD and LIST
of the working directory, which may fail after the command itself succeeded.
`List` is served without changing the working directory, `Navigate` changes it
first and lists it then, and `Mkdir`, `Delete`, `Rename` act on a path joined from
the panel but list the session's directory.

A request may be refused at any time, for reasons the server keeps to itself; a
refused request is taken to change nothing, and a reply that is lost after the
command took effect is not modelled. A handler is atomic: only the server and the
upload could come between its replies, and the upload is interleaved with it from
one handler to the next. While a menu is open the rest of the window does not
react, as a popup takes all clicks, but threads and the event loop go on. Two
histories serve the properties. `stale` is raised by what no listing follows (a listing
that fails after a change, an upload) and lowered by every listing of the control worker:
while it is down, and the listings are applied, `RowsAreCurrent` has the rows agree with
the server, whichever directory each command listed. `drifted` is raised by whatever may
leave the panel behind the session (a command given before the last one was answered and
shown, a listing that failed, an upload) and lowered by a listing of the working directory
sent in peace; `PanelIsTrue` speaks of the rest. One server only: logging in elsewhere is like logging in again, apart
from the files.

### Trees and LocalPanel

`Trees` holds what the two panels have in common: a tree says of each path what is
there, `Grown` that nothing hangs in the air, `Contents` and `Moved` what a listing
of a directory holds and what renaming does to all below it. What the program hands on
is not a path but its text, a sequence of names and ".."; `Leads` is where a text
leads, `Kept` drops what changes nothing in it (a separator too many, "."),
and `ValidName` is what `valid_target` lets through.

The local worker keeps no state: each `LocalFsCommand` names its paths in full, as the
panel showed them when it was given. So a panel that has moved on is not misled by the
answer to an older command, but is moved back by it. The panel's path is a text:
`local_fs::join` is `PathBuf::join`, which keeps ".." and lets an absolute name take the
place of the directory (`TargetText`), `parent` cuts off the last part of the text whatever
it is, and the disk has to come through all of it (`Reached`, `CanName`); `create_dir_all` makes what it
passes on the way (`Way`), also a directory that the next ".." leaves again. `disk`, `localRequests`,
`localEvents`, `localShown` are the file system, the two channels and the panel; each
callback (`LocalOpen` to `StartDownload`, with the checks of `valid_target`) and each arm
of `local_worker` is an action. `create_dir_all` and `remove_dir_all` may fail halfway
and leave what they did: `MadeUpTo`, `RemovedFrom`. The code then differs from command to
command, and so do the actions: delete lists the parent whether it worked or not,
mkdir and rename return at the error and list nothing. A download is joined to
the panel's path when it is asked for, and when it is through it lists its directory from
its own thread (`ListDownload`) and sends the listing (`EmitDownload`), which moves the
panel there. A menu that is left open over a change of directory can name any row, so
`LocalDelete` and `LocalRename` take any name; what that leads to is `MenuActsOnRow` of
`RemoteBrowser`, the panels being one component of the window. `localDrifted` is the
history of what no listing follows.

### FtpSession

One session from its login to its end; sessions share nothing but the server. `server`
says in which passive modes data can flow and whether MLSD is known, `listable` which
directories may be read (and changes), `lost` that the control connection is gone.
`mode` and `streamMode` are `FtpSession.mode` and the mode of the `FtpStream` below it,
which `set_mode` keeps in step. `Connect` dials, logs in and sets the first mode, `Probe`
is the listing that `Auto` makes at login, `ListMlsd`, `List`, `ListAgain` are the three
stages of `list_dir`, `Transfer` is `download_file` or `put_file`. Every exchange may
fail for reasons other than the mode; the code does not tell these apart, and
`hindrance` is the history that does. The sessions of transfer threads log in by
the same code, hence probe by themselves (DEVELOPMENT.md:334 describes the mode as
negotiated once); they list a directory after an upload only.

### Calendar and Listings

`Calendar` has the three functions of `parser.rs` that compute with dates,
`CivilYearLen`, `YearOf` and `DaysFromCivil`, and for reference a calendar on the wall
that is only ever turned over: `NextDay`, or `NextMonth` and `NextYear` from first day
to first day. `serial` counts the days and is what the code ought to compute. The loop
of `year_of` is the recursive function `YearFrom`. No year has more than four digits.

`Listings` puts a clock and a file on that calendar. `WriteFile` notes the time by the
server's clock, which is `ahead` of the client's (`Now`, which begins with 1970: the
code takes a clock before that for none); `LineOf` prints the file's line
as MLSD, `ls -l` and Windows servers (with and without AM/PM) do, with the year left out
for half a year and perhaps only two digits of it; `ParseListingLine` is the client, with
the three parsers tried in the code's order. A name is a sequence of tokens, those that
the parsers look at (`;`, `=`, ` -> `, whitespace) and words for all else. A word is none of
the names of facts that `parse_mlsd` looks for, so that a line of `ls` that is taken for
MLSD has neither type nor time. `Carried` says which names survive the way through a style
of listing, `Legible` which lines are read at all (an hour without AM or PM up to 12, a year
of `ls` from 1970 to 2200), `YearKnown` and `TimeLost` what a line no longer tells.

## 3. Runs

| run | module, cfg | bounds | what it shows |
|---|---|---|---|
| `queue_safety` | `TransferQueueMC.cfg` | 4 tasks, 2 slots, 1 configuration, 2 unserved commands, spawns may fail, symmetric tasks | the safety properties and the inductive invariant; the queue implements `TransferService` |
| `queue_live` | `TransferLive.cfg` | 3 tasks, 1 slot | cancellations end tasks and free slots; accepted tasks finish; tasks change state along `can_transition`, but for being cancelled in the line |
| `queue_stall` (violated) | `TransferStall.cfg` | 2 tasks, 1 slot | the silent data connection of its file keeps a cancelled task and its slot for ever |
| `panel_safety` | `TransferPanelMC.cfg` | 2 tasks on 1 server or 1 task and 2 servers, 1 slot, 1 unserved command in each channel | rows, indicator and scheduler agree with what happened |
| `panel_live` | `TransferPanelLive.cfg` | 2 tasks, 1 slot | a cancellation clicked in the panel shows in its row |
| `panel_stuck` (violated) | `TransferPanelStuck.cfg` | 1 task | a request before the first login leaves a row that waits for ever |
| `panel_offline` (violated) | `TransferPanelOffline.cfg` | 1 task | transfers start after a disconnect |
| `files_safety` | `TransferFilesMC.cfg` | 2 tasks, 2 slots, 1 local and 2 remote paths, files of 2 chunks | a transfer that failed leaves nothing it wrote, one that succeeded undisturbed left a whole copy |
| `files_cleanup` (violated) | `TransferFilesCleanup.cfg` | the same | cleanup removes a file the transfer never wrote |
| `browser_safety` | `PanelsMC.cfg` | 5 paths in two levels, 3 entries with the root on the server, any number on the disk, 1 unserved command, 1 listing on its way, 1 upload or download | rows are what is in the directory above them; a panel at rest shows its directory as it is; trees stay trees |
| `browser_menu` (violated) | `RemoteBrowserMenu.cfg` | the remote panel of the same | a listing that arrives under an open menu redirects delete and rename |
| `session_safety` | `SessionListingsMC.cfg` | any server, 2 directories; 1970 to 2203, 3 hours of a day, 3 time zones, 12 names | when listings and transfers may fail, and which mode is settled on; which names and times come back from a listing |

Why the bounds are enough. The program's limit is 2 slots, and with 4 tasks two
run while two wait, so that requests are dispatched one and two at a time, a
request is taken from the front, the middle and the end of the line, and a slot
can be freed while another is being cancelled. The liveness runs use one slot:
starvation needs a line, not two slots, and 3 tasks on 1 slot give a line of
two. `MaxCommands` bounds what the control thread leaves unserved; transfer
threads always may send, so the channel still holds a `TaskDone` of every task
besides. `MaxRequests` and `MaxEvents` do the same for the panel: an event of a
transfer thread or the scheduler is never held back, only the control thread
waits, and only announcements of a chunk are dropped, as the code drops those
that follow within `PROGRESS_INTERVAL`. In the file runs `Wanted` lists the
requests that are made: a download and an upload between the same two paths,
and an upload whose target is the file a misdirected DELE would reach. With two tasks
that gives two writers of one target, a reader of what another writes, and a
cleanup under another's open file; `Missing` lets the source or the target be
absent at the start, and files of `Size` 2 have a first, a middle and an end
position. Two servers are the fewest with which
the scheduler and the session could differ, two tasks the fewest of which one waits for
the slot of the other. `panel_safety` takes the one or the other (`Within`): the
connection properties speak of no task and the rows of no server. Once both tasks are
requested its user neither browses nor logs in (`Calm`), but disconnects, cancels and clears rows. In `panel_live` the user
only cancels and clears rows once both tasks are requested (`Settled`), so that two tasks
meet in the line, and a single one meets logins, disconnections and browsing too. In the browser runs the login directory lies
below the root, next to a directory of another name that the path line reaches
both as an absolute and as a relative path, and both can hold an entry of one
name; 3 entries (the root counts) are a directory and something in it, or two
siblings to rename over each other. With one command unserved and one listing
unapplied, a click still crosses the answer to the one before. The local panel
has the same paths, and its path line leads back to the root or takes a "..". Typed names
are one name, a name with a separator after it, one that steps up first, the root, an
absolute path, the directory that is shown ("./"), and the three that `valid_target` refuses.
The disk of the run holds as much as the server (`Few`). Symmetry is used
only where tasks are interchangeable and no liveness is checked.

The session of `session_safety` is unbounded: its state is finite. The calendar goes
through the days one by one in December to February of years of every kind (`Watched`: a
turn of the year in each century that two digits may mean, leap years by 4 and by 400, and
2100, which is none), and by months and years between. Files are written (`Marks`) on the
days next to those turns and in the middle of a year, the latter under every name, on the
first day of all, where the client's clock may not have begun, and in 2200 and 2201, the last
year that is read and the next. The
hours are the two ends of a day and noon, which is where AM and PM turn; the offsets are
the largest there are, and none. The years of a calendar come to an end, which is why this run
alone does not check for deadlock.

Two roots put two components beside each other, `PanelsMC` the two panels and
`SessionListingsMC` sessions and listings. They share no variable and the properties are
invariants of one or the other, so each is explored while the other is as it was at the
start: nothing is lost that an invariant could see, and the product is not built.

Fairness. Threads are scheduled by the operating system: `WF` on the scheduler, on the
event loop, and on the steps of transfer threads and of the control worker that wait for the
processor, the disk or a reply on the control connection (`Acting`, `Attending`), because that
connection has a 15 s connect and a 30 s read and write timeout (`src/ftp/client.rs:12-13`).
Data connections have none, and more steps wait for one than those that copy a file.
They are fair by assumptions on the network, each with its name:

* `ChunksArrive`: the data connection of an open file (`Moving`).
* `ListingsArrive`: the listings of a transfer thread (`Dialling`), which are the probe of the
  passive mode at its login (`src/ftp/client.rs:46`) and the directory after an upload
  (`src/core/queue.rs:398`), and the data connection that RETR or STOR dials.
* `RepliesArrive`: the listings of the control worker (`Listening`): the probe at its login,
  the directory after it (`src/app.rs:669`) and whatever the remote panel asks
  (`src/app.rs:677-722`).

`queue_live` makes the first two, `panel_live` all three: a cancellation waits behind
whatever the control worker has under way, and if that is silent for ever it is never
served. `queue_stall` makes the second only, and shows what the first is needed for. That a
transfer ends at all (`TransfersEnd`) is a premise of `AcceptedFinishes`, not part of
the specification. The user and the client are never fair.

## 4. Proofs

Every theorem holds for any values of the constants that the named assumptions of its
modules allow; nothing else is assumed.

| module | theorem | property |
|---|---|---|
| `TransferQueueProofs` | `InvHolds` | `Inv`, the inductive invariant |
| | `TypeCorrect` | `TypeOK` |
| | `ConnectionsBounded` | `ConnectionBound` |
| | `RequestsConserved` | `OnePlace` |
| | `SlotsAreUsed` | `WorkConserving` |
| | `ReportsAreHonest` | `OneHonestReport` |
| | `LineIsFair` | `NoOvertaking` |
| | `QueueImplementsService` | `ImplementsService` |
| | `TableIsFollowed` | `FollowsTable` |
| `TransferPanelProofs` | `PanelTyped` | `PanelTypeOK` |
| | `RowsAreTrue` | `RowsCatchUp` |
| | `FinalRowsAreFinal` | `FinalRowsStay` |
| | `IndicatorIsRight` | `ConnectionShown` |
| | `ServerIsShared` | `SameServer` |
| `TransferFilesProofs` | `FilesTyped` | `FilesTypeOK` |
| | `FailuresLeaveNothing` | `NoResidue` |
| | `CompletedIsCopy` | `CompletedIsWhole` |
| `RemoteBrowserProofs` | `BrowserTyped` | `BrowserTypeOK` |
| | `RowsStayCurrent` | `RowsAreCurrent` |
| | `PanelsAreTrue` | `PanelIsTrue` |
| `LocalPanelProofs` | `LocalTyped` | `LocalTypeOK` |
| | `LocalPanelsAreTrue` | `LocalPanelIsTrue` |
| `FtpSessionProofs` | `SessionTyped` | `SessionTypeOK` |
| | `ModesSettle` | `ModeSettled` |
| | `ListingsGetThrough` | `ListingGetsThrough` |
| | `TransfersReach` | `TransferReaches` |
| `ListingsProofs` | `DaysAreRight` | `CivilDays` |
| | `YearsAreFound` | `YearFound` |
| | `ListingIsTyped` | `ListingTypeOK` |
| | `EveryNameComesBack` | `NamesComeBack` |
| | `EveryDateComesBack` | `DatesComeBack` |

Every invariant and every action property that a passing run checks is in this table.

### The queue

For any set of tasks and configurations and any positive `MaxConcurrent` and
`MaxCommands`, whether or not spawning may fail. None of these properties is inductive.
That the limit holds, for instance, needs
that every thread that is alive has a slot (`AliveHasSlot`), which survives
`RecvTaskDone` only because a `TaskDone` in the channel means that its thread is
gone (`DoneIsLast`), which in turn needs that a task is started once, hence that
it is in the channel or the line once and fresh while it is there
(`QueuedOnce`, `QueuedIsFresh`, `RejectedForGood`). The parts are stated in
`TransferQueueInv` and their conjunction `Inv` is also checked by `queue_safety`.
The proof has one lemma per action (or group of actions that touch the same
parts) and, beneath, one step per part; lemmas about `Append`, `Tail`,
`RemoveAt` and `Dispatch` come first.

The refinement uses the same invariant. `WorkConserving` makes a call of
`dispatch` start one task at most, which `DispatchAdmits` turns into a step
`Admit` of the service; a freed slot belongs to a task that is already reported
(`Settled`), so that the client does not see it go; a request in the channel is
New and one in the line Pending (`QueuedIsFresh`), a reporting task is Running
(`AliveHasSlot`, `OneHonestReport`). All other steps are stutters. That tasks follow the table
`can_transition` is read off the service's four steps (`ServiceTable`).

### The queue panel

`QueueBelow` shows that a step of `TransferPanel` is, to the queue, a step of its client, of
the scheduler or of a thread, or none, so that `Inv` carries over and only what is
between the threads and the screen remains. `PanelInv` says where the news of a task are:
`EventsFit` that the end of a task is the last event about it and carries the outcome
reported, and that nothing is said before its thread announces itself; `RowFits` that a row
shows what was said last, or an event about its task is still in the loop. A final row
needs both: no event of its task is left, and a reported task emits no more
(`OneHonestReport`). `Asked` keeps the row ahead of the request, which is why a new row
meets no old events. `Indicator` and `Told` follow the connection the same way: the last
news of it under way, to the toolbar or to the scheduler, is how things are now. How they are
is not only a matter of `session`: between the login and the end of the first listing the
thread is logged in without having one (`Online` for the toolbar, `LoggedIn` for the
scheduler, which is told a step later), and `ControlFits` says what `session` and
`dialled` are in each phase of a handler.

### The files

Two facts carry everything, for any paths, requests and lengths. An inode is only ever
found at the path where it was made (`Homes`), so that transfers meet in a file only if their
paths meet, in which case both are `disturbed` (`Meetings`); and a task makes its
inode once (`Unopened`), so that a file that was removed does not come back to its path.
From the first, no other transfer changes a file that an undisturbed one reads or
writes, and `CopiedSoFar` holds chunk by chunk. From the second and from `Written`
(what a task wrote is in the one inode it opened), a failed download or a cleaned-up upload
leaves nothing of its own at its target (`Cleared`), also when cleanup removed somebody
else's file in its place. Where the removal was refused nothing is claimed. `NameAssumption` tells tasks, paths and the absence of a file apart.

### The panels

For any finite or infinite set of names, any set of paths that contains what lies above
each of its members (`PathAssumption`), any set of texts that contains their beginnings,
read from left to right (`TextAssumption`), any typed names, and any length of the channels.
That the tree stays a tree is a matter of `TreesProofs`: making an entry in a directory,
removing what is empty, and moving a subtree, where what lies below the new name comes from
below the old one. A typed name may lead anywhere, so nothing keeps a rename in its
directory; it is the server and the disk that refuse to move a directory below itself
(`CanMove`, `CanRename`), and moving to where it was changes nothing (`MovedNowhere`). On the
disk the text has to be followed: what `create_dir_all` makes is closed upwards because each
beginning of a text leads somewhere itself (`TextBegins`, `ReachedIsDir`), and what is named
lies in a directory (`NamedInDir`). On the server both cases of a rename meet in
`MovingKeeps`, and an upload, which lists the directory above its target, needs that the target
is never the root (`Naming`); that nothing is joined to a row that is not there needs `NoRowAssumption`.

The three properties that relate a panel to its tree speak of the panel once the listings
are applied; on the way there the truth travels through the channels. `NewestIsCurrent`
says of the newest listing, in the event loop or else on screen, that it shows its directory
as it is, unless `stale`: a command that changes the tree either sends a listing of what is
there by then, of whichever directory, or raises `stale`. The rows of every listing, the one
an upload holds included, can be joined to its path (`AllRooted`), so that what is asked of a row
names a path. `NewestIsTrue` is the same
on the disk, whose worker has no directory of its own. `PanelIsTrue` also needs to know which
directory: `Peaceful` says that, as long as nothing drifted, one command or one listing is
under way, never both, and the newest listing is of the session's directory.

### The session

The session's invariant says why each mode is in use: the stream follows `FtpSession.mode` and
a forced PASV stays (`Agreed`), in Auto EPSV is in use only while the probe is pending or since
it went through (`Probed`), a forced EPSV lasts at least until the one transfer of a thread
(`Forced`, because a transfer thread lists a directory only afterwards), and whoever gave EPSV
up where it works had met a hindrance (`GivenUp`).

### Calendar and listings

For every date up to the year 9999, every set of names that are sequences of tokens of any
length, any whole hours of the day and any time zone from -12 to +14.

`DaysAreRight` compares the arithmetic with the calendar for every date: `ClosedForm` rids
the code's formula of its 400-year cycles, `MarchToMarch` finds its years, which begin in March,
as long as the February at their end makes them, and `MonthStarts` tabulates
`(153 m + 2) / 5`.

What a recursive function computes cannot be shown by induction over its argument here, but
the calendar does the induction: `CameTo(y)` says that from 1970 the loop of `year_of` comes to
the year `y` for each day from its first on, one more unfolding of `YearFrom` takes it to the
next year, and `YearsBehind`, that it holds of all years the calendar has gone through, is
part of the inductive invariant `CalendarInv`. `YearsAreFound` follows, and also the years around
the present one that a client in another time zone may see.

`ListingInv` adds that the time of a file is what its date and hour make (`FileWritten`). For
the times (`EveryDateComesBack`) `ClientsYear` leaves three years for the client's clock,
`NewYearsDay` says when it is the last one, and
`InferredIsWritten` that the year left out of a line is found in all cases but that:
two times a year apart differ by 365 days at least (`YearApart`), which is more than half a year
and a day. With the year written out, another year is another time (`YearsDiffer`), so a
century that is guessed wrong shows.

For the names (`EveryNameComesBack`) each step of the parsers is a lemma of its own, for all
sequences of tokens: where the facts end and that a name that looks like none has no such
end; that `Joined` keeps order and neighbours of what it keeps, because the n-th position
that is left has rank n; that `Trim` and `BeforeArrow` cut at the ends only. That a name
does not come back when it is not `Carried` is shown by length: whatever is cut off or
joined makes it shorter. `RowIs` puts the three parsers together, and `OneRow` adds the lines
of a directory itself and its parent.

Writing the proofs changed what the model and its properties say, where no instance had shown it: a link
whose own name ends in an arrow is cut there (`Carried`); on 1 January 1970 the client's clock
cannot lie behind (`BeforeNewYear`, and `Now`, which does not go below 0); a line of `ls` with
a year after 2200 is not read (`Legible`). The run has files of these kinds since.

### Model-checked only

Liveness: `CancelHonoured`, `CancelFreesSlot` and `AcceptedFinishes` (`queue_live`) and
`CancelShows` (`panel_live`), which need `ENABLED`.

## 5. Findings

`PROJECT.json` quotes the lines.

* A request made before the first login is dropped silently for its row
  (`panel_stuck`).
* After a disconnect transfers still start, at the server that was left
  (`panel_offline`).
* "Can be cancelled at any time" does not hold while the data connection is silent
  (`queue_stall`).
* Cleanup after a failure removes a file by its path, also one the transfer
  never opened: a download that fails at CWD removes the local file, a failed
  upload may remove a file of that name in the login directory
  (`files_cleanup`).
* A right click keeps the name of a row only; a listing that arrives while its
  menu is open makes delete and rename name an entry of another directory
  (`browser_menu`).

Two more places where the documents and the code part, which no run refutes:

* The state diagram (DEVELOPMENT.md:171-176) and `can_transition` have no step from
  Pending to Canceled, which the scheduler takes (`src/core/queue.rs`, `cancel`). Nothing
  but its own tests calls `can_transition`. `FollowsTable` states what holds: the table and
  this one step.
* DEVELOPMENT.md:334 has the passive mode negotiated once and shared. Each transfer thread
  negotiates its own, with a probe of the login directory that can fail by itself
  (`TransferReaches` says when that matters).

## 6. Plan

Done, in this order: `TransferQueue` with its abstract service, refinement and proofs;
`TransferPanel`; `TransferFiles`; `RemoteBrowser`; `LocalPanel`; `FtpSession`; `Calendar` and
`Listings`; the proofs of the panels, the session and the calendar, then of the queue panel,
the files and the table of states, and those of the listings. What is left is under "Model-checked only" and below.

### Not modelled

* Progress figures, sizes, speeds and names in a row of the queue; the row's `i32` copy of a
  64-bit task id, which would take 2^31 transfers to matter.
* `Ping` and `Chmod`, which change nothing that the program reads afterwards.
* `sort_entries`, sizes, permissions, and the splitting of a line into columns: no
  property of the system depends on them. The columns of permissions and size are taken as
  well-formed (`parser.rs:37-52` drops a line where they are not), and the target of a link is one
  word, without `=` or `;`, so that `NamesComeBack` says "exactly if" of such lines only.
* Relative paths typed into the local path line (they begin where the program was started),
  links, names that are not UTF-8, and downloads asked for before the first local listing. A
  separator after a typed name is dropped, though a disk would refuse "b/" where b is a file;
  a refusal is possible at any time in the model too.
* Replies that are lost after a command took effect on the server.
* The addresses that `dial` tries one after another: one attempt that may fail.
* Start-up configuration, layout, theme and logging: read once or written only.
* suppaftp, the server and the operating system's file system, which appear as
  nondeterminism; the test doubles, which are not part of the program.
