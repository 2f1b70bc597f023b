--------------------------- MODULE TransferPanel ---------------------------
(***************************************************************************)
(* The transfer queue as its user sees it: the UI thread with the rows of  *)
(* the queue panel (App and apply_event of src/src/app.rs), the control    *)
(* thread that logs in and forwards requests (control_worker), and the     *)
(* scheduler and transfer threads of TransferQueue, joined by three        *)
(* queues: ftp_tx, queue_tx and the event loop of the UI.                  *)
(*                                                                         *)
(* The control thread serves one command at a time, and a handler that     *)
(* waits for the server is a phase it stays in meanwhile: the other        *)
(* threads go on, and commands wait behind it.                             *)
(*                                                                         *)
(* Of the events only those that change a row or the connection state are  *)
(* modelled; log lines, listings and error texts are not.                  *)
(***************************************************************************)
EXTENDS TransferQueue

CONSTANTS
    MaxRequests,    \* bound on the commands the UI leaves unserved
    MaxEvents       \* bound on the events beyond which optional ones are dropped
                    \* and the user neither connects nor disconnects

ASSUME PanelBoundAssumption == MaxRequests \in Nat \ {0} /\ MaxEvents \in Nat \ {0}

VARIABLES
    \* the UI thread
    rows,           \* the status column of the queue panel
    requested,      \* tasks that were given an id and a row
    connected,      \* what the toolbar shows
    \* between the threads
    ftpCommands,    \* from the UI to the control thread
    events,         \* from all threads to the UI, in the order of the event loop
    \* the control thread
    session,        \* the configuration of its FtpSession, NoConfig for None
    control,        \* the handler that waits for the server
    dialled         \* the configuration that Connect dials with meanwhile

uiVars == <<rows, requested, connected>>
controlVars == <<session, control, dialled>>
panelVars == <<vars, uiVars, ftpCommands, events, controlVars>>

\* Connect until it has logged in, then until the scheduler is told, then
\* until the directory is listed; Quit; or any command for the remote panel.
Handler == {"idle", "connecting", "informing", "listing", "quitting", "browsing"}

FinalStatus == {"completed", "failed", "canceled"}
Status == {"absent", "waiting", "transferring"} \cup FinalStatus

ConnectRequest(c) == [kind |-> "Connect", config |-> c]
QuitRequest == [kind |-> "Quit"]
\* List, Navigate, Mkdir, Delete and Rename, of which only the wait matters.
BrowseRequest == [kind |-> "Browse"]
EnqueueRequest(t) == [kind |-> "EnqueueTransfers", task |-> t]
CancelRequest(t) == [kind |-> "CancelTask", task |-> t]

FtpCommand == {ConnectRequest(c) : c \in Config} \cup {QuitRequest, BrowseRequest}
                \cup {EnqueueRequest(t) : t \in Task} \cup {CancelRequest(t) : t \in Task}

Progress(t) == [kind |-> "TaskProgress", task |-> t]
Finished(t, o) == [kind |-> "TaskFinished", task |-> t, outcome |-> o]
Connected == [kind |-> "Connected"]
Disconnected == [kind |-> "Disconnected"]

FtpEvent == {Progress(t) : t \in Task} \cup {Finished(t, o) : t \in Task, o \in Outcome}
              \cup {Connected, Disconnected}

PanelInit ==
    /\ Init
    /\ rows = [t \in Task |-> "absent"]
    /\ requested = {}
    /\ connected = FALSE
    /\ ftpCommands = <<>>
    /\ events = <<>>
    /\ session = NoConfig
    /\ control = "idle"
    /\ dialled = NoConfig

-----------------------------------------------------------------------------
(* The UI thread: its callbacks.                                           *)

Request(command) ==
    /\ Len(ftpCommands) < MaxRequests
    /\ ftpCommands' = Append(ftpCommands, command)
    /\ UNCHANGED <<vars, connected, events, controlVars>>

\* One button of the toolbar connects or disconnects by what it shows.
QuickConnect(c) ==
    /\ ~connected
    /\ Len(events) < MaxEvents
    /\ Request(ConnectRequest(c))
    /\ UNCHANGED <<rows, requested>>

Disconnect ==
    /\ connected
    /\ Len(events) < MaxEvents
    /\ Request(QuitRequest)
    /\ UNCHANGED <<rows, requested>>

\* The remote panel asks whether it is connected or not.
Browse == Request(BrowseRequest) /\ UNCHANGED <<rows, requested>>

\* A double click on a file.  The row is there before the request is sent,
\* and nothing asks whether there is a connection: the local panel always
\* counts as connected and the remote one keeps its last listing.
TransferFile(t) ==
    /\ t \notin requested
    /\ requested' = requested \cup {t}
    /\ rows' = [rows EXCEPT ![t] = "waiting"]
    /\ Request(EnqueueRequest(t))

\* The selection outlives the row, so the row may be gone by now.
CancelTask(t) ==
    /\ t \in requested
    /\ Request(CancelRequest(t))
    /\ UNCHANGED <<rows, requested>>

ClearFinished ==
    /\ \E t \in Task : rows[t] \in FinalStatus
    /\ rows' = [t \in Task |-> IF rows[t] \in FinalStatus THEN "absent" ELSE rows[t]]
    /\ UNCHANGED <<vars, requested, connected, ftpCommands, events, controlVars>>

User == \/ \E c \in Config : QuickConnect(c)
        \/ Disconnect
        \/ Browse
        \/ \E t \in Task : TransferFile(t) \/ CancelTask(t)
        \/ ClearFinished

-----------------------------------------------------------------------------
(* The UI thread: apply_event, for the event at the head of the loop.      *)

Take(kind) ==
    /\ events # <<>>
    /\ Head(events).kind = kind
    /\ events' = Tail(events)
    /\ UNCHANGED <<vars, requested, ftpCommands, controlVars>>

\* Rows are looked up by id; an event for a row that is gone is ignored.
SetRow(t, status) ==
    rows' = IF rows[t] = "absent" THEN rows ELSE [rows EXCEPT ![t] = status]

\* Whatever the row showed before, it shows a transfer under way.
ApplyProgress ==
    /\ Take("TaskProgress")
    /\ SetRow(Head(events).task, "transferring")
    /\ UNCHANGED connected

ApplyFinished ==
    /\ Take("TaskFinished")
    /\ SetRow(Head(events).task,
              CASE Head(events).outcome = "Completed" -> "completed"
                [] Head(events).outcome = "Failed" -> "failed"
                [] Head(events).outcome = "Canceled" -> "canceled")
    /\ UNCHANGED connected

ApplyConnected ==
    /\ Take("Connected")
    /\ connected' = TRUE
    /\ UNCHANGED rows

ApplyDisconnected ==
    /\ Take("Disconnected")
    /\ connected' = FALSE
    /\ UNCHANGED rows

ApplyEvent == ApplyProgress \/ ApplyFinished \/ ApplyConnected \/ ApplyDisconnected

-----------------------------------------------------------------------------
(* Sending to the UI.                                                      *)

Emit(event) == events' = Append(events, event)

-----------------------------------------------------------------------------
(* The control thread: it takes a command when it has done with the last.  *)

Serve(kind) ==
    /\ control = "idle"
    /\ ftpCommands # <<>>
    /\ Head(ftpCommands).kind = kind
    /\ ftpCommands' = Tail(ftpCommands)
    /\ UNCHANGED uiVars

\* A handler that waited goes on.
GoOn(from, to) ==
    /\ control = from
    /\ control' = to
    /\ UNCHANGED <<uiVars, ftpCommands>>

\* Mutant of ServeConnect: the old session is given up before dialling.
ServeConnectAfresh ==
    /\ Serve("Connect")
    /\ control' = "connecting"
    /\ dialled' = Head(ftpCommands).config
    /\ session' = NoConfig
    /\ UNCHANGED <<vars, events>>

\* Mutant of ServeConnect: the scheduler is told before the login succeeds.
ServeConnectEagerly ==
    /\ Serve("Connect")
    /\ control' = "connecting"
    /\ dialled' = Head(ftpCommands).config
    /\ SendSetConfig(Head(ftpCommands).config)
    /\ UNCHANGED <<events, session>>

\* The old session is kept while the new one is dialled.
ServeConnect ==
    /\ Serve("Connect")
    /\ control' = "connecting"
    /\ dialled' = Head(ftpCommands).config
    /\ UNCHANGED <<vars, events, session>>

\* A login that fails leaves everything, the old session included, as it was.
FailLogin ==
    /\ GoOn("connecting", "idle")
    /\ dialled' = NoConfig
    /\ UNCHANGED <<vars, events, session>>

LogIn ==
    /\ GoOn("connecting", "informing")
    /\ Emit(Connected)
    /\ UNCHANGED <<vars, session, dialled>>

Inform ==
    /\ GoOn("informing", "listing")
    /\ SendSetConfig(dialled)
    /\ UNCHANGED <<events, session, dialled>>

\* Only after the first listing, or its failure, is the session in place.
EndConnect ==
    /\ GoOn("listing", "idle")
    /\ session' = dialled
    /\ dialled' = NoConfig
    /\ UNCHANGED <<vars, events>>

\* The session is taken out before QUIT is sent; the scheduler hears nothing.
ServeQuit ==
    /\ Serve("Quit")
    /\ control' = "quitting"
    /\ session' = NoConfig
    /\ UNCHANGED <<vars, events, dialled>>

EndQuit ==
    /\ GoOn("quitting", "idle")
    /\ Emit(Disconnected)
    /\ UNCHANGED <<vars, session, dialled>>

\* Without a session the panel is answered at once.
ServeBrowse ==
    /\ Serve("Browse")
    /\ control' = IF session = NoConfig THEN "idle" ELSE "browsing"
    /\ UNCHANGED <<vars, events, session, dialled>>

EndBrowse ==
    /\ GoOn("browsing", "idle")
    /\ UNCHANGED <<vars, events, session, dialled>>

ServeEnqueue ==
    /\ Serve("EnqueueTransfers")
    /\ SendEnqueue(Head(ftpCommands).task)
    /\ UNCHANGED <<events, controlVars>>

ServeCancel ==
    /\ Serve("CancelTask")
    /\ SendCancel(Head(ftpCommands).task)
    /\ UNCHANGED <<events, controlVars>>

\* The steps that wait for nothing or for a reply that comes or times out.
Attending == ServeConnect \/ Inform \/ ServeQuit \/ EndQuit \/ ServeBrowse
               \/ ServeEnqueue \/ ServeCancel

\* The steps that also wait for a listing over a data connection: the probe
\* of the mode, the listing after a login, and what the remote panel asks.
Listening == LogIn \/ FailLogin \/ EndConnect \/ EndBrowse

ControlWorker == Attending \/ Listening

-----------------------------------------------------------------------------
(* The scheduler and the transfer threads, with the events they emit.      *)

Silent == UNCHANGED <<uiVars, ftpCommands, controlVars, events>>
Speak(event) == UNCHANGED <<uiVars, ftpCommands, controlVars>> /\ Emit(event)

\* Mutant of ReportCancelled: a request taken out of the line goes quietly.
ReportCancelledSilently == CancelPending /\ Silent

\* The scheduler speaks for a request it takes out of the line.
ReportCancelled == CancelPending /\ Speak(Finished(Head(commands).task, "Canceled"))

Schedule ==
    \/ RecvSetConfig /\ Silent
    \/ RecvEnqueue /\ Silent
    \/ RecvTaskDone /\ Silent
    \/ CancelRunning /\ Silent
    \/ CancelNothing /\ Silent
    \/ ReportCancelled

\* Mutant of ReportFinished: the last progress follows the outcome.
ReportFinishedEarly(t) ==
    /\ Report(t)
    /\ UNCHANGED <<uiVars, ftpCommands, controlVars>>
    /\ events' = events \o <<Finished(t, outcome[t]), Progress(t)>>

ReportFinished(t) == Report(t) /\ Speak(Finished(t, outcome[t]))

\* A chunk is announced if the last announcement is long enough ago.
ReportChunk(t) ==
    /\ MoveChunk(t)
    /\ \/ Silent
       \/ Len(events) < MaxEvents /\ Speak(Progress(t))

\* Mutant of ReportEnd: the end of the file is announced as the end of the task.
ReportEndFinished(t) ==
    /\ EndMove(t)
    /\ IF worker'[t] = "refreshing" THEN Speak(Finished(t, outcome[t])) ELSE Silent

\* The end of the file is announced, an error is not.
ReportEnd(t) ==
    /\ EndMove(t)
    /\ IF worker'[t] = "refreshing" THEN Speak(Progress(t)) ELSE Silent

TransferThread(t) ==
    \/ Announce(t) /\ Speak(Progress(t))
    \/ ReportChunk(t)
    \/ ReportEnd(t)
    \/ ReportFinished(t)
    \/ /\ \/ CheckCancel(t) \/ Connect(t) \/ OpenTransfer(t) \/ Poll(t)
          \/ Refresh(t) \/ Conclude(t) \/ Cleanup(t) \/ SignalDone(t)
       /\ Silent

-----------------------------------------------------------------------------

PanelNext == \/ User
             \/ ApplyEvent
             \/ ControlWorker
             \/ Schedule
             \/ \E t \in Task : TransferThread(t)

PanelSpec == PanelInit /\ [][PanelNext]_panelVars

\* All threads and the event loop are scheduled fairly, which is the program's
\* and the system's part.
PanelControlFairness ==
    /\ ControlFairness
    /\ WF_panelVars(ApplyEvent)
    /\ WF_panelVars(Attending)

\* No listing that the control thread waits for is silent for ever: an
\* assumption on the network, for client.rs gives its data connections no
\* timeout.
RepliesArrive == WF_panelVars(Listening)

\* With every assumption on the network: listings and chunks arrive.
PanelFairSpec ==
    /\ PanelSpec
    /\ PanelControlFairness
    /\ RepliesArrive
    /\ ListingsArrive
    /\ ChunksArrive

-----------------------------------------------------------------------------
(* Safety.                                                                 *)

PanelTypeOK ==
    /\ TypeOK
    /\ rows \in [Task -> Status]
    /\ requested \subseteq Task
    /\ connected \in BOOLEAN
    /\ ftpCommands \in Seq(FtpCommand)
    /\ events \in Seq(FtpEvent)
    /\ session \in Config \cup {NoConfig}
    /\ control \in Handler
    /\ dialled \in Config \cup {NoConfig}
    /\ dialled # NoConfig <=> control \in {"connecting", "informing", "listing"}

\* A row that shows how its task ended never shows anything else again,
\* although any progress event would turn it back to a transfer under way.
FinalRowsStay ==
    [][\A t \in Task : rows[t] \in FinalStatus => rows'[t] \in {rows[t], "absent"}]_panelVars

AboutTask(t) == {i \in 1..Len(events) :
                   events[i].kind \in {"TaskProgress", "TaskFinished"} /\ events[i].task = t}

StatusOf(o) == CASE o = "Completed" -> "completed" [] o = "Failed" -> "failed"
                 [] o = "Canceled" -> "canceled"

\* Once the event loop has caught up with a task, its row tells the truth: a
\* reported task shows its outcome, one whose thread has announced itself
\* shows a transfer, and any other still waits.
RowsCatchUp == \A t \in Task : rows[t] # "absent" /\ AboutTask(t) = {} =>
    rows[t] = IF reports[t] # <<>> THEN StatusOf(reports[t][1])
              ELSE IF worker[t] \in {"none", "started"} THEN "waiting"
              ELSE "transferring"

\* When no change of connection is on its way, in the event loop or in a Quit
\* that still waits for its reply, the toolbar shows whether the control thread
\* is logged in, from the login on and through a second login that fails.
ConnectionShown ==
    /\ \A i \in 1..Len(events) : events[i].kind \notin {"Connected", "Disconnected"}
    /\ control # "quitting"
    => (connected <=> session # NoConfig \/ control \in {"informing", "listing"})

\* The server that the scheduler was last told of, while it is logged in to.
LoggedIn == IF control = "listing" THEN dialled ELSE session

\* While the control thread is logged in, the scheduler starts transfers on
\* the same server once it has received the configuration, also while a later
\* Connect dials, fails or still lists.  (A request that waits starts with the
\* configuration of the day it starts, not of the day it was made.)
SameServer ==
    LoggedIn # NoConfig /\ (\A i \in 1..Len(commands) : commands[i].kind # "SetConfig")
      => cfg = LoggedIn

\* "Not connected to a server, cannot start the transfer" is what the
\* scheduler answers to a request it refuses (queue.rs:123).
NoStartOffline ==
    [][\A t \in Task : worker[t] = "none" /\ worker'[t] = "started"
          => LoggedIn # NoConfig]_panelVars

-----------------------------------------------------------------------------
(* Liveness.                                                               *)

\* A cancellation asked for in the panel shows in the row: the request passes
\* the control thread, the scheduler, the flag, the transfer thread and the
\* event loop, and finds the task waiting, running or already finished.  A
\* rejected task is the exception.  It waits behind whatever the control
\* thread has under way, a login or a listing of the remote panel, so this
\* assumes that no data connection is silent for ever (RepliesArrive,
\* ListingsArrive, ChunksArrive).
CancelShows == \A t \in Task :
    Contains(ftpCommands, CancelRequest(t))
      ~> (rows[t] \in FinalStatus \cup {"absent"} \/ t \in rejected)

\* "Added to the download queue", the log says of every request
\* (app.rs:139): then its row does not wait for ever.
NoRowWaitsForEver == TransfersEnd => \A t \in Task :
    rows[t] = "waiting" ~> rows[t] # "waiting"
=============================================================================
