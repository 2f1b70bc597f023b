--------------------------- MODULE TransferQueue ---------------------------
(***************************************************************************)
(* The transfer queue of src/src/core/queue.rs: the scheduler thread       *)
(* (Scheduler::run), the transfer threads it spawns (spawn_transfer,       *)
(* run_download, run_upload) and the mpsc channel they share.              *)
(*                                                                         *)
(* The scheduler serves one command at a time and each handler is one      *)
(* action.  A transfer thread is a phase that moves at the points where    *)
(* the code does I/O or reads the cancel flag, so that every interleaving  *)
(* of a cancellation with a transfer is a behaviour.  The two directions   *)
(* have the same control flow and are one process here; what they do to    *)
(* files is the subject of TransferFiles.                                  *)
(*                                                                         *)
(* The sender of SetConfig, Enqueue and Cancel is the control thread.      *)
(* Progress events leave no trace here: TransferPanel adds the event queue *)
(* and the rows they change.                                               *)
(***************************************************************************)
EXTENDS Integers, Sequences, FiniteSets, SequencesExt

CONSTANTS
    Task,           \* transfer requests; the counter of App gives each its own id
    Config,         \* connection configurations that logged in
    NoConfig,       \* Option::None of Scheduler.cfg
    MaxConcurrent,  \* DEFAULT_CONCURRENCY
    SpawnMayFail,   \* whether thread::Builder::spawn can return Err
    MaxCommands     \* bound on the commands the control thread leaves unserved

ASSUME ConcurrencyAssumption == MaxConcurrent \in Nat \ {0}
ASSUME ConfigAssumption == NoConfig \notin Config
ASSUME SpawnAssumption == SpawnMayFail \in BOOLEAN
ASSUME BoundAssumption == MaxCommands \in Nat \ {0}

VARIABLES
    \* the channel into the scheduler
    commands,       \* QueueCommand values sent and not yet received, oldest first
    \* the scheduler thread
    cfg,            \* Scheduler.cfg
    pending,        \* Scheduler.pending
    running,        \* the keys of Scheduler.running
    cancelled,      \* the tasks whose CancelHandle has been raised
    \* the transfer threads
    worker,         \* where the thread of each task is
    server,         \* the configuration spawn_transfer moved into the thread
    outcome,        \* the local result of run_download / run_upload
    \* what the client can observe
    submitted,      \* tasks the control thread has sent in an Enqueue
    rejected,       \* tasks dropped because no configuration was set
    reports         \* outcomes of the TaskFinished events emitted for each task

schedulerVars == <<cfg, pending, running, cancelled, rejected>>
workerVars == <<worker, server, outcome>>
vars == <<commands, schedulerVars, workerVars, submitted, reports>>

Outcome == {"Completed", "Failed", "Canceled"}
NoOutcome == "none"

\* The points at which another thread can be observed, in program order.
Phase == {"none", "started", "checking", "connecting", "opening", "polling",
          "moving", "refreshing", "failed", "cleaning", "reporting",
          "signalling", "gone"}

SetConfigCommand(c) == [kind |-> "SetConfig", config |-> c]
EnqueueCommand(t) == [kind |-> "Enqueue", task |-> t]
CancelCommand(t) == [kind |-> "Cancel", task |-> t]
TaskDoneCommand(t) == [kind |-> "TaskDone", task |-> t]

QueueCommand == {SetConfigCommand(c) : c \in Config}
                  \cup {EnqueueCommand(t) : t \in Task}
                  \cup {CancelCommand(t) : t \in Task}
                  \cup {TaskDoneCommand(t) : t \in Task}

Init ==
    /\ commands = <<>>
    /\ cfg = NoConfig
    /\ pending = <<>>
    /\ running = {}
    /\ cancelled = {}
    /\ worker = [t \in Task |-> "none"]
    /\ server = [t \in Task |-> NoConfig]
    /\ outcome = [t \in Task |-> NoOutcome]
    /\ submitted = {}
    /\ rejected = {}
    /\ reports = [t \in Task |-> <<>>]

-----------------------------------------------------------------------------
(* The control thread, the one sender of these three commands.             *)

Send(command) ==
    /\ Len(commands) < MaxCommands
    /\ commands' = Append(commands, command)
    /\ UNCHANGED <<schedulerVars, workerVars, reports>>

\* A successful Connect hands the configuration on.
SendSetConfig(c) ==
    /\ Send(SetConfigCommand(c))
    /\ UNCHANGED submitted

\* The application wraps every request in a vector of one, with a fresh id.
SendEnqueue(t) ==
    /\ t \notin submitted
    /\ submitted' = submitted \cup {t}
    /\ Send(EnqueueCommand(t))

\* A cancel names a row of the queue panel, hence a task already submitted;
\* it may name one that has long finished.
SendCancel(t) ==
    /\ t \in submitted
    /\ Send(CancelCommand(t))
    /\ UNCHANGED submitted

-----------------------------------------------------------------------------
(* The scheduler thread.                                                   *)

Receive(kind) ==
    /\ commands # <<>>
    /\ Head(commands).kind = kind
    /\ commands' = Tail(commands)
    /\ UNCHANGED <<submitted>>

RecvSetConfig ==
    /\ Receive("SetConfig")
    /\ cfg' = Head(commands).config
    /\ UNCHANGED <<pending, running, cancelled, rejected, workerVars, reports>>

\* Mutant of Turns: the loop runs while running.len() <= max_concurrent.
TurnsOverbooked(waiting, slots) ==
    LET room == MaxConcurrent + 1 - Cardinality(slots)
    IN  IF room <= 0 THEN 0
        ELSE IF Len(waiting) <= room THEN Len(waiting) ELSE room

\* How many turns the loop of dispatch takes from these two values.
Turns(waiting, slots) ==
    LET room == MaxConcurrent - Cardinality(slots)
    IN  IF room <= 0 THEN 0
        ELSE IF Len(waiting) <= room THEN Len(waiting) ELSE room

\* Mutant of Dispatch: requests are popped from the back of the line.
DispatchNewest(waiting, slots) ==
    LET n == Turns(waiting, slots)
        batch == {waiting[i] : i \in Len(waiting) - n + 1..Len(waiting)}
    IN  /\ pending' = SubSeq(waiting, 1, Len(waiting) - n)
        /\ running' = slots \cup batch
        /\ worker' = [t \in Task |-> IF t \in batch THEN "started" ELSE worker[t]]
        /\ server' = [t \in Task |-> IF t \in batch THEN cfg ELSE server[t]]

\* Each turn pops the front, registers a fresh handle and spawns the thread
\* with a copy of cfg; an Err from spawn is ignored.  Without a configuration
\* the loop breaks after the pop, and that request is gone.
Dispatch(waiting, slots) ==
    LET n == Turns(waiting, slots)
        batch == {waiting[i] : i \in 1..n}
    IN  IF cfg = NoConfig
        THEN /\ pending' = IF n = 0 THEN waiting ELSE Tail(waiting)
             /\ running' = slots
             /\ UNCHANGED <<worker, server>>
        ELSE \E unborn \in IF SpawnMayFail THEN SUBSET batch ELSE {{}} :
             /\ pending' = SubSeq(waiting, n + 1, Len(waiting))
             /\ running' = slots \cup batch
             /\ worker' = [t \in Task |-> IF t \in batch \ unborn
                                          THEN "started" ELSE worker[t]]
             /\ server' = [t \in Task |-> IF t \in batch \ unborn
                                          THEN cfg ELSE server[t]]

\* Mutant of RecvEnqueue: the configuration is left to dispatch to check.
RecvEnqueueUnchecked ==
    /\ Receive("Enqueue")
    /\ Dispatch(Append(pending, Head(commands).task), running)
    /\ UNCHANGED <<cfg, cancelled, rejected, outcome, reports>>

RecvEnqueue ==
    /\ Receive("Enqueue")
    /\ IF cfg = NoConfig
       THEN /\ rejected' = rejected \cup {Head(commands).task}
            /\ UNCHANGED <<pending, running, worker, server>>
       ELSE /\ Dispatch(Append(pending, Head(commands).task), running)
            /\ UNCHANGED rejected
    /\ UNCHANGED <<cfg, cancelled, outcome, reports>>

\* Mutant of RecvTaskDone: the slot is freed and nobody is called up.
RecvTaskDoneIdle ==
    /\ Receive("TaskDone")
    /\ running' = running \ {Head(commands).task}
    /\ UNCHANGED <<cfg, pending, cancelled, rejected, workerVars, reports>>

RecvTaskDone ==
    /\ Receive("TaskDone")
    /\ Dispatch(pending, running \ {Head(commands).task})
    /\ UNCHANGED <<cfg, cancelled, rejected, outcome, reports>>

\* Mutant of CancelRunning: the handle is taken out of the map, slot and all.
CancelRunningForgets ==
    /\ Receive("Cancel")
    /\ Head(commands).task \in running
    /\ cancelled' = cancelled \cup {Head(commands).task}
    /\ running' = running \ {Head(commands).task}
    /\ UNCHANGED <<cfg, pending, rejected, workerVars, reports>>

\* Mutant of CancelRunning: the scheduler reports the task without waiting.
CancelRunningReports ==
    /\ Receive("Cancel")
    /\ Head(commands).task \in running
    /\ cancelled' = cancelled \cup {Head(commands).task}
    /\ reports' = [reports EXCEPT ![Head(commands).task] = Append(@, "Canceled")]
    /\ UNCHANGED <<cfg, pending, running, rejected, workerVars>>

\* A running task only has its flag raised: its thread decides the rest.
CancelRunning ==
    /\ Receive("Cancel")
    /\ Head(commands).task \in running
    /\ cancelled' = cancelled \cup {Head(commands).task}
    /\ UNCHANGED <<cfg, pending, running, rejected, workerVars, reports>>

\* A waiting task leaves the line and the scheduler reports it itself.
CancelPending ==
    /\ Receive("Cancel")
    /\ Head(commands).task \notin running
    /\ Contains(pending, Head(commands).task)
    /\ \E idx \in 1..Len(pending) :
         /\ pending[idx] = Head(commands).task
         /\ \A j \in 1..idx - 1 : pending[j] # pending[idx]
         /\ pending' = RemoveAt(pending, idx)
         /\ reports' = [reports EXCEPT ![pending[idx]] = Append(@, "Canceled")]
    /\ UNCHANGED <<cfg, running, cancelled, rejected, workerVars>>

\* Any other task: finished, rejected, or waiting nowhere.
CancelNothing ==
    /\ Receive("Cancel")
    /\ Head(commands).task \notin running
    /\ ~Contains(pending, Head(commands).task)
    /\ UNCHANGED <<schedulerVars, workerVars, reports>>

Scheduler == RecvSetConfig \/ RecvEnqueue \/ RecvTaskDone
               \/ CancelRunning \/ CancelPending \/ CancelNothing

-----------------------------------------------------------------------------
(* The transfer thread of task t.                                          *)

Step(t, from, to) ==
    /\ worker[t] = from
    /\ worker' = [worker EXCEPT ![t] = to]
    /\ UNCHANGED <<schedulerVars, server, submitted>>

\* A step that settles what run_download / run_upload will return.
Settle(t, from, to, result) ==
    /\ Step(t, from, to)
    /\ outcome' = [outcome EXCEPT ![t] = result]
    /\ UNCHANGED <<commands, reports>>

Go(t, from, to) ==
    /\ Step(t, from, to)
    /\ UNCHANGED <<commands, outcome, reports>>

\* The row is told that the transfer starts.
Announce(t) == Go(t, "started", "checking")

\* First look at the flag, before any connection is made.
CheckCancel(t) ==
    \/ /\ t \in cancelled
       /\ Settle(t, "checking", "reporting", "Canceled")
    \/ /\ t \notin cancelled
       /\ Go(t, "checking", "connecting")

\* A connection of its own; an error is a failure whatever the flag says.
Connect(t) ==
    \/ Go(t, "connecting", "opening")
    \/ Settle(t, "connecting", "reporting", "Failed")

\* CWD, the local file, and RETR or STOR with its data connection.
OpenTransfer(t) ==
    \/ Go(t, "opening", "polling")
    \/ Go(t, "opening", "failed")

\* Mutant of Poll: the flag is not looked at once the transfer is under way.
PollBlind(t) == Go(t, "polling", "moving")

\* The flag is read before each chunk and nowhere within one.
Poll(t) ==
    \/ /\ t \in cancelled
       /\ Go(t, "polling", "failed")
    \/ /\ t \notin cancelled
       /\ Go(t, "polling", "moving")

\* One chunk between the file and the data connection.
MoveChunk(t) == Go(t, "moving", "polling")

\* End of file and the closing reply, or an I/O error on either side.
EndMove(t) ==
    \/ Go(t, "moving", "refreshing")
    \/ Go(t, "moving", "failed")

\* Mutant of Refresh: the result is not settled on this path.
RefreshUnsettled(t) == Go(t, "refreshing", "reporting")

\* The directory that received the file is listed again.
Refresh(t) == Settle(t, "refreshing", "reporting", "Completed")

\* An error becomes Canceled or Failed by the flag as it is by then.
Conclude(t) ==
    Settle(t, "failed", "cleaning", IF t \in cancelled THEN "Canceled" ELSE "Failed")

\* What was left of the file is removed, best effort.
Cleanup(t) == Go(t, "cleaning", "reporting")

Report(t) ==
    /\ Step(t, "reporting", "signalling")
    /\ reports' = [reports EXCEPT ![t] = Append(@, outcome[t])]
    /\ UNCHANGED <<commands, outcome>>

\* Mutant of SignalDone: a cancelled transfer returns before it signals.
SignalDoneUnlessCanceled(t) ==
    /\ Step(t, "signalling", "gone")
    /\ commands' = IF outcome[t] = "Canceled" THEN commands
                   ELSE Append(commands, TaskDoneCommand(t))
    /\ UNCHANGED <<outcome, reports>>

\* Mutant of SignalDone: the slot is given back before the thread reports.
SignalDoneFirst(t) ==
    /\ Step(t, "reporting", "gone")
    /\ commands' = Append(commands, TaskDoneCommand(t))
    /\ UNCHANGED <<outcome, reports>>

SignalDone(t) ==
    /\ Step(t, "signalling", "gone")
    /\ commands' = Append(commands, TaskDoneCommand(t))
    /\ UNCHANGED <<outcome, reports>>

\* The steps that wait for the processor, the disk or a reply that comes or
\* times out on the control connection.
Acting(t) == Announce(t) \/ CheckCancel(t) \/ Poll(t) \/ Conclude(t)
               \/ Cleanup(t) \/ Report(t) \/ SignalDone(t)

\* The steps that may also wait for a data connection other than the open
\* file's: the listing that probes the mode, the one the file will use, and
\* the listing of the directory that received it.
Dialling(t) == Connect(t) \/ OpenTransfer(t) \/ Refresh(t)

\* The steps that wait for the data connection of the open file.
Moving(t) == MoveChunk(t) \/ EndMove(t)

-----------------------------------------------------------------------------

Client == \/ \E c \in Config : SendSetConfig(c)
          \/ \E t \in Task : SendEnqueue(t) \/ SendCancel(t)

Next == Client \/ Scheduler \/ \E t \in Task : Acting(t) \/ Dialling(t) \/ Moving(t)

Spec == Init /\ [][Next]_vars

-----------------------------------------------------------------------------
(* Safety.                                                                 *)

\* Every variable holds a value of its kind; in particular the scheduler and
\* the threads only ever report one of the three outcomes.
TypeOK ==
    /\ commands \in Seq(QueueCommand)
    /\ cfg \in Config \cup {NoConfig}
    /\ pending \in Seq(Task)
    /\ running \subseteq Task
    /\ cancelled \subseteq Task
    /\ worker \in [Task -> Phase]
    /\ server \in [Task -> Config \cup {NoConfig}]
    /\ outcome \in [Task -> Outcome \cup {NoOutcome}]
    /\ submitted \subseteq Task
    /\ rejected \subseteq Task
    /\ reports \in [Task -> Seq(Outcome)]

\* Threads that dial or hold a connection of their own.
Connections == {t \in Task : worker[t] \in
    {"connecting", "opening", "polling", "moving", "refreshing", "failed", "cleaning"}}

\* The transfers never hold more connections to the server than the limit,
\* although a slot is freed by a message that a thread sends about itself.
ConnectionBound == Cardinality(Connections) <= MaxConcurrent

\* The places a submitted task can be in, from the channel to its report.
Places(t) == {p \in {"channel", "rejected", "line", "slot", "reported"} :
    \/ p = "channel" /\ Contains(commands, EnqueueCommand(t))
    \/ p = "rejected" /\ t \in rejected
    \/ p = "line" /\ Contains(pending, t)
    \/ p = "slot" /\ t \in running
    \/ p = "reported" /\ t \notin running /\ reports[t] # <<>>}

\* No request is lost between the channel, the line and the slots, and none
\* is in two places at once, although cancel takes requests out of the middle
\* of the line while dispatch takes them from its front, and a slot may go to a
\* thread that is never born.
OnePlace == \A t \in submitted : \E p \in Places(t) : Places(t) = {p}

\* Between two commands no request waits while a slot is free: the handlers
\* that free a slot or lengthen the line all end in dispatch.
WorkConserving == pending # <<>> => Cardinality(running) = MaxConcurrent

\* A task is reported once, by the scheduler if it never started and by its
\* thread with the result it came to otherwise; a thread says Canceled only
\* if its flag was raised.
OneHonestReport == \A t \in Task : reports[t] # <<>> =>
    /\ Len(reports[t]) = 1
    /\ IF worker[t] = "none"
       THEN reports[t][1] = "Canceled"
       ELSE /\ worker[t] \in {"signalling", "gone"}
            /\ reports[t][1] = outcome[t]
            /\ outcome[t] = "Canceled" => t \in cancelled

Before(seq, a, b) ==
    \E i, j \in DOMAIN seq : i < j /\ seq[i] = a /\ seq[j] = b

\* The line is served in order of arrival, whatever is cancelled in between:
\* no task starts ahead of, or moves ahead of, one that still waits before it.
NoOvertaking ==
    [][\A a, b \in Task :
          Before(pending, a, b) /\ Contains(pending', a)
            => b \notin running' /\ ~Before(pending', b, a)]_vars

-----------------------------------------------------------------------------
(* Liveness.  The scheduler and the transfer threads are scheduled fairly. *)
(* Replies on the control connection come or time out (CONNECT_TIMEOUT and *)
(* IO_TIMEOUT of client.rs).  No data connection has a timeout there: that *)
(* it opens, delivers what is waited for and ends are assumptions on the   *)
(* network, kept apart for the listings, the chunks and the whole file.    *)

ControlFairness ==
    /\ WF_vars(Scheduler)
    /\ \A t \in Task : WF_vars(Acting(t))

ListingsArrive == \A t \in Task : WF_vars(Dialling(t))

ChunksArrive == \A t \in Task : WF_vars(Moving(t))

TransfersEnd == \A t \in Task : SF_vars(EndMove(t))

\* Nothing is assumed of the data connection of an open file.
StallSpec == Spec /\ ControlFairness /\ ListingsArrive
\* Every data connection keeps moving, but a transfer may go on for ever.
FlowSpec == StallSpec /\ ChunksArrive

\* A cancellation that reached the channel is not lost on the way: whether
\* the task waits, is just being started or moves data, it is reported, if
\* no data connection is silent for ever.
CancelHonoured == \A t \in Task :
    Contains(commands, CancelCommand(t)) ~> (reports[t] # <<>> \/ t \in rejected)

\* A raised flag ends the transfer and gives its slot back.  The thread reads
\* it between two steps only, so this holds while data connections move.
CancelFreesSlot == \A t \in Task : t \in cancelled ~> t \notin running

\* If transfers end by themselves and no data connection is silent for ever,
\* every task that was accepted is reported in the end and its slot freed,
\* however many have to pass before it.
AcceptedFinishes == TransfersEnd => \A t \in Task :
    Contains(pending, t) \/ t \in running ~> reports[t] # <<>> /\ t \notin running
=============================================================================
