------------------------ MODULE TransferPanelProofs ------------------------
(***************************************************************************)
(* The queue panel, for every set of tasks and servers and every length of *)
(* the channels: rows, toolbar and scheduler agree with what happened once *)
(* they have heard of it.                                                  *)
(*                                                                         *)
(* The panel does nothing to the queue below it that the queue's own       *)
(* client could not do, so Inv carries over.  The rest of the invariant    *)
(* says what is on its way between a thread and its row.                   *)
(***************************************************************************)
EXTENDS TransferPanel, TransferQueueProofs

About(i, t) == events[i].kind \in {"TaskProgress", "TaskFinished"} /\ events[i].task = t
FinishedAt(i, t) == events[i].kind = "TaskFinished" /\ events[i].task = t

\* The thread has said that the transfer starts.
Announced(t) == worker[t] \notin {"none", "started"}

\* A task has its row, and was asked for, before anybody else hears of it.
Asked == \A t \in Task :
    /\ rows[t] # "absent" => t \in requested
    /\ t \in submitted => t \in requested
    /\ Contains(ftpCommands, EnqueueRequest(t)) => t \in requested

\* The end of a task is the last that is said of it, and nothing is said before
\* its thread announces itself.
EventsFit(t) ==
    /\ reports[t] = <<>> => \A i \in 1..Len(events) : ~FinishedAt(i, t)
    /\ reports[t] # <<>> => \A i \in 1..Len(events) : FinishedAt(i, t) =>
         /\ events[i].outcome = reports[t][1]
         /\ \A j \in 1..Len(events) : i < j => ~About(j, t)
    /\ reports[t] = <<>> /\ ~Announced(t) => \A i \in 1..Len(events) : ~About(i, t)

\* A row shows what was said last of its task, or hears more of it.
RowFits(t) ==
    /\ rows[t] \in FinalStatus =>
         /\ reports[t] # <<>> /\ rows[t] = StatusOf(reports[t][1])
         /\ \A i \in 1..Len(events) : ~About(i, t)
    /\ reports[t] = <<>> /\ ~Announced(t) => rows[t] \in {"absent", "waiting"}
    /\ reports[t] = <<>> /\ Announced(t) =>
         rows[t] \in {"absent", "transferring"} \/ \E i \in 1..Len(events) : About(i, t)
    /\ reports[t] # <<>> =>
         rows[t] \in FinalStatus \cup {"absent"} \/ \E i \in 1..Len(events) : FinishedAt(i, t)

AllFit == \A t \in Task : EventsFit(t) /\ RowFits(t)

OfConnection(i) == events[i].kind \in {"Connected", "Disconnected"}

\* The control thread is logged in, with its session in place or before.
Online == session # NoConfig \/ control \in {"informing", "listing"}

\* The toolbar will be told last how the session is by now, if it does not know,
\* except while QUIT waits for its reply.
Indicator == control # "quitting" =>
    /\ (\A i \in 1..Len(events) : ~OfConnection(i)) => (connected <=> Online)
    /\ \A i \in 1..Len(events) :
         OfConnection(i) /\ (\A j \in 1..Len(events) : i < j => ~OfConnection(j))
           => (events[i].kind = "Connected" <=> Online)

Configures(i) == commands[i].kind = "SetConfig"

\* ... and the scheduler, of the server that is logged in to.
Told == LoggedIn # NoConfig =>
    /\ (\A i \in 1..Len(commands) : ~Configures(i)) => cfg = LoggedIn
    /\ \A i \in 1..Len(commands) :
         Configures(i) /\ (\A j \in 1..Len(commands) : i < j => ~Configures(j))
           => commands[i].config = LoggedIn

\* A handler that waits holds what it needs: the server it dials, or, while it
\* takes its leave, no session.
ControlFits ==
    /\ session \in Config \cup {NoConfig} /\ control \in Handler
    /\ dialled \in Config \cup {NoConfig}
    /\ dialled # NoConfig <=> control \in {"connecting", "informing", "listing"}
    /\ control = "quitting" => session = NoConfig

PanelInv == Inv /\ PanelTypeOK /\ ControlFits /\ Asked /\ AllFit /\ Indicator /\ Told

-----------------------------------------------------------------------------
(* Events and requests.                                                    *)

\* What every event has.
LEMMA EventFields ==
    ASSUME NEW e \in FtpEvent
    PROVE  /\ e.kind \in {"TaskProgress", "TaskFinished", "Connected", "Disconnected"}
           /\ e.kind \in {"TaskProgress", "TaskFinished"} => e.task \in Task
           /\ e.kind = "TaskFinished" => e.outcome \in Outcome
  BY DEF FtpEvent, Progress, Finished, Connected, Disconnected

\* The events there are, told apart.
LEMMA EventMade ==
    /\ \A t \in Task : /\ Progress(t) \in FtpEvent
                       /\ Progress(t).kind = "TaskProgress" /\ Progress(t).task = t
    /\ \A t \in Task, o \in Outcome :
         /\ Finished(t, o) \in FtpEvent /\ Finished(t, o).kind = "TaskFinished"
         /\ Finished(t, o).task = t /\ Finished(t, o).outcome = o
    /\ Connected \in FtpEvent /\ Connected.kind = "Connected"
    /\ Disconnected \in FtpEvent /\ Disconnected.kind = "Disconnected"
  <1>1. /\ \A t \in Task : Progress(t) \in FtpEvent
        /\ \A t \in Task, o \in Outcome : Finished(t, o) \in FtpEvent
        /\ Connected \in FtpEvent /\ Disconnected \in FtpEvent
    BY DEF FtpEvent
  <1>2. \A t : Progress(t).kind = "TaskProgress" /\ Progress(t).task = t
    BY DEF Progress
  <1>3. \A t, o : /\ Finished(t, o).kind = "TaskFinished" /\ Finished(t, o).task = t
                  /\ Finished(t, o).outcome = o
    BY DEF Finished
  <1>4. Connected.kind = "Connected" /\ Disconnected.kind = "Disconnected"
    BY DEF Connected, Disconnected
  <1> QED  BY <1>1, <1>2, <1>3, <1>4

\* One more event, behind the others.
LEMMA EventAppended ==
    ASSUME events \in Seq(FtpEvent), NEW e \in FtpEvent, events' = Append(events, e)
    PROVE  /\ events' \in Seq(FtpEvent)
           /\ Len(events) \in Nat /\ Len(events') = Len(events) + 1
           /\ \A i \in 1..Len(events) : events'[i] = events[i]
           /\ events'[Len(events) + 1] = e
  OBVIOUS

\* The oldest event is taken.
LEMMA EventTaken ==
    ASSUME events \in Seq(FtpEvent), events # <<>>, events' = Tail(events)
    PROVE  /\ events' \in Seq(FtpEvent) /\ Head(events) = events[1] /\ events[1] \in FtpEvent
           /\ Len(events) \in Nat \ {0} /\ Len(events') = Len(events) - 1
           /\ \A i \in 1..Len(events') : i + 1 \in 1..Len(events) /\ events'[i] = events[i + 1]
           /\ \A i \in 1..Len(events) : i # 1 => i - 1 \in 1..Len(events') /\ events[i] = events'[i - 1]
  OBVIOUS

-----------------------------------------------------------------------------
(* What is said of a task, and heard of it.                                *)

\* A step that nobody is told of.
LEMMA NothingSaid ==
    ASSUME AllFit, rows' = rows, events' = events,
           \A t \in Task : reports'[t] = reports[t] /\ (Announced(t)' <=> Announced(t))
    PROVE  AllFit'
  BY DEF AllFit, EventsFit, RowFits, About, FinishedAt

\* One more event, and what it is about.
LEMMA OneMoreEvent ==
    ASSUME events \in Seq(FtpEvent), NEW e \in FtpEvent, events' = Append(events, e),
           NEW n, n = Len(events) + 1, NEW t
    PROVE  /\ n \in Nat \ {0} /\ n \in 1..Len(events') /\ events'[n] = e
           /\ \A i \in 1..Len(events) : /\ i \in 1..Len(events') /\ i < n
                                        /\ events'[i] = events[i]
                                        /\ About(i, t)' <=> About(i, t)
                                        /\ FinishedAt(i, t)' <=> FinishedAt(i, t)
           /\ \A i \in 1..Len(events') : i = n \/ i \in 1..Len(events)
           /\ About(n, t)' <=> e.kind \in {"TaskProgress", "TaskFinished"} /\ e.task = t
           /\ FinishedAt(n, t)' <=> e.kind = "TaskFinished" /\ e.task = t
  <1>1. /\ n \in Nat \ {0} /\ n \in 1..Len(events') /\ events'[n] = e
        /\ \A i \in 1..Len(events) : i \in 1..Len(events') /\ i < n /\ events'[i] = events[i]
        /\ \A i \in 1..Len(events') : i = n \/ i \in 1..Len(events)
    BY EventAppended
  <1>2. /\ \A i \in 1..Len(events) : /\ About(i, t)' <=> About(i, t)
                                     /\ FinishedAt(i, t)' <=> FinishedAt(i, t)
        /\ About(n, t)' <=> e.kind \in {"TaskProgress", "TaskFinished"} /\ e.task = t
        /\ FinishedAt(n, t)' <=> e.kind = "TaskFinished" /\ e.task = t
    BY <1>1 DEF About, FinishedAt
  <1> QED  BY <1>1, <1>2

\* An event that is not of a task leaves it alone.
LEMMA OtherSaid ==
    ASSUME events \in Seq(FtpEvent), NEW e \in FtpEvent, events' = Append(events, e),
           NEW t \in Task, EventsFit(t), RowFits(t),
           ~(e.kind \in {"TaskProgress", "TaskFinished"} /\ e.task = t),
           rows'[t] = rows[t], reports'[t] = reports[t], Announced(t)' <=> Announced(t)
    PROVE  EventsFit(t)' /\ RowFits(t)'
  <1>0. PICK n : n = Len(events) + 1
    OBVIOUS
  <1>1. \A i \in 1..Len(events) : /\ i \in 1..Len(events') /\ events'[i] = events[i]
                                  /\ About(i, t)' <=> About(i, t)
                                  /\ FinishedAt(i, t)' <=> FinishedAt(i, t)
    BY <1>0, OneMoreEvent
  <1>2. \A i \in 1..Len(events') : i = n \/ i \in 1..Len(events)
    BY <1>0, OneMoreEvent
  <1>3. ~About(n, t)' /\ ~FinishedAt(n, t)'
    <2>1. /\ About(n, t)' <=> e.kind \in {"TaskProgress", "TaskFinished"} /\ e.task = t
          /\ FinishedAt(n, t)' <=> e.kind = "TaskFinished" /\ e.task = t
      BY <1>0, OneMoreEvent
    <2> QED  BY <2>1
  <1>4. \A i \in 1..Len(events') : About(i, t)' \/ FinishedAt(i, t)' => i \in 1..Len(events)
    BY <1>2, <1>3
  <1>5. EventsFit(t)'
    BY <1>1, <1>4 DEF EventsFit
  <1>6. /\ (\A i \in 1..Len(events) : ~About(i, t)) => \A i \in 1..Len(events') : ~About(i, t)'
        /\ (\E i \in 1..Len(events) : About(i, t)) => \E i \in 1..Len(events') : About(i, t)'
        /\ (\E i \in 1..Len(events) : FinishedAt(i, t))
              => \E i \in 1..Len(events') : FinishedAt(i, t)'
    BY <1>1, <1>4
  <1>7. RowFits(t)'
    BY <1>6 DEF RowFits
  <1> QED  BY <1>5, <1>7

\* A thread that has not reported yet announces some progress.
LEMMA ProgressSaid ==
    ASSUME events \in Seq(FtpEvent), NEW t \in Task, EventsFit(t), RowFits(t),
           events' = Append(events, Progress(t)), rows'[t] = rows[t],
           reports[t] = <<>>, reports'[t] = <<>>, Announced(t)'
    PROVE  EventsFit(t)' /\ RowFits(t)'
  <1>0. PICK n : n = Len(events) + 1
    OBVIOUS
  <1>1. /\ n \in 1..Len(events')
        /\ \A i \in 1..Len(events) : FinishedAt(i, t)' <=> FinishedAt(i, t)
        /\ \A i \in 1..Len(events') : i = n \/ i \in 1..Len(events)
        /\ About(n, t)' /\ ~FinishedAt(n, t)'
    BY <1>0, OneMoreEvent, EventMade
  <1>2. EventsFit(t)'
    BY <1>1 DEF EventsFit
  <1>3. rows[t] \notin FinalStatus
    BY DEF RowFits
  <1>4. \E i \in 1..Len(events') : About(i, t)'
    BY <1>1
  <1>5. RowFits(t)'
    BY <1>3, <1>4 DEF RowFits
  <1> QED  BY <1>2, <1>5

\* The end of a task is reported, once.
LEMMA EndSaid ==
    ASSUME events \in Seq(FtpEvent), NEW t \in Task, NEW o \in Outcome, EventsFit(t), RowFits(t),
           events' = Append(events, Finished(t, o)), rows'[t] = rows[t],
           reports[t] = <<>>, reports'[t] = <<o>>
    PROVE  EventsFit(t)' /\ RowFits(t)'
  <1>0. PICK n : n = Len(events) + 1
    OBVIOUS
  <1>1. /\ Finished(t, o) \in FtpEvent /\ Finished(t, o).kind = "TaskFinished"
        /\ Finished(t, o).task = t /\ Finished(t, o).outcome = o
    BY EventMade
  <1>2. /\ n \in 1..Len(events') /\ events'[n].outcome = o
        /\ \A i \in 1..Len(events) : FinishedAt(i, t)' <=> FinishedAt(i, t)
        /\ \A i \in 1..Len(events') : i = n \/ i \in 1..Len(events)
        /\ FinishedAt(n, t)'
    BY <1>0, <1>1, OneMoreEvent
  <1>3. \A i \in 1..Len(events') : ~(n < i)
    BY <1>0, <1>1, EventAppended
  <1>4. reports'[t] # <<>> /\ reports'[t][1] = o
    OBVIOUS
  <1>5. EventsFit(t)'
    BY <1>2, <1>4, <1>3 DEF EventsFit
  <1>6. rows[t] \notin FinalStatus
    BY DEF RowFits
  <1>7. \E i \in 1..Len(events') : FinishedAt(i, t)'
    BY <1>2
  <1>8. RowFits(t)'
    BY <1>4, <1>6, <1>7 DEF RowFits
  <1> QED  BY <1>5, <1>8

\* The oldest event is heard, and the others stay.
LEMMA Heard ==
    ASSUME events \in Seq(FtpEvent), events # <<>>, events' = Tail(events),
           NEW t \in Task, EventsFit(t), reports'[t] = reports[t], Announced(t)' <=> Announced(t)
    PROVE  /\ EventsFit(t)'
           /\ (\E i \in 1..Len(events') : About(i, t)')
                 <=> \E i \in 1..Len(events) : i # 1 /\ About(i, t)
           /\ (\E i \in 1..Len(events') : FinishedAt(i, t)')
                 <=> \E i \in 1..Len(events) : i # 1 /\ FinishedAt(i, t)
  <1>1. /\ Len(events) \in Nat \ {0} /\ Len(events') = Len(events) - 1
        /\ \A i \in 1..Len(events') : i + 1 \in 1..Len(events) /\ i + 1 # 1
                                        /\ events'[i] = events[i + 1]
        /\ \A i \in 1..Len(events) : i # 1 => i - 1 \in 1..Len(events') /\ events[i] = events'[i - 1]
    BY EventTaken
  <1>2. /\ \A i \in 1..Len(events') : /\ About(i, t)' <=> About(i + 1, t)
                                      /\ FinishedAt(i, t)' <=> FinishedAt(i + 1, t)
        /\ \A i \in 1..Len(events) : i # 1 =>
             /\ About(i - 1, t)' <=> About(i, t)
             /\ FinishedAt(i - 1, t)' <=> FinishedAt(i, t)
    BY <1>1 DEF About, FinishedAt
  <1>3. \A i, j \in 1..Len(events') : i < j => i + 1 < j + 1
    BY <1>1
  <1>4. EventsFit(t)'
    BY <1>1, <1>2, <1>3 DEF EventsFit
  <1> QED  BY <1>1, <1>2, <1>4
-----------------------------------------------------------------------------
(* The connection, as the toolbar and the scheduler are told of it.        *)

\* A step of another thread.
LEMMA ControlSame ==
    ASSUME UNCHANGED controlVars
    PROVE  /\ session' = session /\ control' = control /\ dialled' = dialled
           /\ LoggedIn' = LoggedIn /\ (Online' <=> Online) /\ (ControlFits' <=> ControlFits)
  <1>1. session' = session /\ control' = control /\ dialled' = dialled
    BY DEF controlVars
  <1> QED  BY <1>1 DEF LoggedIn, Online, ControlFits

\* A step that is silent and keeps the login, or starts to give it up.
LEMMA IndicatorSame ==
    ASSUME Indicator, events' = events, connected' = connected,
           control' = "quitting" \/ (control # "quitting" /\ (Online' <=> Online))
    PROVE  Indicator'
  BY DEF Indicator, OfConnection

\* Other events leave the news of the connection as they are.
LEMMA IndicatorKept ==
    ASSUME events \in Seq(FtpEvent), Indicator, NEW e \in FtpEvent, events' = Append(events, e),
           e.kind \notin {"Connected", "Disconnected"}, connected' = connected,
           control' = control, Online' <=> Online
    PROVE  Indicator'
  <1>0. PICK n : n = Len(events) + 1
    OBVIOUS
  <1>1. /\ \A i \in 1..Len(events) : i \in 1..Len(events') /\ events'[i] = events[i]
        /\ \A i \in 1..Len(events') : i = n \/ i \in 1..Len(events)
        /\ events'[n] = e
    BY <1>0, EventAppended
  <1>2. /\ \A i \in 1..Len(events) : OfConnection(i)' <=> OfConnection(i)
        /\ ~OfConnection(n)'
    BY <1>1 DEF OfConnection
  <1>3. \A i \in 1..Len(events') : OfConnection(i)' => i \in 1..Len(events)
    BY <1>1, <1>2
  <1> QED  BY <1>1, <1>2, <1>3 DEF Indicator

\* News of the connection are the last there are.
LEMMA IndicatorTold ==
    ASSUME events \in Seq(FtpEvent), NEW e \in FtpEvent, events' = Append(events, e),
           e.kind \in {"Connected", "Disconnected"}, e.kind = "Connected" <=> Online'
    PROVE  Indicator'
  <1>0. PICK n : n = Len(events) + 1
    OBVIOUS
  <1>1. /\ \A i \in 1..Len(events) : i \in 1..Len(events') /\ i < n
        /\ \A i \in 1..Len(events') : i = n \/ i \in 1..Len(events)
        /\ n \in 1..Len(events') /\ events'[n] = e
    BY <1>0, EventAppended
  <1>2. OfConnection(n)'
    BY <1>1 DEF OfConnection
  <1>3. \A i \in 1..Len(events') : (\A j \in 1..Len(events') : i < j => ~OfConnection(j)') => i = n
    BY <1>1, <1>2
  <1> QED  BY <1>1, <1>2, <1>3 DEF Indicator

\* The oldest event is heard, and the toolbar set if it is of the connection.
LEMMA IndicatorHeard ==
    ASSUME events \in Seq(FtpEvent), events # <<>>, Indicator, events' = Tail(events),
           control' = control, Online' <=> Online,
           connected' <=> IF OfConnection(1) THEN events[1].kind = "Connected" ELSE connected
    PROVE  Indicator'
  <1>1. /\ Len(events) \in Nat \ {0} /\ Len(events') = Len(events) - 1
        /\ \A i \in 1..Len(events') : i + 1 \in 1..Len(events) /\ events'[i] = events[i + 1]
        /\ \A i \in 1..Len(events) : i # 1 => i - 1 \in 1..Len(events') /\ events[i] = events'[i - 1]
        /\ 1 \in 1..Len(events)
        /\ \A i, j \in 1..Len(events') : 1 < i + 1 /\ (i + 1 < j + 1 <=> i < j)
    BY EventTaken
  <1>2. /\ \A i \in 1..Len(events') : OfConnection(i)' <=> OfConnection(i + 1)
        /\ \A i \in 1..Len(events) : i # 1 => (OfConnection(i - 1)' <=> OfConnection(i))
    BY <1>1 DEF OfConnection
  <1>3. ASSUME \A i \in 1..Len(events') : ~OfConnection(i)'
        PROVE  control # "quitting" => (connected' <=> Online')
    <2>1. \A i \in 1..Len(events) : i # 1 => ~OfConnection(i)
      BY <1>1, <1>2, <1>3
    <2>2. CASE OfConnection(1)
      <3>1. \A j \in 1..Len(events) : 1 < j => ~OfConnection(j)
        BY <1>1, <2>1
      <3> QED  BY <1>1, <2>2, <3>1 DEF Indicator
    <2>3. CASE ~OfConnection(1)
      BY <1>1, <2>1, <2>3 DEF Indicator
    <2> QED  BY <2>2, <2>3
  <1>4. ASSUME NEW i \in 1..Len(events'), OfConnection(i)',
               \A j \in 1..Len(events') : i < j => ~OfConnection(j)'
        PROVE  control # "quitting" => (events'[i].kind = "Connected" <=> Online')
    <2>1. i + 1 \in 1..Len(events) /\ OfConnection(i + 1) /\ events'[i] = events[i + 1]
      BY <1>1, <1>2, <1>4
    <2>2. ASSUME NEW j \in 1..Len(events), i + 1 < j
          PROVE  ~OfConnection(j)
      <3>1. j # 1 /\ j - 1 \in 1..Len(events') /\ i < j - 1
        BY <1>1, <2>2
      <3> QED  BY <1>2, <1>4, <3>1
    <2> QED  BY <2>1, <2>2 DEF Indicator
  <1> QED  BY <1>3, <1>4 DEF Indicator

\* One more command, which does not configure.
LEMMA ToldKept ==
    ASSUME commands \in Seq(QueueCommand), Told, NEW c, commands' = Append(commands, c),
           c.kind # "SetConfig", cfg' = cfg, LoggedIn' = LoggedIn
    PROVE  Told'
  <1>0. PICK n : n = Len(commands) + 1
    OBVIOUS
  <1>1. /\ \A i \in 1..Len(commands) : i \in 1..Len(commands') /\ commands'[i] = commands[i]
        /\ \A i \in 1..Len(commands') : i = n \/ i \in 1..Len(commands)
        /\ commands'[n] = c
    BY <1>0
  <1>2. /\ \A i \in 1..Len(commands) : Configures(i)' <=> Configures(i)
        /\ ~Configures(n)'
    BY <1>1 DEF Configures
  <1>3. \A i \in 1..Len(commands') : Configures(i)' => i \in 1..Len(commands)
    BY <1>1, <1>2
  <1> QED  BY <1>1, <1>2, <1>3 DEF Told

\* A configuration is passed on when its server has been logged in to.
LEMMA ToldAgain ==
    ASSUME commands \in Seq(QueueCommand), NEW c \in Config,
           commands' = Append(commands, SetConfigCommand(c)), LoggedIn' = c
    PROVE  Told'
  <1>0. PICK n : n = Len(commands) + 1
    OBVIOUS
  <1>1. /\ \A i \in 1..Len(commands) : i \in 1..Len(commands') /\ i < n
        /\ \A i \in 1..Len(commands') : i = n \/ i \in 1..Len(commands)
        /\ n \in 1..Len(commands') /\ commands'[n] = SetConfigCommand(c)
    BY <1>0
  <1>2. Configures(n)' /\ commands'[n].config = c
    BY <1>1 DEF Configures, SetConfigCommand
  <1>3. \A i \in 1..Len(commands') : (\A j \in 1..Len(commands') : i < j => ~Configures(j)') => i = n
    BY <1>1, <1>2
  <1> QED  BY <1>1, <1>2, <1>3 DEF Told

\* The scheduler takes a command, and the configuration if that is what it brings.
LEMMA ToldHeard ==
    ASSUME commands \in Seq(QueueCommand), commands # <<>>, Told, commands' = Tail(commands),
           LoggedIn' = LoggedIn, cfg' = IF Configures(1) THEN commands[1].config ELSE cfg
    PROVE  Told'
  <1>1. /\ Len(commands) \in Nat \ {0} /\ Len(commands') = Len(commands) - 1
        /\ \A i \in 1..Len(commands') : i + 1 \in 1..Len(commands) /\ commands'[i] = commands[i + 1]
        /\ \A i \in 1..Len(commands) : i # 1 =>
             i - 1 \in 1..Len(commands') /\ commands[i] = commands'[i - 1]
        /\ 1 \in 1..Len(commands)
        /\ \A i, j \in 1..Len(commands') : 1 < i + 1 /\ (i + 1 < j + 1 <=> i < j)
    OBVIOUS
  <1>2. /\ \A i \in 1..Len(commands') : Configures(i)' <=> Configures(i + 1)
        /\ \A i \in 1..Len(commands) : i # 1 => (Configures(i - 1)' <=> Configures(i))
    BY <1>1 DEF Configures
  <1>3. ASSUME LoggedIn # NoConfig, \A i \in 1..Len(commands') : ~Configures(i)'
        PROVE  cfg' = LoggedIn
    <2>1. \A i \in 1..Len(commands) : i # 1 => ~Configures(i)
      BY <1>1, <1>2, <1>3
    <2>2. CASE Configures(1)
      <3>1. \A j \in 1..Len(commands) : 1 < j => ~Configures(j)
        BY <1>1, <2>1
      <3> QED  BY <1>1, <1>3, <2>2, <3>1 DEF Told
    <2>3. CASE ~Configures(1)
      BY <1>1, <1>3, <2>1, <2>3 DEF Told
    <2> QED  BY <2>2, <2>3
  <1>4. ASSUME LoggedIn # NoConfig, NEW i \in 1..Len(commands'), Configures(i)',
               \A j \in 1..Len(commands') : i < j => ~Configures(j)'
        PROVE  commands'[i].config = LoggedIn
    <2>1. i + 1 \in 1..Len(commands) /\ Configures(i + 1) /\ commands'[i] = commands[i + 1]
      BY <1>1, <1>2, <1>4
    <2>2. ASSUME NEW j \in 1..Len(commands), i + 1 < j
          PROVE  ~Configures(j)
      <3>1. j # 1 /\ j - 1 \in 1..Len(commands') /\ i < j - 1
        BY <1>1, <2>2
      <3> QED  BY <1>2, <1>4, <3>1
    <2> QED  BY <1>4, <2>1, <2>2 DEF Told
  <1> QED  BY <1>3, <1>4 DEF Told
-----------------------------------------------------------------------------
(* The steps.                                                              *)

\* The requests there are: only EnqueueRequest asks for a transfer.
LEMMA RequestMade ==
    /\ \A t \in Task : /\ EnqueueRequest(t) \in FtpCommand /\ CancelRequest(t) \in FtpCommand
                       /\ \A u \in Task : EnqueueRequest(t) = EnqueueRequest(u) => t = u
                       /\ \A u \in Task : CancelRequest(t) # EnqueueRequest(u)
    /\ \A c \in Config : /\ ConnectRequest(c) \in FtpCommand
                         /\ \A u \in Task : ConnectRequest(c) # EnqueueRequest(u)
    /\ QuitRequest \in FtpCommand /\ BrowseRequest \in FtpCommand
    /\ \A u \in Task : QuitRequest # EnqueueRequest(u) /\ BrowseRequest # EnqueueRequest(u)
  <1>1. /\ \A t \in Task : EnqueueRequest(t) \in FtpCommand /\ CancelRequest(t) \in FtpCommand
        /\ \A c \in Config : ConnectRequest(c) \in FtpCommand
        /\ QuitRequest \in FtpCommand /\ BrowseRequest \in FtpCommand
    BY DEF FtpCommand
  <1>2. /\ \A t : EnqueueRequest(t).kind = "EnqueueTransfers" /\ EnqueueRequest(t).task = t
        /\ \A t : CancelRequest(t).kind = "CancelTask"
        /\ \A c : ConnectRequest(c).kind = "Connect"
        /\ QuitRequest.kind = "Quit" /\ BrowseRequest.kind = "Browse"
    BY DEF EnqueueRequest, CancelRequest, ConnectRequest, QuitRequest, BrowseRequest
  <1> QED  BY <1>1, <1>2

\* The control thread takes its oldest request.
LEMMA RequestTaken ==
    ASSUME ftpCommands \in Seq(FtpCommand), NEW kind, Serve(kind)
    PROVE  /\ ftpCommands' \in Seq(FtpCommand)
           /\ \A t : Contains(ftpCommands', EnqueueRequest(t))
                       => Contains(ftpCommands, EnqueueRequest(t))
           /\ kind = "Connect" => Head(ftpCommands).config \in Config
           /\ kind \in {"EnqueueTransfers", "CancelTask"} => Head(ftpCommands).task \in Task
           /\ kind = "EnqueueTransfers" =>
                Contains(ftpCommands, EnqueueRequest(Head(ftpCommands).task))
           /\ rows' = rows /\ requested' = requested /\ connected' = connected
  <1> DEFINE h == Head(ftpCommands)
  <1>1. /\ h \in FtpCommand /\ h.kind = kind /\ ftpCommands # <<>>
        /\ ftpCommands' = Tail(ftpCommands) /\ ftpCommands' \in Seq(FtpCommand)
        /\ rows' = rows /\ requested' = requested /\ connected' = connected
    BY DEF Serve, uiVars
  <1>2. \A e : Contains(ftpCommands, e) <=> e = h \/ Contains(ftpCommands', e)
    BY <1>1, TailContains
  <1> HIDE DEF h
  <1>3. /\ kind = "Connect" => h.config \in Config
        /\ kind \in {"EnqueueTransfers", "CancelTask"} => h.task \in Task
        /\ kind = "EnqueueTransfers" => h = EnqueueRequest(h.task)
    BY <1>1 DEF FtpCommand, ConnectRequest, QuitRequest, BrowseRequest, EnqueueRequest,
       CancelRequest
  <1> QED  BY <1>1, <1>2, <1>3 DEF h

\* To the queue, a step above it is one of its client or none.
LEMMA QueueBelow == PanelInv /\ [PanelNext]_panelVars => [Next]_vars
  <1> SUFFICES ASSUME PanelInv, [PanelNext]_panelVars
               PROVE  [Next]_vars
    OBVIOUS
  <1>1. CASE User \/ ApplyEvent
    BY <1>1 DEF User, QuickConnect, Disconnect, Browse, TransferFile, CancelTask, Request,
       ClearFinished, ApplyEvent, ApplyProgress, ApplyFinished, ApplyConnected, ApplyDisconnected, Take
  <1>2. CASE Inform
    <2>1. dialled \in Config /\ SendSetConfig(dialled)
      BY <1>2 DEF Inform, GoOn, PanelInv, ControlFits
    <2> QED  BY <2>1 DEF Next, Client
  <1>3. CASE ServeConnect \/ ServeQuit \/ EndQuit \/ ServeBrowse \/ Listening
    BY <1>3 DEF ServeConnect, ServeQuit, EndQuit, ServeBrowse, Listening, LogIn, FailLogin,
       EndConnect, EndBrowse
  <1>4. CASE ServeEnqueue
    BY <1>4, RequestTaken DEF ServeEnqueue, PanelInv, PanelTypeOK, Next, Client
  <1>5. CASE ServeCancel
    BY <1>5, RequestTaken DEF ServeCancel, PanelInv, PanelTypeOK, Next, Client
  <1>6. CASE Schedule
    BY <1>6 DEF Schedule, ReportCancelled, Next, Scheduler
  <1>7. ASSUME NEW t \in Task, TransferThread(t)
        PROVE  Acting(t) \/ Dialling(t) \/ Moving(t)
    BY <1>7 DEF TransferThread, ReportChunk, ReportEnd, ReportFinished, Acting, Dialling, Moving
  <1>8. CASE UNCHANGED panelVars
    BY <1>8 DEF panelVars
  <1> QED  BY <1>1, <1>2, <1>3, <1>4, <1>5, <1>6, <1>7, <1>8 DEF PanelNext, ControlWorker, Attending, Next

\* What the user does.
LEMMA UserKeeps == PanelInv /\ Inv' /\ User => PanelInv'
  <1> SUFFICES ASSUME PanelInv, Inv', User
               PROVE  PanelInv'
    OBVIOUS
  <1>1. /\ ftpCommands \in Seq(FtpCommand) /\ rows \in [Task -> Status] /\ requested \subseteq Task
        /\ connected \in BOOLEAN /\ events \in Seq(FtpEvent) /\ ControlFits
        /\ TypeOK' /\ AllFit /\ Indicator /\ Told
    BY DEF PanelInv, PanelTypeOK, Inv
  <1>2. UNCHANGED <<vars, connected, events, controlVars>>
    BY DEF User, QuickConnect, Disconnect, Browse, TransferFile, CancelTask, Request, ClearFinished
  <1>3. /\ worker' = worker /\ reports' = reports /\ submitted' = submitted
        /\ commands' = commands /\ cfg' = cfg
        /\ connected' = connected /\ events' = events
    BY <1>2 DEF vars, schedulerVars, workerVars
  <1>4. Indicator' /\ Told' /\ ControlFits'
    <2>1. UNCHANGED controlVars
      BY <1>2
    <2> QED  BY <1>1, <1>3, <2>1, ControlSame DEF Indicator, OfConnection, Told, Configures
  <1>5. ASSUME NEW command \in FtpCommand, Request(command)
        PROVE  /\ ftpCommands' \in Seq(FtpCommand)
               /\ \A t : Contains(ftpCommands', EnqueueRequest(t))
                           <=> Contains(ftpCommands, EnqueueRequest(t)) \/ EnqueueRequest(t) = command
    <2>1. ftpCommands' = Append(ftpCommands, command)
      BY <1>5 DEF Request
    <2> QED  BY <1>1, <2>1, AppendContains
  <1>6. CASE (\E c \in Config : QuickConnect(c)) \/ Disconnect \/ Browse \/ (\E t \in Task : CancelTask(t))
    <2>1. /\ ftpCommands' \in Seq(FtpCommand) /\ rows' = rows /\ requested' = requested
          /\ \A t \in Task : Contains(ftpCommands', EnqueueRequest(t))
                               => Contains(ftpCommands, EnqueueRequest(t))
      BY <1>5, <1>6, RequestMade DEF QuickConnect, Disconnect, Browse, CancelTask
    <2>2. AllFit'
      BY <1>1, <1>3, <2>1, NothingSaid DEF Announced
    <2>3. Asked'
      BY <1>3, <2>1 DEF PanelInv, Asked
    <2> QED  BY <1>1, <1>3, <1>4, <2>1, <2>2, <2>3 DEF PanelInv, PanelTypeOK, ControlFits
  <1>7. ASSUME NEW t \in Task, TransferFile(t)
        PROVE  PanelInv'
    <2>1. /\ ftpCommands' \in Seq(FtpCommand)
          /\ t \notin requested /\ requested' = requested \cup {t}
          /\ rows' = [rows EXCEPT ![t] = "waiting"]
          /\ \A u \in Task : Contains(ftpCommands', EnqueueRequest(u))
                               => Contains(ftpCommands, EnqueueRequest(u)) \/ u = t
      BY <1>5, <1>7, RequestMade DEF TransferFile
    <2>2. Asked' /\ rows' \in [Task -> Status]
      BY <1>1, <1>3, <2>1 DEF PanelInv, Asked, Status
    <2>3. worker[t] = "none" /\ reports[t] = <<>>
      BY <2>1 DEF PanelInv, Asked, Inv, QueuedIsFresh, Fresh
    <2>4. EventsFit(t)' /\ RowFits(t)'
      <3>1. rows'[t] = "waiting" /\ "waiting" \notin FinalStatus /\ ~Announced(t)
        BY <1>1, <2>1, <2>3 DEF Announced, FinalStatus
      <3>2. EventsFit(t)
        BY <1>1 DEF AllFit
      <3>3. EventsFit(t)'
        BY <1>3, <3>2 DEF EventsFit, About, FinishedAt, Announced
      <3>4. RowFits(t)'
        BY <1>3, <2>3, <3>1 DEF RowFits, Announced
      <3> QED  BY <3>3, <3>4
    <2>5. ASSUME NEW u \in Task, u # t
          PROVE  EventsFit(u)' /\ RowFits(u)'
      <3>1. rows'[u] = rows[u] /\ EventsFit(u) /\ RowFits(u)
        BY <1>1, <2>1, <2>5 DEF AllFit
      <3> QED  BY <1>3, <3>1 DEF EventsFit, RowFits, About, FinishedAt, Announced
    <2> QED  BY <1>1, <1>3, <1>4, <2>1, <2>2, <2>4, <2>5 DEF PanelInv, PanelTypeOK, ControlFits, AllFit
  <1>8. CASE ClearFinished
    <2>1. /\ rows' = [t \in Task |-> IF rows[t] \in FinalStatus THEN "absent" ELSE rows[t]]
          /\ requested' = requested /\ ftpCommands' = ftpCommands
      BY <1>8 DEF ClearFinished
    <2>2. Asked' /\ rows' \in [Task -> Status]
      BY <1>1, <1>3, <2>1 DEF PanelInv, Asked, Status
    <2>3. ASSUME NEW t \in Task
          PROVE  EventsFit(t)' /\ RowFits(t)'
      <3>1. EventsFit(t) /\ RowFits(t) /\ rows'[t] \in {rows[t], "absent"}
        BY <1>1, <2>1 DEF AllFit
      <3>2. "absent" \notin FinalStatus
        BY DEF FinalStatus
      <3>3. EventsFit(t)'
        BY <1>3, <3>1 DEF EventsFit, About, FinishedAt, Announced
      <3>4. RowFits(t)'
        BY <1>3, <3>1, <3>2 DEF RowFits, About, FinishedAt, Announced
      <3> QED  BY <3>3, <3>4
    <2> QED  BY <1>1, <1>3, <1>4, <2>1, <2>2, <2>3 DEF PanelInv, PanelTypeOK, ControlFits, AllFit
  <1> QED  BY <1>6, <1>7, <1>8 DEF User
\* What the window is told.
LEMMA ApplyKeeps == PanelInv /\ Inv' /\ ApplyEvent => PanelInv'
  <1> SUFFICES ASSUME PanelInv, Inv', ApplyEvent
               PROVE  PanelInv'
    OBVIOUS
  <1>1. /\ ftpCommands \in Seq(FtpCommand) /\ rows \in [Task -> Status] /\ requested \subseteq Task
        /\ connected \in BOOLEAN /\ events \in Seq(FtpEvent) /\ ControlFits
        /\ TypeOK' /\ AllFit /\ Indicator /\ Told
    BY DEF PanelInv, PanelTypeOK, Inv
  <1>2. PICK kind : Take(kind)
    BY DEF ApplyEvent, ApplyProgress, ApplyFinished, ApplyConnected, ApplyDisconnected
  <1>3. /\ worker' = worker /\ reports' = reports /\ submitted' = submitted
        /\ commands' = commands /\ cfg' = cfg
        /\ requested' = requested /\ ftpCommands' = ftpCommands
        /\ events # <<>> /\ events' = Tail(events)
        /\ control' = control /\ LoggedIn' = LoggedIn /\ (Online' <=> Online) /\ ControlFits'
    <2>1. UNCHANGED controlVars
      BY <1>2 DEF Take
    <2> QED  BY <1>1, <1>2, <2>1, ControlSame DEF Take, vars, schedulerVars, workerVars
  <1>4. /\ events' \in Seq(FtpEvent) /\ Head(events) = events[1] /\ events[1] \in FtpEvent
        /\ 1 \in 1..Len(events)
    BY <1>1, <1>3, EventTaken
  <1>5. Told'
    BY <1>1, <1>3 DEF Told, Configures
  <1>6. ASSUME NEW t \in Task
        PROVE  /\ EventsFit(t) /\ RowFits(t) /\ EventsFit(t)'
               /\ Announced(t)' <=> Announced(t)
               /\ (\E i \in 1..Len(events') : About(i, t)')
                     <=> \E i \in 1..Len(events) : i # 1 /\ About(i, t)
               /\ (\E i \in 1..Len(events') : FinishedAt(i, t)')
                     <=> \E i \in 1..Len(events) : i # 1 /\ FinishedAt(i, t)
    <2>1. EventsFit(t) /\ RowFits(t) /\ (Announced(t)' <=> Announced(t))
      BY <1>1, <1>3 DEF AllFit, Announced
    <2> QED  BY <1>1, <1>3, <2>1, Heard
  <1>7. ASSUME NEW t \in Task, ~About(1, t), rows'[t] = rows[t]
        PROVE  RowFits(t)'
    <2>1. ~FinishedAt(1, t)
      BY <1>7 DEF About, FinishedAt
    <2>2. /\ (\E i \in 1..Len(events') : About(i, t)') <=> \E i \in 1..Len(events) : About(i, t)
          /\ (\E i \in 1..Len(events') : FinishedAt(i, t)')
                <=> \E i \in 1..Len(events) : FinishedAt(i, t)
      BY <1>6, <1>7, <2>1
    <2> QED  BY <1>3, <1>6, <1>7, <2>2 DEF RowFits
  <1>8. ASSUME rows' \in [Task -> Status], connected' \in BOOLEAN,
               \A t \in Task : rows[t] = "absent" => rows'[t] = "absent"
        PROVE  PanelTypeOK' /\ Asked'
    <2>1. Asked'
      BY <1>1, <1>3, <1>8 DEF PanelInv, Asked
    <2> QED  BY <1>1, <1>3, <1>4, <1>8, <2>1 DEF PanelTypeOK, ControlFits
  <1>9. CASE ApplyConnected \/ ApplyDisconnected
    <2>1. /\ rows' = rows /\ OfConnection(1)
          /\ connected' = (events[1].kind = "Connected")
      BY <1>4, <1>9 DEF ApplyConnected, ApplyDisconnected, Take, OfConnection
    <2>2. \A t \in Task : ~About(1, t)
      BY <2>1 DEF OfConnection, About
    <2>3. Indicator'
      BY <1>1, <1>3, <2>1, IndicatorHeard
    <2>4. AllFit'
      BY <1>6, <1>7, <2>1, <2>2 DEF AllFit
    <2> QED  BY <1>1, <1>3, <1>5, <1>8, <2>1, <2>3, <2>4 DEF PanelInv
  <1>10. ASSUME connected' = connected, ~OfConnection(1)
         PROVE  Indicator'
    BY <1>1, <1>3, <1>10, IndicatorHeard
  <1>11. ASSUME NEW t \in Task, NEW status \in Status, SetRow(t, status), status # "absent"
         PROVE  /\ rows' \in [Task -> Status]
                /\ \A u \in Task : rows[u] = "absent" => rows'[u] = "absent"
                /\ \A u \in Task : u # t => rows'[u] = rows[u]
                /\ rows'[t] \in {"absent", status}
    BY <1>1, <1>11 DEF SetRow
  <1>12. CASE ApplyProgress
    <2>1. PICK t \in Task : /\ t = events[1].task /\ events[1].kind = "TaskProgress"
                            /\ SetRow(t, "transferring") /\ connected' = connected
      BY <1>4, <1>12, EventFields DEF ApplyProgress, Take
    <2>2. /\ About(1, t) /\ ~FinishedAt(1, t) /\ ~OfConnection(1)
          /\ \A u \in Task : u # t => ~About(1, u)
      BY <2>1 DEF About, FinishedAt, OfConnection
    <2>3. /\ "transferring" \in Status /\ "transferring" \notin FinalStatus
          /\ "absent" \notin FinalStatus
      BY DEF Status, FinalStatus
    <2>4. /\ rows' \in [Task -> Status]
          /\ \A u \in Task : rows[u] = "absent" => rows'[u] = "absent"
          /\ \A u \in Task : u # t => rows'[u] = rows[u]
          /\ rows'[t] \in {"absent", "transferring"}
      BY <1>11, <2>1, <2>3
    <2>5. RowFits(t)'
      <3>1. rows[t] \notin FinalStatus
        BY <1>4, <1>6, <2>1, <2>2 DEF RowFits
      <3>2. reports[t] = <<>> => Announced(t)
        BY <1>4, <1>6, <2>1, <2>2 DEF EventsFit
      <3>3. rows[t] = "absent" => rows'[t] = "absent"
        BY <2>1, <2>4
      <3>4. (\E i \in 1..Len(events') : FinishedAt(i, t)')
               <=> \E i \in 1..Len(events) : FinishedAt(i, t)
        BY <1>6, <2>1, <2>2
      <3>5. reports'[t] = reports[t] /\ (Announced(t)' <=> Announced(t)) /\ RowFits(t)
        BY <1>3, <1>6, <2>1
      <3> QED  BY <2>3, <2>4, <3>1, <3>2, <3>3, <3>4, <3>5 DEF RowFits
    <2>6. AllFit'
      BY <1>6, <1>7, <2>2, <2>4, <2>5 DEF AllFit
    <2> QED  BY <1>1, <1>3, <1>5, <1>8, <1>10, <2>1, <2>2, <2>4, <2>6 DEF PanelInv
  <1>13. CASE ApplyFinished
    <2>1. PICK t \in Task, o \in Outcome :
            /\ t = events[1].task /\ o = events[1].outcome
            /\ events[1].kind = "TaskFinished" /\ connected' = connected
      BY <1>4, <1>13, EventFields DEF ApplyFinished, Take
    <2>2. SetRow(t, StatusOf(o))
      BY <1>4, <1>13, <2>1 DEF ApplyFinished, StatusOf
    <2>3. /\ About(1, t) /\ FinishedAt(1, t) /\ ~OfConnection(1) /\ events[1].outcome = o
          /\ \A u \in Task : u # t => ~About(1, u)
      BY <2>1 DEF About, FinishedAt, OfConnection
    <2>4. /\ StatusOf(o) \in FinalStatus /\ StatusOf(o) \in Status
          /\ StatusOf(o) # "absent" /\ "absent" \notin FinalStatus
      BY <2>1 DEF StatusOf, Outcome, Status, FinalStatus
    <2>5. /\ rows' \in [Task -> Status]
          /\ \A u \in Task : rows[u] = "absent" => rows'[u] = "absent"
          /\ \A u \in Task : u # t => rows'[u] = rows[u]
          /\ rows'[t] \in {"absent", StatusOf(o)}
      BY <1>11, <2>1, <2>2, <2>4
    <2>6. RowFits(t)'
      <3>1. reports[t] # <<>> /\ o = reports[t][1]
        BY <1>4, <1>6, <2>1, <2>3 DEF EventsFit
      <3>2. \A i \in 1..Len(events) : 1 < i => ~About(i, t)
        BY <1>4, <1>6, <2>1, <2>3, <3>1 DEF EventsFit
      <3>3. \A i \in 1..Len(events') : ~About(i, t)'
        BY <1>6, <2>1, <3>2
      <3> QED  BY <1>3, <2>4, <2>5, <3>1, <3>3 DEF RowFits
    <2>7. AllFit'
      BY <1>6, <1>7, <2>3, <2>5, <2>6 DEF AllFit
    <2> QED  BY <1>1, <1>3, <1>5, <1>8, <1>10, <2>1, <2>3, <2>5, <2>7 DEF PanelInv
  <1> QED  BY <1>9, <1>12, <1>13 DEF ApplyEvent
\* What the control thread does.
LEMMA ControlKeeps == PanelInv /\ Inv' /\ ControlWorker => PanelInv'
  <1> SUFFICES ASSUME PanelInv, Inv', ControlWorker
               PROVE  PanelInv'
    OBVIOUS
  <1>1. /\ ftpCommands \in Seq(FtpCommand) /\ rows \in [Task -> Status] /\ requested \subseteq Task
        /\ connected \in BOOLEAN /\ events \in Seq(FtpEvent) /\ ControlFits
        /\ commands \in Seq(QueueCommand)
        /\ TypeOK' /\ Asked /\ AllFit /\ Indicator /\ Told
    BY DEF PanelInv, PanelTypeOK, Inv, TypeOK
  <1>2. /\ worker' = worker /\ reports' = reports /\ cfg' = cfg
        /\ rows' = rows /\ requested' = requested /\ connected' = connected
    BY DEF ControlWorker, Attending, Listening, ServeConnect, LogIn, FailLogin, Inform, EndConnect,
       ServeQuit, EndQuit, ServeBrowse, EndBrowse, ServeEnqueue, ServeCancel, Serve, GoOn,
       SendSetConfig, SendEnqueue, SendCancel, Send, vars, schedulerVars, workerVars, uiVars
  <1>3. /\ ftpCommands' \in Seq(FtpCommand)
        /\ \A t : Contains(ftpCommands', EnqueueRequest(t))
                    => Contains(ftpCommands, EnqueueRequest(t))
    <2>1. CASE ftpCommands' = ftpCommands
      BY <1>1, <2>1
    <2>2. ftpCommands' = ftpCommands \/ \E kind : Serve(kind)
      BY DEF ControlWorker, Attending, Listening, ServeConnect, LogIn, FailLogin, Inform,
         EndConnect, ServeQuit, EndQuit, ServeBrowse, EndBrowse, ServeEnqueue, ServeCancel, GoOn
    <2> QED  BY <1>1, <2>1, <2>2, RequestTaken
  <1>4. ASSUME submitted' = submitted, commands' = commands, events' = events,
               LoggedIn' = LoggedIn, ControlFits',
               control' = "quitting" \/ (control # "quitting" /\ (Online' <=> Online))
        PROVE  PanelInv'
    <2>1. Asked'
      BY <1>1, <1>2, <1>3, <1>4 DEF Asked
    <2>2. AllFit'
      BY <1>1, <1>2, <1>4, NothingSaid DEF Announced
    <2>3. Indicator'
      BY <1>1, <1>2, <1>4, IndicatorSame
    <2>4. Told'
      BY <1>1, <1>2, <1>4 DEF Told, Configures
    <2> QED  BY <1>1, <1>2, <1>3, <1>4, <2>1, <2>2, <2>3, <2>4 DEF PanelInv, PanelTypeOK, ControlFits
  <1>5. ASSUME NEW e \in {Connected, Disconnected}, events' = Append(events, e),
               e.kind = "Connected" <=> Online',
               submitted' = submitted, commands' = commands,
               LoggedIn' = LoggedIn, ControlFits'
        PROVE  PanelInv'
    <2>1. e \in FtpEvent /\ e.kind \in {"Connected", "Disconnected"}
      BY EventMade
    <2>2. Indicator' /\ events' \in Seq(FtpEvent)
      BY <1>1, <1>5, <2>1, IndicatorTold, EventAppended
    <2>3. ASSUME NEW t \in Task
          PROVE  EventsFit(t)' /\ RowFits(t)'
      <3>1. /\ EventsFit(t) /\ RowFits(t) /\ (Announced(t)' <=> Announced(t))
            /\ ~(e.kind \in {"TaskProgress", "TaskFinished"} /\ e.task = t)
            /\ rows'[t] = rows[t] /\ reports'[t] = reports[t]
        BY <1>1, <1>2, <2>1 DEF AllFit, Announced
      <3> QED  BY <1>1, <1>5, <2>1, <3>1, OtherSaid
    <2>4. Asked'
      BY <1>1, <1>2, <1>3, <1>5 DEF Asked
    <2>5. Told'
      BY <1>1, <1>2, <1>5 DEF Told, Configures
    <2>6. AllFit'
      BY <2>3 DEF AllFit
    <2> QED  BY <1>1, <1>2, <1>3, <1>5, <2>2, <2>4, <2>5, <2>6 DEF PanelInv, PanelTypeOK, ControlFits
  <1>6. CASE ServeConnect
    <2>1. /\ Head(ftpCommands).config \in Config
          /\ control = "idle" /\ control' = "connecting"
          /\ dialled' = Head(ftpCommands).config /\ session' = session
          /\ submitted' = submitted /\ commands' = commands /\ events' = events
      BY <1>1, <1>6, RequestTaken DEF ServeConnect, Serve, vars
    <2>2. LoggedIn' = LoggedIn /\ (Online' <=> Online)
      BY <2>1 DEF LoggedIn, Online
    <2>3. ControlFits'
      BY <1>1, <2>1, ConfigAssumption DEF ControlFits, Handler
    <2> QED  BY <1>4, <2>1, <2>2, <2>3
  <1>7. CASE FailLogin
    <2>1. /\ control = "connecting" /\ control' = "idle" /\ dialled' = NoConfig
          /\ session' = session /\ submitted' = submitted /\ commands' = commands
          /\ events' = events
      BY <1>7 DEF FailLogin, GoOn, vars
    <2>2. LoggedIn' = LoggedIn /\ (Online' <=> Online) /\ ControlFits'
      BY <1>1, <2>1 DEF LoggedIn, Online, ControlFits, Handler
    <2> QED  BY <1>4, <2>1, <2>2
  <1>8. CASE LogIn
    <2>1. /\ control = "connecting" /\ control' = "informing" /\ dialled' = dialled
          /\ session' = session /\ submitted' = submitted /\ commands' = commands
          /\ events' = Append(events, Connected)
      BY <1>8 DEF LogIn, GoOn, Emit, vars
    <2>2. LoggedIn' = LoggedIn /\ Online' /\ ControlFits'
      BY <1>1, <2>1 DEF LoggedIn, Online, ControlFits, Handler
    <2>3. Connected.kind = "Connected"
      BY EventMade
    <2> QED  BY <1>5, <2>1, <2>2, <2>3
  <1>9. CASE Inform
    <2>1. /\ control = "informing" /\ control' = "listing" /\ dialled' = dialled
          /\ session' = session /\ submitted' = submitted /\ events' = events
          /\ commands' = Append(commands, SetConfigCommand(dialled))
      BY <1>9 DEF Inform, GoOn, SendSetConfig, Send
    <2>2. PICK c \in Config : c = dialled
      BY <1>1, <2>1 DEF ControlFits
    <2>3. LoggedIn' = c /\ (Online' <=> Online) /\ ControlFits'
      BY <1>1, <2>1, <2>2 DEF LoggedIn, Online, ControlFits, Handler
    <2>4. Told'
      BY <1>1, <2>1, <2>2, <2>3, ToldAgain
    <2>5. Asked'
      BY <1>1, <1>2, <1>3, <2>1 DEF Asked
    <2>6. AllFit'
      BY <1>1, <1>2, <2>1, NothingSaid DEF Announced
    <2>7. Indicator'
      BY <1>1, <1>2, <2>1, <2>3, IndicatorSame
    <2> QED  BY <1>1, <1>2, <1>3, <2>1, <2>3, <2>4, <2>5, <2>6, <2>7
             DEF PanelInv, PanelTypeOK, ControlFits
  <1>10. CASE EndConnect
    <2>1. /\ control = "listing" /\ control' = "idle" /\ session' = dialled
          /\ dialled' = NoConfig /\ submitted' = submitted /\ commands' = commands
          /\ events' = events
      BY <1>10 DEF EndConnect, GoOn, vars
    <2>2. LoggedIn' = LoggedIn /\ (Online' <=> Online) /\ ControlFits'
      BY <1>1, <2>1 DEF LoggedIn, Online, ControlFits, Handler
    <2> QED  BY <1>4, <2>1, <2>2
  <1>11. CASE ServeQuit
    <2>1. /\ control = "idle" /\ control' = "quitting" /\ session' = NoConfig
          /\ dialled' = dialled /\ submitted' = submitted /\ commands' = commands
          /\ events' = events
      BY <1>11 DEF ServeQuit, Serve, vars
    <2>2. LoggedIn' = NoConfig /\ ControlFits'
      BY <1>1, <2>1 DEF LoggedIn, ControlFits, Handler
    <2>3. Told'
      BY <2>2 DEF Told
    <2>4. Asked'
      BY <1>1, <1>2, <1>3, <2>1 DEF Asked
    <2>5. AllFit'
      BY <1>1, <1>2, <2>1, NothingSaid DEF Announced
    <2>6. Indicator'
      BY <2>1 DEF Indicator
    <2> QED  BY <1>1, <1>2, <1>3, <2>1, <2>2, <2>3, <2>4, <2>5, <2>6
             DEF PanelInv, PanelTypeOK, ControlFits
  <1>12. CASE EndQuit
    <2>1. /\ control = "quitting" /\ control' = "idle" /\ session' = session
          /\ dialled' = dialled /\ submitted' = submitted /\ commands' = commands
          /\ events' = Append(events, Disconnected)
      BY <1>12 DEF EndQuit, GoOn, Emit, vars
    <2>2. LoggedIn' = LoggedIn /\ ~Online' /\ ControlFits'
      BY <1>1, <2>1 DEF LoggedIn, Online, ControlFits, Handler
    <2>3. Disconnected.kind # "Connected"
      BY EventMade
    <2> QED  BY <1>5, <2>1, <2>2, <2>3
  <1>13. CASE ServeBrowse \/ EndBrowse
    <2>1. /\ control \in {"idle", "browsing"} /\ control' \in {"idle", "browsing"}
          /\ session' = session /\ dialled' = dialled /\ submitted' = submitted
          /\ commands' = commands /\ events' = events
      BY <1>13 DEF ServeBrowse, EndBrowse, Serve, GoOn, vars
    <2>2. LoggedIn' = LoggedIn /\ (Online' <=> Online) /\ ControlFits'
      BY <1>1, <2>1 DEF LoggedIn, Online, ControlFits, Handler
    <2> QED  BY <1>4, <2>1, <2>2
  <1>14. CASE ServeEnqueue \/ ServeCancel
    <2>1. PICK c : /\ commands' = Append(commands, c) /\ c.kind # "SetConfig"
                   /\ events' = events /\ UNCHANGED controlVars /\ control = "idle"
      BY <1>14 DEF ServeEnqueue, ServeCancel, Serve, SendEnqueue, SendCancel, Send, EnqueueCommand,
         CancelCommand
    <2>2. /\ control' = control /\ LoggedIn' = LoggedIn /\ (Online' <=> Online) /\ ControlFits'
      BY <1>1, <2>1, ControlSame
    <2>3. Told'
      BY <1>1, <1>2, <2>1, <2>2, ToldKept
    <2>4. Indicator'
      BY <1>1, <1>2, <2>1, <2>2, IndicatorSame
    <2>5. AllFit'
      BY <1>1, <1>2, <2>1, NothingSaid DEF Announced
    <2>6. \A t \in Task : t \in submitted' => t \in submitted \/ t \in requested
      <3>1. CASE ServeEnqueue
        <4>1. /\ submitted' = submitted \cup {Head(ftpCommands).task}
              /\ Head(ftpCommands).task \in Task
              /\ Contains(ftpCommands, EnqueueRequest(Head(ftpCommands).task))
          BY <1>1, <3>1, RequestTaken DEF ServeEnqueue, SendEnqueue
        <4> QED  BY <1>1, <4>1 DEF Asked
      <3>2. CASE ServeCancel
        BY <3>2 DEF ServeCancel, SendCancel
      <3> QED  BY <1>14, <3>1, <3>2
    <2>7. Asked'
      BY <1>1, <1>2, <1>3, <2>6 DEF Asked
    <2> QED  BY <1>1, <1>2, <1>3, <2>1, <2>2, <2>3, <2>4, <2>5, <2>7
             DEF PanelInv, PanelTypeOK, ControlFits
  <1> QED  BY <1>6, <1>7, <1>8, <1>9, <1>10, <1>11, <1>12, <1>13, <1>14
           DEF ControlWorker, Attending, Listening

\* What the scheduler does.
LEMMA ScheduleKeeps == PanelInv /\ Inv' /\ Schedule => PanelInv'
  <1> SUFFICES ASSUME PanelInv, Inv', Schedule
               PROVE  PanelInv'
    OBVIOUS
  <1>1. /\ Inv /\ AllFit /\ Indicator /\ Told /\ Asked /\ PanelTypeOK /\ ControlFits
        /\ events \in Seq(FtpEvent) /\ commands \in Seq(QueueCommand) /\ pending \in Seq(Task)
        /\ TypeOK'
    BY DEF PanelInv, PanelTypeOK, Inv, TypeOK
  <1>2. PICK kind : Receive(kind)
    BY DEF Schedule, ReportCancelled, RecvSetConfig, RecvEnqueue, RecvTaskDone, CancelRunning,
       CancelPending, CancelNothing
  <1>3. /\ commands # <<>> /\ Head(commands) = commands[1] /\ commands' = Tail(commands)
        /\ submitted' = submitted
    BY <1>1, <1>2 DEF Receive
  <1>4. /\ rows' = rows /\ requested' = requested /\ connected' = connected
        /\ ftpCommands' = ftpCommands
        /\ control' = control /\ LoggedIn' = LoggedIn /\ (Online' <=> Online) /\ ControlFits'
    <2>1. UNCHANGED <<uiVars, ftpCommands, controlVars>>
      BY DEF Schedule, ReportCancelled, Silent, Speak
    <2> QED  BY <1>1, <2>1, ControlSame DEF uiVars
  <1>5. cfg' = IF Configures(1) THEN commands[1].config ELSE cfg
    <2>1. CASE RecvSetConfig
      BY <1>3, <2>1 DEF RecvSetConfig, Receive, Configures
    <2>2. CASE RecvEnqueue \/ RecvTaskDone \/ CancelRunning \/ CancelPending \/ CancelNothing
      BY <1>3, <2>2 DEF RecvEnqueue, RecvTaskDone, CancelRunning, CancelPending, CancelNothing,
         Receive, Configures, schedulerVars
    <2> QED  BY <2>1, <2>2 DEF Schedule, ReportCancelled
  <1>6. Told'
    BY <1>1, <1>3, <1>4, <1>5, ToldHeard
  <1>7. Asked'
    BY <1>1, <1>3, <1>4 DEF Asked
  <1>8. ASSUME Silent
        PROVE  events' = events /\ Indicator'
    BY <1>1, <1>4, <1>8 DEF Silent, Indicator, OfConnection
  <1>9. CASE (RecvSetConfig \/ CancelRunning \/ CancelNothing) /\ Silent
    <2>1. worker' = worker /\ reports' = reports
      BY <1>9 DEF RecvSetConfig, CancelRunning, CancelNothing, workerVars
    <2>2. AllFit'
      BY <1>1, <1>4, <1>8, <1>9, <2>1, NothingSaid DEF Announced
    <2> QED  BY <1>1, <1>4, <1>6, <1>7, <1>8, <1>9, <2>2 DEF PanelInv, PanelTypeOK, ControlFits
  <1>10. CASE (RecvEnqueue \/ RecvTaskDone) /\ Silent
    <2>1. reports' = reports
      BY <1>10 DEF RecvEnqueue, RecvTaskDone
    <2>2. \A t \in Task : worker'[t] = worker[t] \/ (worker[t] = "none" /\ worker'[t] = "started")
      BY <1>1, <1>10, SchedulerStarts DEF Scheduler
    <2>3. AllFit'
      <3>1. \A t \in Task : reports'[t] = reports[t] /\ (Announced(t)' <=> Announced(t))
        BY <2>1, <2>2 DEF Announced
      <3> QED  BY <1>1, <1>4, <1>8, <1>10, <3>1, NothingSaid
    <2> QED  BY <1>1, <1>4, <1>6, <1>7, <1>8, <1>10, <2>3 DEF PanelInv, PanelTypeOK, ControlFits
  <1>11. CASE ReportCancelled
    <2>1. PICK u \in Task :
            /\ u = Head(commands).task /\ InLine(u)
            /\ worker' = worker /\ reports' = [reports EXCEPT ![u] = Append(@, "Canceled")]
            /\ events' = Append(events, Finished(u, "Canceled"))
      <3>1. Head(commands).task \in Task /\ InLine(Head(commands).task)
        BY <1>1, <1>11, ReceiveFacts DEF ReportCancelled, CancelPending, InLine
      <3> QED  BY <1>11, <3>1 DEF ReportCancelled, CancelPending, Speak, Emit, workerVars
    <2>2. reports[u] = <<>> /\ reports'[u] = <<"Canceled">> /\ "Canceled" \in Outcome
          /\ \A t \in Task : t # u => reports'[t] = reports[t]
      <3>1. reports[u] = <<>> /\ reports \in [Task -> Seq(Outcome)]
        BY <1>1, <2>1 DEF Inv, QueuedIsFresh, Fresh, TypeOK
      <3>2. "Canceled" \in Outcome
        BY DEF Outcome
      <3> QED  BY <2>1, <3>1, <3>2
    <2>3. /\ Finished(u, "Canceled") \in FtpEvent /\ Finished(u, "Canceled").task = u
          /\ Finished(u, "Canceled").kind = "TaskFinished"
      BY <2>2, EventMade
    <2>4. events' \in Seq(FtpEvent)
      BY <1>1, <2>1, <2>3, EventAppended
    <2>5. Indicator'
      BY <1>1, <1>4, <2>1, <2>3, IndicatorKept
    <2>6. EventsFit(u)' /\ RowFits(u)'
      BY <1>1, <1>4, <2>1, <2>2, EndSaid DEF AllFit
    <2>7. ASSUME NEW t \in Task, t # u
          PROVE  EventsFit(t)' /\ RowFits(t)'
      <3>1. /\ EventsFit(t) /\ RowFits(t) /\ rows'[t] = rows[t] /\ reports'[t] = reports[t]
            /\ Announced(t)' <=> Announced(t)
        BY <1>1, <1>4, <2>1, <2>2, <2>7 DEF AllFit, Announced
      <3> QED  BY <1>1, <2>1, <2>3, <2>7, <3>1, OtherSaid
    <2> QED  BY <1>1, <1>4, <1>6, <1>7, <2>4, <2>5, <2>6, <2>7 DEF PanelInv, PanelTypeOK, ControlFits, AllFit
  <1> QED  BY <1>9, <1>10, <1>11 DEF Schedule

\* What a transfer thread does.
LEMMA ThreadKeeps ==
    ASSUME PanelInv, Inv', NEW u \in Task, TransferThread(u)
    PROVE  PanelInv'
  <1>1. /\ Inv /\ AllFit /\ Indicator /\ Told /\ Asked /\ PanelTypeOK /\ ControlFits
        /\ events \in Seq(FtpEvent) /\ commands \in Seq(QueueCommand)
        /\ TypeOK' /\ worker \in [Task -> Phase]
    BY DEF PanelInv, PanelTypeOK, Inv, TypeOK
  <1>2. /\ rows' = rows /\ requested' = requested /\ connected' = connected
        /\ ftpCommands' = ftpCommands
        /\ control' = control /\ LoggedIn' = LoggedIn /\ (Online' <=> Online) /\ ControlFits'
    <2>1. UNCHANGED <<uiVars, ftpCommands, controlVars>>
      BY DEF TransferThread, ReportChunk, ReportEnd, ReportFinished, Silent, Speak
    <2> QED  BY <1>1, <2>1, ControlSame DEF uiVars
  <1>3. PICK from, to :
          /\ Step(u, from, to)
          /\ from \notin {"none", "gone"} /\ to \notin {"none", "started"}
          /\ from = "started" => Announce(u)
    BY DEF TransferThread, ReportChunk, ReportEnd, ReportFinished, Announce, CheckCancel, Connect,
       OpenTransfer, Poll, MoveChunk, EndMove, Refresh, Conclude, Cleanup, Report, SignalDone, Go, Settle
  <1>4. /\ worker[u] = from /\ worker'[u] = to /\ cfg' = cfg /\ submitted' = submitted
        /\ \A t \in Task : t # u => worker'[t] = worker[t]
    BY <1>1, <1>3 DEF Step, schedulerVars
  <1>5. Asked'
    BY <1>1, <1>2, <1>4 DEF Asked
  <1>6. Told'
    <2>1. CASE commands' = commands
      BY <1>1, <1>2, <1>4, <2>1 DEF Told, Configures
    <2>2. CASE commands' = Append(commands, TaskDoneCommand(u))
      <3>1. TaskDoneCommand(u).kind # "SetConfig"
        BY DEF TaskDoneCommand
      <3> QED  BY <1>1, <1>2, <1>4, <2>2, <3>1, ToldKept
    <2>3. commands' = commands \/ commands' = Append(commands, TaskDoneCommand(u))
      BY DEF TransferThread, ReportChunk, ReportEnd, ReportFinished, Announce, CheckCancel, Connect,
         OpenTransfer, Poll, MoveChunk, EndMove, Refresh, Conclude, Cleanup, Report, SignalDone, Go, Settle
    <2> QED  BY <2>1, <2>2, <2>3
  <1>7. CASE Silent /\ reports' = reports /\ from # "started"
    <2>1. events' = events
      BY <1>7 DEF Silent
    <2>2. Indicator'
      BY <1>1, <1>2, <2>1 DEF Indicator, OfConnection
    <2>3. \A t \in Task : Announced(t)' <=> Announced(t)
      BY <1>3, <1>4, <1>7 DEF Announced
    <2>4. AllFit'
      BY <1>1, <1>2, <1>7, <2>1, <2>3, NothingSaid
    <2> QED  BY <1>1, <1>2, <1>5, <1>6, <2>1, <2>2, <2>4 DEF PanelInv, PanelTypeOK, ControlFits
  <1>8. ASSUME NEW e \in FtpEvent, events' = Append(events, e),
               e.kind \in {"TaskProgress", "TaskFinished"}, e.task = u,
               EventsFit(u)' /\ RowFits(u)',
               \A t \in Task : t # u => reports'[t] = reports[t]
        PROVE  PanelInv'
    <2>1. Indicator' /\ events' \in Seq(FtpEvent)
      BY <1>1, <1>2, <1>8, IndicatorKept, EventAppended
    <2>2. ASSUME NEW t \in Task, t # u
          PROVE  EventsFit(t)' /\ RowFits(t)'
      <3>1. /\ EventsFit(t) /\ RowFits(t) /\ rows'[t] = rows[t] /\ reports'[t] = reports[t]
            /\ Announced(t)' <=> Announced(t)
        BY <1>1, <1>2, <1>4, <1>8, <2>2 DEF AllFit, Announced
      <3> QED  BY <1>1, <1>8, <2>2, <3>1, OtherSaid
    <2> QED  BY <1>1, <1>2, <1>5, <1>6, <1>8, <2>1, <2>2 DEF PanelInv, PanelTypeOK, ControlFits, AllFit
  <1>9. from # "signalling" => reports[u] = <<>>
    BY <1>1, <1>3, <1>4 DEF Inv, OneHonestReport
  <1>10. CASE Speak(Progress(u)) /\ reports' = reports /\ from # "signalling"
    <2>1. /\ events' = Append(events, Progress(u)) /\ Progress(u) \in FtpEvent
          /\ Progress(u).kind = "TaskProgress" /\ Progress(u).task = u
      BY <1>10, EventMade DEF Speak, Emit
    <2>2. Announced(u)' /\ reports[u] = <<>> /\ reports'[u] = <<>>
      BY <1>3, <1>4, <1>9, <1>10 DEF Announced
    <2>3. EventsFit(u)' /\ RowFits(u)'
      BY <1>1, <1>2, <2>1, <2>2, ProgressSaid DEF AllFit
    <2> QED  BY <1>8, <1>10, <2>1, <2>3
  <1>11. CASE ReportFinished(u)
    <2>1. /\ events' = Append(events, Finished(u, outcome[u])) /\ worker[u] = "reporting"
          /\ reports' = [reports EXCEPT ![u] = Append(@, outcome[u])]
      BY <1>11 DEF ReportFinished, Report, Step, Speak, Emit
    <2>2. PICK o \in Outcome : o = outcome[u]
      BY <1>1, <2>1 DEF Inv, Settled
    <2>3. /\ Finished(u, o) \in FtpEvent /\ Finished(u, o).kind = "TaskFinished"
          /\ Finished(u, o).task = u
      BY EventMade
    <2>4. reports[u] = <<>> /\ reports'[u] = <<o>>
          /\ \A t \in Task : t # u => reports'[t] = reports[t]
      BY <1>1, <1>4, <1>9, <2>1, <2>2 DEF Inv, TypeOK
    <2>5. EventsFit(u)' /\ RowFits(u)'
      BY <1>1, <1>2, <2>1, <2>2, <2>4, EndSaid DEF AllFit
    <2> QED  BY <1>8, <2>1, <2>2, <2>3, <2>4, <2>5
  <1>12. CASE Announce(u) /\ Speak(Progress(u))
    BY <1>4, <1>10, <1>12 DEF Announce, Go, Step
  <1>13. CASE ReportChunk(u) \/ ReportEnd(u)
    BY <1>4, <1>7, <1>10, <1>13 DEF ReportChunk, ReportEnd, MoveChunk, EndMove, Go, Step
  <1>14. CASE /\ \/ CheckCancel(u) \/ Connect(u) \/ OpenTransfer(u) \/ Poll(u)
                 \/ Refresh(u) \/ Conclude(u) \/ Cleanup(u) \/ SignalDone(u)
              /\ Silent
    BY <1>4, <1>7, <1>14 DEF CheckCancel, Connect, OpenTransfer, Poll, Refresh, Conclude, Cleanup,
       SignalDone, Go, Settle, Step
  <1> QED  BY <1>11, <1>12, <1>13, <1>14 DEF TransferThread
-----------------------------------------------------------------------------
(* The theorems.                                                           *)

LEMMA PanelInitInv == PanelInit => PanelInv
  <1> SUFFICES ASSUME PanelInit
               PROVE  PanelInv
    OBVIOUS
  <1>1. Inv
    BY InitInv DEF PanelInit
  <1>2. /\ rows = [t \in Task |-> "absent"] /\ requested = {} /\ connected = FALSE
        /\ ftpCommands = <<>> /\ events = <<>> /\ session = NoConfig
        /\ control = "idle" /\ dialled = NoConfig
        /\ submitted = {} /\ reports = [t \in Task |-> <<>>]
    BY DEF PanelInit, Init
  <1>3. PanelTypeOK
    <2>1. TypeOK /\ "absent" \in Status
      BY <1>1 DEF Inv, Status
    <2>2. rows \in [Task -> Status]
      BY <1>2, <2>1
    <2>3. ftpCommands \in Seq(FtpCommand) /\ events \in Seq(FtpEvent)
      BY <1>2
    <2> QED  BY <1>2, <2>1, <2>2, <2>3 DEF PanelTypeOK, Handler
  <1>4. Asked
    BY <1>2 DEF Asked, Contains
  <1>5. AllFit
    BY <1>2 DEF AllFit, EventsFit, RowFits, FinalStatus, Announced, Init, PanelInit
  <1>6. Indicator /\ Told /\ ControlFits
    BY <1>2 DEF Indicator, Told, Online, LoggedIn, ControlFits, Handler
  <1> QED  BY <1>1, <1>3, <1>4, <1>5, <1>6 DEF PanelInv

LEMMA PanelKeeps == PanelInv /\ [PanelNext]_panelVars => PanelInv'
  <1> SUFFICES ASSUME PanelInv, [PanelNext]_panelVars
               PROVE  PanelInv'
    OBVIOUS
  <1>1. Inv'
    BY QueueBelow, NextKeepsInv DEF PanelInv
  <1>2. CASE UNCHANGED panelVars
    <2>1. /\ rows' = rows /\ requested' = requested /\ connected' = connected
          /\ ftpCommands' = ftpCommands /\ events' = events
          /\ session' = session /\ control' = control /\ dialled' = dialled
          /\ commands' = commands /\ cfg' = cfg /\ worker' = worker /\ reports' = reports
          /\ submitted' = submitted
      BY <1>2 DEF panelVars, uiVars, controlVars, vars, schedulerVars, workerVars
    <2>2. AllFit'
      BY <2>1, NothingSaid DEF PanelInv, Announced
    <2>3. PanelTypeOK' /\ Asked'
      BY <1>1, <2>1 DEF PanelInv, PanelTypeOK, Asked, Inv
    <2>4. Indicator' /\ Told' /\ ControlFits'
      BY <2>1 DEF PanelInv, Indicator, OfConnection, Online, Told, LoggedIn, Configures, ControlFits
    <2> QED  BY <1>1, <2>2, <2>3, <2>4 DEF PanelInv
  <1> QED  BY <1>1, <1>2, UserKeeps, ApplyKeeps, ControlKeeps, ScheduleKeeps, ThreadKeeps DEF PanelNext

\* Everything below follows from PanelInv, which every step keeps.
THEOREM PanelInvHolds == PanelSpec => []PanelInv
  <1> QED  BY PanelInitInv, PanelKeeps, PTL DEF PanelSpec

\* Whatever is asked for, announced and forwarded, the queues between UI,
\* control thread and scheduler carry well-formed requests and events only.
THEOREM PanelTyped == PanelSpec => []PanelTypeOK
  <1>1. PanelInv => PanelTypeOK
    BY DEF PanelInv
  <1> QED  BY <1>1, PanelInvHolds, PTL

\* apply_event looks a row up and overwrites it, whatever it shows.  Still, a
\* row of which no event is on its way shows what became of its task, for any
\* number of tasks, threads and events in flight.
THEOREM RowsAreTrue == PanelSpec => []RowsCatchUp
  <1>1. PanelInv => RowsCatchUp
    <2> SUFFICES ASSUME PanelInv, NEW t \in Task, rows[t] # "absent", AboutTask(t) = {}
                 PROVE  rows[t] = IF reports[t] # <<>> THEN StatusOf(reports[t][1])
                                  ELSE IF worker[t] \in {"none", "started"} THEN "waiting"
                                  ELSE "transferring"
      BY DEF RowsCatchUp
    <2>1. \A i \in 1..Len(events) : ~About(i, t) /\ ~FinishedAt(i, t)
      BY DEF AboutTask, About, FinishedAt
    <2>2. RowFits(t)
      BY DEF PanelInv, AllFit
    <2>3. CASE reports[t] # <<>>
      BY <2>1, <2>2, <2>3 DEF RowFits
    <2>4. CASE reports[t] = <<>> /\ ~Announced(t)
      BY <2>2, <2>4 DEF RowFits, Announced
    <2>5. CASE reports[t] = <<>> /\ Announced(t)
      BY <2>1, <2>2, <2>5 DEF RowFits, Announced
    <2> QED  BY <2>3, <2>4, <2>5
  <1> QED  BY <1>1, PanelInvHolds, PTL

\* control_worker keeps the session, the UI a flag set from its events: when no
\* news of the connection is on its way, nor a QUIT, the button of the toolbar
\* offers to disconnect exactly if the control thread is logged in, also between
\* a login and the session it leads to, however logins fail and sessions are
\* replaced.
THEOREM IndicatorIsRight == PanelSpec => []ConnectionShown
  <1>1. PanelInv => ConnectionShown
    BY DEF PanelInv, Indicator, OfConnection, Online, ConnectionShown
  <1> QED  BY <1>1, PanelInvHolds, PTL

\* A transfer thread logs in by itself, with the configuration that control_worker
\* sends after its own login: both use the same server once the scheduler has
\* taken that command, whatever requests are queued around it.
THEOREM ServerIsShared == PanelSpec => []SameServer
  <1>1. PanelInv => SameServer
    BY DEF PanelInv, Told, Configures, SameServer
  <1> QED  BY <1>1, PanelInvHolds, PTL

\* A row that shows how its task ended is not turned back by apply_event, since
\* no event of the task is left in the loop and none follows: it is only cleared.
THEOREM FinalRowsAreFinal == PanelSpec => FinalRowsStay
  <1>1. PanelInv /\ PanelNext => \A t \in Task : rows[t] \in FinalStatus => rows'[t] \in {rows[t], "absent"}
    <2> SUFFICES ASSUME PanelInv, PanelNext, NEW t \in Task, rows[t] \in FinalStatus
                 PROVE  rows'[t] \in {rows[t], "absent"}
      OBVIOUS
    <2>1. /\ \A i \in 1..Len(events) : ~About(i, t)
          /\ rows[t] # "absent" /\ t \in requested
          /\ rows \in [Task -> Status] /\ events \in Seq(FtpEvent)
      BY DEF PanelInv, PanelTypeOK, AllFit, RowFits, Asked, FinalStatus
    <2>2. CASE User
      <3>1. ASSUME NEW u \in Task, TransferFile(u)
            PROVE  rows'[t] = rows[t]
        BY <2>1, <3>1 DEF TransferFile
      <3>2. CASE ClearFinished
        BY <3>2 DEF ClearFinished
      <3> QED  BY <2>2, <3>1, <3>2 DEF User, QuickConnect, Disconnect, Browse, CancelTask
    <2>3. ASSUME NEW u, NEW status, SetRow(u, status), u # t
          PROVE  rows'[t] = rows[t]
      BY <2>1, <2>3 DEF SetRow
    <2>4. CASE ApplyEvent
      <3>1. CASE ApplyConnected \/ ApplyDisconnected
        BY <3>1 DEF ApplyConnected, ApplyDisconnected
      <3>2. CASE ApplyProgress \/ ApplyFinished
        <4>1. events # <<>> /\ Head(events).kind \in {"TaskProgress", "TaskFinished"}
          BY <3>2 DEF ApplyProgress, ApplyFinished, Take
        <4>2. 1 \in 1..Len(events) /\ Head(events) = events[1]
          BY <2>1, <4>1
        <4>3. Head(events).task # t
          BY <2>1, <4>1, <4>2 DEF About
        <4> QED  BY <2>3, <3>2, <4>3 DEF ApplyProgress, ApplyFinished
      <3> QED  BY <2>4, <3>1, <3>2 DEF ApplyEvent
    <2>5. CASE ControlWorker
      <3>1. UNCHANGED uiVars
        BY <2>5 DEF ControlWorker, Attending, Listening, ServeConnect, LogIn, FailLogin, Inform,
           EndConnect, ServeQuit, EndQuit, ServeBrowse, EndBrowse, ServeEnqueue, ServeCancel,
           Serve, GoOn
      <3> QED  BY <3>1 DEF uiVars
    <2>6. CASE Schedule
      BY <2>6 DEF Schedule, ReportCancelled, Silent, Speak, uiVars
    <2>7. CASE \E u \in Task : TransferThread(u)
      BY <2>7 DEF TransferThread, ReportChunk, ReportEnd, ReportFinished, Silent, Speak, uiVars
    <2> QED  BY <2>2, <2>4, <2>5, <2>6, <2>7 DEF PanelNext
  <1>2. PanelInv /\ [PanelNext]_panelVars =>
          [\A t \in Task : rows[t] \in FinalStatus => rows'[t] \in {rows[t], "absent"}]_panelVars
    BY <1>1
  <1> QED  BY <1>2, PanelInvHolds, PTL DEF PanelSpec, FinalRowsStay
=============================================================================
