-------------------------- MODULE TransferQueueInv --------------------------
(***************************************************************************)
(* Why the transfer queue is safe: the inductive invariant behind the      *)
(* properties of TransferQueue, as a conjunction of named parts.           *)
(***************************************************************************)
EXTENDS TransferQueue

InChannel(t) == Contains(commands, EnqueueCommand(t))
InLine(t) == Contains(pending, t)

\* The phases in which the thread of a task exists.
Alive(t) == worker[t] \notin {"none", "gone"}

\* The value e occurs at most once in the sequence.
Once(seq, e) == \A i, j \in 1..Len(seq) : seq[i] = e /\ seq[j] = e => i = j

\* Nothing has been done about the task yet.
Fresh(t) ==
    /\ t \notin running
    /\ t \notin rejected
    /\ worker[t] = "none"
    /\ reports[t] = <<>>

\* A thread past its transfer knows its result, and reports it before it signals.
Settled == \A t \in Task :
    /\ worker[t] \in {"cleaning", "reporting", "signalling", "gone"} =>
         /\ outcome[t] \in Outcome
         /\ outcome[t] = "Canceled" => t \in cancelled
    /\ worker[t] \in {"signalling", "gone"} => reports[t] # <<>>

\* The map of running tasks never outgrows the limit.
SlotsBounded == IsFiniteSet(running) /\ Cardinality(running) <= MaxConcurrent

\* A thread exists only while its task has a slot.
AliveHasSlot == \A t \in Task : Alive(t) => t \in running

\* A TaskDone is the last thing its thread did.
DoneIsLast == \A t \in Task :
    Contains(commands, TaskDoneCommand(t)) => worker[t] = "gone"

\* A request not yet sent, in the channel, or in the line is fresh.
QueuedIsFresh == \A t \in Task :
    /\ t \notin submitted => Fresh(t)
    /\ InChannel(t) \/ InLine(t) => t \in submitted /\ Fresh(t)

\* A request is in the channel or in the line once, and not in both.
QueuedOnce == \A t \in Task :
    /\ Once(commands, EnqueueCommand(t))
    /\ Once(pending, t)
    /\ ~(InChannel(t) /\ InLine(t))

\* A rejected request is forgotten: it never runs and nobody reports it.
RejectedForGood == \A t \in rejected :
    t \notin running /\ worker[t] = "none" /\ reports[t] = <<>>

\* A submitted request is somewhere.
SomePlace == \A t \in submitted :
    \/ InChannel(t)
    \/ InLine(t)
    \/ t \in rejected
    \/ t \in running
    \/ reports[t] # <<>>

\* Once set, the configuration is never cleared, so dispatch cannot find
\* itself with a request popped and no configuration to start it with.
LineHasConfig == pending # <<>> => cfg # NoConfig

\* The inductive invariant: what the scheduler and its threads rely on of
\* each other at every step.
Inv == /\ TypeOK
       /\ Settled
       /\ SlotsBounded
       /\ AliveHasSlot
       /\ DoneIsLast
       /\ QueuedIsFresh
       /\ QueuedOnce
       /\ RejectedForGood
       /\ SomePlace
       /\ LineHasConfig
       /\ WorkConserving
       /\ OneHonestReport
=============================================================================
