-------------------------- MODULE TransferService --------------------------
(***************************************************************************)
(* What the transfer queue promises to its client, whatever threads and    *)
(* channels it is made of: tasks are started in the order of their         *)
(* arrival, at most MaxConcurrent run at a time, a task that started ends  *)
(* in exactly one of three ways, one that still waits can be withdrawn,    *)
(* and none is started twice or changes after it ended.                    *)
(*                                                                         *)
(* The states are those of TaskState (src/src/core/queue.rs:31-38) that    *)
(* the program reaches; "New" is a task the scheduler has not accepted.    *)
(***************************************************************************)
EXTENDS Integers, Sequences, FiniteSets, SequencesExt

CONSTANTS
    Task,           \* transfer requests
    MaxConcurrent   \* how many may run at a time

VARIABLES
    line,           \* tasks waiting, first in line first
    state           \* the state of each task

vars == <<line, state>>

TaskState == {"New", "Pending", "Running", "Done", "Failed", "Canceled"}

Final == {"Done", "Failed", "Canceled"}

Occupied == {t \in Task : state[t] = "Running"}

Init ==
    /\ line = <<>>
    /\ state = [t \in Task |-> "New"]

\* The front of newLine starts, as far as there is room, and the rest waits.
Admit(newLine) == \E n \in 0..Len(newLine) :
    LET started == {newLine[i] : i \in 1..n}
        waiting == {newLine[i] : i \in n + 1..Len(newLine)}
    IN  /\ started # {} => Cardinality(Occupied \cup started) <= MaxConcurrent
        /\ line' = SubSeq(newLine, n + 1, Len(newLine))
        /\ state' = [t \in Task |-> IF t \in started THEN "Running"
                                    ELSE IF t \in waiting THEN "Pending"
                                    ELSE state[t]]

Submit(t) == state[t] = "New" /\ Admit(Append(line, t))

Start == line # <<>> /\ Admit(line)

Finish(t) ==
    /\ state[t] = "Running"
    /\ \E end \in Final : state' = [state EXCEPT ![t] = end]
    /\ UNCHANGED line

Withdraw(idx) ==
    /\ state' = [state EXCEPT ![line[idx]] = "Canceled"]
    /\ line' = RemoveAt(line, idx)

Next ==
    \/ \E t \in Task : Submit(t) \/ Finish(t)
    \/ Start
    \/ \E idx \in 1..Len(line) : Withdraw(idx)

Spec == Init /\ [][Next]_vars
=============================================================================
