------------------------- MODULE TransferRefinement -------------------------
(***************************************************************************)
(* The scheduler and its threads implement TransferService.  A task counts *)
(* as running from the moment it has a slot until it is reported; it keeps *)
(* the slot a little longer, until its TaskDone is served.                 *)
(***************************************************************************)
EXTENDS TransferQueue

\* The TaskState an observer of the queue would give to task t.
StateOf(t) ==
    IF reports[t] # <<>>
    THEN CASE reports[t][1] = "Completed" -> "Done"
           [] reports[t][1] = "Failed"    -> "Failed"
           [] OTHER                       -> "Canceled"
    ELSE IF t \in running THEN "Running"
    ELSE IF Contains(pending, t) THEN "Pending"
    ELSE "New"

Service == INSTANCE TransferService
             WITH line <- pending, state <- [t \in Task |-> StateOf(t)]

\* Every behaviour of the scheduler and its threads is one of the service:
\* order, limit and single outcome hold together across all interleavings.
ImplementsService == Service!Spec

-----------------------------------------------------------------------------
(* The table of src/src/core/queue.rs:67-80, which no code consults: the   *)
(* unit tests check the table, not the scheduler against it.               *)

CanTransition(from, to) == <<from, to>> \in
    {<<"Pending", "Running">>, <<"Running", "Paused">>, <<"Paused", "Running">>,
     <<"Running", "Done">>, <<"Running", "Failed">>, <<"Running", "Canceled">>,
     <<"Paused", "Canceled">>, <<"Failed", "Pending">>}

\* Accepted tasks only change state along the table, with one exception that it
\* lacks: a task is cancelled while it waits (queue.rs:144-151), whereas the table
\* and DEVELOPMENT.md:171-176 lead to Canceled from Running and Paused alone.
FollowsTable ==
    [][\A t \in Task :
          LET from == StateOf(t)
              to == StateOf(t)'
          IN  from # "New" /\ to # from =>
                CanTransition(from, to) \/ <<from, to>> = <<"Pending", "Canceled">>]_vars
=============================================================================
