-------------------------- MODULE TransferPanelMC --------------------------
(* The queue panel on a few tasks and servers.                             *)
EXTENDS TransferPanel

PanelSymmetry == Permutations(Task) \cup Permutations(Config)

\* The servers that anything on its way or in place names.
InUse == ({cfg, session, dialled} \cup {server[t] : t \in Task}
            \cup {commands[i].config : i \in {j \in DOMAIN commands :
                                                commands[j].kind = "SetConfig"}}
            \cup {ftpCommands[i].config : i \in {j \in DOMAIN ftpCommands :
                                                   ftpCommands[j].kind = "Connect"}})
           \ {NoConfig}

\* Bound: two tasks on one server, or one task and two servers.
Within == Cardinality(requested) + Cardinality(InUse) <= 3

\* Bound: once both tasks are requested the user neither browses nor logs in.
Calm ==
    \/ requested # Task
    \/ Len(ftpCommands') <= Len(ftpCommands)
    \/ Last(ftpCommands').kind \notin {"Browse", "Connect"}

PanelSpecMC == PanelInit /\ [][PanelNext /\ Within' /\ Calm]_panelVars

\* Bound: once both tasks are requested the user only cancels and clears rows,
\* so that two tasks meet in the line, and one meets all that the user does.
\* The tasks are alike, so one of them may always be the first.
First == CHOOSE t \in Task : TRUE
Settled ==
    /\ requested' # {} => First \in requested'
    /\ \/ requested # Task
       \/ Len(ftpCommands') <= Len(ftpCommands)
       \/ Last(ftpCommands').kind = "CancelTask"

PanelFairSpecMC ==
    /\ PanelInit /\ [][PanelNext /\ Settled]_panelVars
    /\ PanelControlFairness
    /\ RepliesArrive
    /\ ListingsArrive
    /\ ChunksArrive
=============================================================================
