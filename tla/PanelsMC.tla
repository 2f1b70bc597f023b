------------------------------ MODULE PanelsMC ------------------------------
(***************************************************************************)
(* The two panels of the window, each on a disk or a server with two       *)
(* levels of directories.  They share no variable, nor does what serves    *)
(* them, so that no invariant of the one depends on how far the other has  *)
(* come: each is explored while the other is as it was at the start.       *)
(***************************************************************************)
EXTENDS RemoteBrowserMC, LocalPanel

StartMC == <<>>

\* The path line of the local panel leads back to the root, or takes "..".
EnteredMC == {<<>>, <<a, "above">>}

\* "a", "b", "b/", "../b", "./", "/" and "/b", and what is refused.
CalledMC == {<<a>>, <<b>>, <<b, "nothing">>, <<"above", b>>, <<"here", "nothing">>,
             <<"nothing", "nothing">>, <<"nothing", b>>, <<"nothing">>, <<"here">>, <<"above">>}

\* The disk holds no more than the server.
Few(t) == Cardinality({p \in Path : t[p] # "none"}) <= MaxEntries

PanelsInit == BrowserInit /\ LocalInit

PanelsNext ==
    \/ LocalInit /\ BrowserNext /\ UNCHANGED localVars
    \/ BrowserInit /\ LocalNext /\ Few(disk') /\ UNCHANGED browserVars

PanelsSpec == PanelsInit /\ [][PanelsNext]_<<browserVars, localVars>>
=============================================================================
