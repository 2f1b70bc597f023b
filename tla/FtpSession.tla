----------------------------- MODULE FtpSession -----------------------------
(***************************************************************************)
(* src/src/ftp/client.rs: one FTP session from its login to its end, and   *)
(* the passive mode it settles on.  The control worker holds one to browse *)
(* with; every transfer thread logs in to one of its own with the same     *)
(* configuration, moves a file and perhaps lists a directory.  Sessions    *)
(* share nothing, so that one is enough to look at.                        *)
(*                                                                         *)
(* The server, and the network in between, are external.  In each passive  *)
(* mode data connections work or do not, which does not change.  Anything  *)
(* may go wrong besides: a directory that may not be read, a control       *)
(* connection that is lost, a hindrance that passes.                       *)
(***************************************************************************)
EXTENDS Integers

CONSTANTS
    Dir,            \* directories of the server
    Home            \* the one a login starts in

ASSUME DirAssumption == Home \in Dir

VARIABLES
    \* the server
    server,         \* the modes in which data flows, and whether it knows MLSD
    listable,       \* the directories that may be read
    lost,           \* the control connection is gone
    \* the session
    cfg,            \* the mode of ConnectConfig
    role,           \* what the session is for: "browsing" or "transfer"
    phase,          \* the exchange that comes next
    mode,           \* FtpSession.mode
    streamMode,     \* the mode its FtpStream is in
    dir,            \* the directory that is being listed
    answer,         \* what came of the last operation
    \* history
    hindrance       \* whether an exchange failed although its mode works

sessionVars == <<server, listable, lost, cfg, role, phase, mode, streamMode, dir, answer, hindrance>>

Mode == {"EPSV", "PASV"}
PassiveMode == {"Auto", "Passive", "ExtendedPassive"}

SessionInit ==
    /\ server \in [modes : SUBSET Mode, mlsd : BOOLEAN]
    /\ listable = Dir
    /\ lost = FALSE
    /\ cfg = "Auto"
    /\ role = "browsing"
    /\ phase = "closed"
    /\ mode = "PASV"
    /\ streamMode = "PASV"
    /\ dir = Home
    /\ answer = "none"
    /\ hindrance = "none"

-----------------------------------------------------------------------------
(* The server.                                                             *)

ChangeRights(d) ==
    /\ listable' = IF d \in listable THEN listable \ {d} ELSE listable \cup {d}
    /\ UNCHANGED <<server, lost, cfg, role, phase, mode, streamMode, dir, answer, hindrance>>

LoseConnection ==
    /\ phase # "closed" /\ ~lost
    /\ lost' = TRUE
    /\ UNCHANGED <<server, listable, cfg, role, phase, mode, streamMode, dir, answer, hindrance>>

\* An exchange with data, in the mode the stream is in.
DataFlows == streamMode \in server.modes /\ ~lost

\* Whatever the reason, an exchange may fail; it is put down to the mode if the
\* mode does not work.
ExchangeFails == hindrance' = IF streamMode \in server.modes THEN "now" ELSE hindrance
ExchangeSucceeds == DataFlows /\ UNCHANGED hindrance

\* What hindered the operation before belongs to the past.
Past == IF hindrance = "now" THEN "before" ELSE hindrance

-----------------------------------------------------------------------------
(* The session.                                                            *)

World == UNCHANGED <<server, listable, lost>>

FirstMode(passive) == IF passive = "Passive" THEN "PASV" ELSE "EPSV"

\* Mutant of SetMode: the stream is not told.
SetModeOfSession(m) == mode' = m /\ UNCHANGED streamMode

SetMode(m) == mode' = m /\ streamMode' = m

\* FTPS is refused, and so may be the connection or the login: no session.
Refuse ==
    /\ phase = "closed"
    /\ answer' = "refused"
    /\ UNCHANGED <<cfg, role, phase, mode, streamMode, dir, hindrance>> /\ World

\* Dialling, login and the first mode.
Connect(passive, for) ==
    /\ phase = "closed"
    /\ cfg' = passive
    /\ role' = for
    /\ phase' = IF passive = "Auto" THEN "probe" ELSE "ready"
    /\ SetMode(FirstMode(passive))
    /\ lost' = FALSE
    /\ answer' = "none"
    /\ hindrance' = "none"
    /\ UNCHANGED <<server, listable, dir>>

\* Mutant of Probe: the mode is taken to work.
ProbeSkipped ==
    /\ phase = "probe"
    /\ phase' = "ready"
    /\ UNCHANGED <<cfg, role, mode, streamMode, dir, answer, hindrance>> /\ World

\* Mutant of Probe: what is fallen back to is the mode that was asked for.
ProbeConfigured ==
    /\ phase = "probe"
    /\ phase' = "ready"
    /\ \/ Home \in listable /\ ExchangeSucceeds /\ UNCHANGED <<mode, streamMode>>
       \/ ExchangeFails /\ SetMode(cfg)
    /\ UNCHANGED <<cfg, role, dir, answer>> /\ World

\* Auto: one listing of the login directory; the mode that is fallen back to is
\* not tried.
Probe ==
    /\ phase = "probe"
    /\ phase' = "ready"
    /\ \/ Home \in listable /\ ExchangeSucceeds /\ UNCHANGED <<mode, streamMode>>
       \/ ExchangeFails /\ SetMode("PASV")
    /\ UNCHANGED <<cfg, role, dir, answer>> /\ World

\* list_dir; a transfer thread calls it after an upload only.
AskList(d) ==
    /\ phase = "ready"
    /\ role = "transfer" => answer = "moved"
    /\ phase' = "mlsd"
    /\ dir' = d
    /\ answer' = "none"
    /\ hindrance' = Past
    /\ UNCHANGED <<cfg, role, mode, streamMode>> /\ World

\* Any error of MLSD is as good as not knowing it.
ListMlsd ==
    /\ phase = "mlsd"
    /\ \/ /\ server.mlsd /\ dir \in listable /\ ExchangeSucceeds
          /\ phase' = "ready" /\ answer' = "rows"
       \/ /\ IF server.mlsd THEN ExchangeFails ELSE UNCHANGED hindrance
          /\ phase' = "list" /\ UNCHANGED answer
    /\ UNCHANGED <<cfg, role, mode, streamMode, dir>> /\ World

\* Mutant of List: no second attempt.
ListOnce ==
    /\ phase = "list"
    /\ phase' = "ready"
    /\ \/ dir \in listable /\ ExchangeSucceeds /\ answer' = "rows" /\ UNCHANGED <<mode, streamMode>>
       \/ /\ ExchangeFails /\ answer' = "noRows"
          /\ IF mode = "EPSV" THEN SetMode("PASV") ELSE UNCHANGED <<mode, streamMode>>
    /\ UNCHANGED <<cfg, role, dir>> /\ World

\* list_with_mode_fallback: whatever the error, EPSV is given up for good.
List ==
    /\ phase = "list"
    /\ \/ /\ dir \in listable /\ ExchangeSucceeds
          /\ phase' = "ready" /\ answer' = "rows"
          /\ UNCHANGED <<mode, streamMode>>
       \/ /\ ExchangeFails
          /\ IF mode = "EPSV" THEN SetMode("PASV") /\ phase' = "retry" /\ UNCHANGED answer
             ELSE phase' = "ready" /\ answer' = "noRows" /\ UNCHANGED <<mode, streamMode>>
    /\ UNCHANGED <<cfg, role, dir>> /\ World

\* In the mode fallen back to, once.
ListAgain ==
    /\ phase = "retry"
    /\ phase' = "ready"
    /\ \/ dir \in listable /\ ExchangeSucceeds /\ answer' = "rows"
       \/ ExchangeFails /\ answer' = "noRows"
    /\ UNCHANGED <<cfg, role, mode, streamMode, dir>> /\ World

\* download_file, put_file: in the mode there is, with no fallback.
Transfer ==
    /\ phase = "ready" /\ role = "transfer" /\ answer = "none"
    /\ \/ ExchangeSucceeds /\ answer' = "moved"
       \/ /\ hindrance' = IF streamMode \in server.modes THEN "now" ELSE Past
          /\ answer' = "notMoved"
    /\ UNCHANGED <<cfg, role, phase, mode, streamMode, dir>> /\ World

\* quit, or the session is dropped.
Quit ==
    /\ phase = "ready"
    /\ phase' = "closed"
    /\ UNCHANGED <<cfg, role, mode, streamMode, dir, answer, hindrance>> /\ World

SessionNext ==
    \/ Refuse \/ (\E p \in PassiveMode, for \in {"browsing", "transfer"} : Connect(p, for))
    \/ Probe \/ (\E d \in Dir : AskList(d)) \/ ListMlsd \/ List \/ ListAgain \/ Transfer \/ Quit
    \/ (\E d \in Dir : ChangeRights(d)) \/ LoseConnection

SessionSpec == SessionInit /\ [][SessionNext]_sessionVars

-----------------------------------------------------------------------------

SessionTypeOK ==
    /\ server \in [modes : SUBSET Mode, mlsd : BOOLEAN]
    /\ listable \subseteq Dir /\ lost \in BOOLEAN
    /\ cfg \in PassiveMode /\ role \in {"browsing", "transfer"}
    /\ phase \in {"closed", "probe", "ready", "mlsd", "list", "retry"}
    /\ {mode, streamMode} \subseteq Mode
    /\ dir \in Dir
    /\ answer \in {"none", "refused", "rows", "noRows", "moved", "notMoved"}
    /\ hindrance \in {"none", "now", "before"}

\* The session and its stream agree on the mode; a forced PASV stays; and EPSV,
\* where it works, is given up only after an exchange failed for another reason
\* (client.rs:44 and client.rs:146 do not tell the reasons apart).
ModeSettled ==
    phase # "closed" =>
        /\ mode = streamMode
        /\ cfg = "Passive" => mode = "PASV"
        /\ cfg # "Passive" /\ mode = "PASV" /\ "EPSV" \in server.modes => hindrance # "none"

\* An unhindered listing fails only where PASV does not work, and where EPSV
\* does not either, is not wanted, or has been given up after an earlier
\* hindrance: the price of a fallback that lasts.
ListingGetsThrough ==
    answer = "noRows" /\ hindrance # "now" =>
        /\ "PASV" \notin server.modes
        /\ "EPSV" \in server.modes => cfg = "Passive" \/ hindrance = "before"

\* An unhindered transfer fails only where the mode that is forced does not work,
\* although a listing may have got through by the other one, or where, in Auto,
\* neither works or the listing at login met a hindrance: transfers have no
\* fallback of their own.  (The program's own window only ever asks for Auto.)
TransferReaches ==
    answer = "notMoved" /\ hindrance # "now" =>
        /\ cfg = "Passive" => "PASV" \notin server.modes
        /\ cfg = "ExtendedPassive" => "EPSV" \notin server.modes
        /\ cfg = "Auto" => /\ "PASV" \notin server.modes
                           /\ "EPSV" \in server.modes => hindrance = "before"
=============================================================================
