-------------------------- MODULE FtpSessionProofs --------------------------
(***************************************************************************)
(* What src/src/ftp/client.rs promises of its passive mode, proved for any *)
(* directories of the server.                                              *)
(***************************************************************************)
EXTENDS FtpSession, TLAPS

\* The stream is told of every mode, and a forced PASV is the only mode.
Agreed == mode = streamMode /\ (cfg = "Passive" => mode = "PASV")

\* An operation under way has no answer yet, and its phase tells the mode.
UnderWay ==
    /\ phase \in {"probe", "mlsd", "list", "retry"} => answer = "none"
    /\ phase = "probe" => cfg = "Auto" /\ mode = "EPSV"
    /\ phase = "retry" => mode = "PASV"

\* Whoever gave EPSV up had a reason.
GivenUp ==
    phase # "closed" /\ cfg # "Passive" /\ mode = "PASV" /\ "EPSV" \in server.modes
      => hindrance # "none"

\* In Auto, EPSV was seen to work if it is still in use after the login.
Probed ==
    cfg = "Auto" /\ phase \notin {"closed", "probe"} /\ mode = "EPSV" => "EPSV" \in server.modes

\* A transfer comes before the listing that might change the mode.
Forced ==
    cfg = "ExtendedPassive" /\ role = "transfer" /\ phase = "ready" /\ answer = "none"
      => mode = "EPSV"

SessionInv ==
    /\ SessionTypeOK /\ Agreed /\ UnderWay /\ GivenUp /\ Probed /\ Forced
    /\ ListingGetsThrough /\ TransferReaches

\* A session starts with the invariant.
LEMMA SessionStarts == SessionInit => SessionInv
  <1> SUFFICES ASSUME SessionInit
               PROVE  SessionInv
    OBVIOUS
  <1>1. server \in [modes : SUBSET Mode, mlsd : BOOLEAN]
    BY DEF SessionInit
  <1>2. SessionTypeOK
    BY <1>1, DirAssumption DEF SessionInit, SessionTypeOK, Mode, PassiveMode
  <1>3. Agreed /\ UnderWay /\ GivenUp /\ Probed /\ Forced /\ ListingGetsThrough /\ TransferReaches
    BY DEF SessionInit, Agreed, UnderWay, GivenUp, Probed, Forced,
           ListingGetsThrough, TransferReaches
  <1> QED
    BY <1>2, <1>3 DEF SessionInv

\* Every step keeps it.
LEMMA SessionKeeps == SessionInv /\ [SessionNext]_sessionVars => SessionInv'
  <1> SUFFICES ASSUME SessionInv, [SessionNext]_sessionVars
               PROVE  SessionInv'
    OBVIOUS
  <1> USE DirAssumption
      DEF SessionInv, SessionTypeOK, Agreed, UnderWay, GivenUp, Probed, Forced,
          ListingGetsThrough, TransferReaches, Mode, PassiveMode
  <1>1. CASE Refuse
    BY <1>1 DEF Refuse, World
  <1>2. ASSUME NEW p \in PassiveMode, NEW for \in {"browsing", "transfer"}, Connect(p, for)
        PROVE  SessionInv'
    BY <1>2 DEF Connect, SetMode, FirstMode
  <1>3. CASE Probe
    BY <1>3 DEF Probe, SetMode, World, ExchangeFails, ExchangeSucceeds, DataFlows
  <1>4. ASSUME NEW d \in Dir, AskList(d)
        PROVE  SessionInv'
    BY <1>4 DEF AskList, World, Past
  <1>5. CASE ListMlsd
    BY <1>5 DEF ListMlsd, World, ExchangeFails, ExchangeSucceeds, DataFlows
  <1>6. CASE List
    BY <1>6 DEF List, SetMode, World, ExchangeFails, ExchangeSucceeds, DataFlows
  <1>7. CASE ListAgain
    BY <1>7 DEF ListAgain, World, ExchangeFails, ExchangeSucceeds, DataFlows
  <1>8. CASE Transfer
    BY <1>8 DEF Transfer, World, ExchangeSucceeds, DataFlows, Past
  <1>9. CASE Quit
    BY <1>9 DEF Quit, World
  <1>10. ASSUME NEW d \in Dir, ChangeRights(d)
         PROVE  SessionInv'
    BY <1>10 DEF ChangeRights
  <1>11. CASE LoseConnection
    BY <1>11 DEF LoseConnection
  <1>12. CASE UNCHANGED sessionVars
    BY <1>12 DEF sessionVars
  <1> QED
    BY <1>1, <1>2, <1>3, <1>4, <1>5, <1>6, <1>7, <1>8, <1>9, <1>10, <1>11, <1>12
       DEF SessionNext

\* The invariant holds of every session, whatever the server can do and
\* whatever fails.
LEMMA SessionInvHolds == SessionSpec => []SessionInv
  BY SessionStarts, SessionKeeps, PTL DEF SessionSpec

\* Every variable keeps to its type; in particular nothing but a mode is ever
\* given to the stream, although configurations have a third value, Auto.
THEOREM SessionTyped == SessionSpec => []SessionTypeOK
  <1>1. SessionInv => SessionTypeOK
    BY DEF SessionInv
  <1> QED
    BY <1>1, SessionInvHolds, PTL

\* client.rs:41-49, 146-149: session and stream agree, a forced PASV stays, and
\* EPSV is not given up without a failure of another cause where it works.
THEOREM ModesSettle == SessionSpec => []ModeSettled
  <1>1. SessionInv => ModeSettled
    BY DEF SessionInv, ModeSettled, Agreed, GivenUp
  <1> QED
    BY <1>1, SessionInvHolds, PTL

\* client.rs:129-159: when a listing may fail although nothing hinders it.
THEOREM ListingsGetThrough == SessionSpec => []ListingGetsThrough
  <1>1. SessionInv => ListingGetsThrough
    BY DEF SessionInv
  <1> QED
    BY <1>1, SessionInvHolds, PTL

\* client.rs:62-88: when a transfer may fail although nothing hinders it.
THEOREM TransfersReach == SessionSpec => []TransferReaches
  <1>1. SessionInv => TransferReaches
    BY DEF SessionInv
  <1> QED
    BY <1>1, SessionInvHolds, PTL
=============================================================================
