------------------------- MODULE SessionListingsMC --------------------------
(***************************************************************************)
(* What src/src/ftp does with one server: a session and its passive mode,  *)
(* and the lines of the listings it reads.  The two share no variable, so  *)
(* that no invariant of the one depends on how far the other has come:     *)
(* each is explored while the other is as it was at the start.             *)
(***************************************************************************)
EXTENDS FtpSession, Listings

CONSTANTS home, other

\* Around the turns of years before, in and after the century of two digits,
\* and around the end of February of leap years and of one that is none.
WatchedMC == ({1999, 2023, 2099} \X {12}) \cup ({2000, 2024, 2100} \X {1, 2})

NameMC == {<<"word">>,
           <<"word", "semicolon", "word">>,
           <<"word", "equals", "word">>,
           <<"word", "semicolon", "word", "equals", "word", "semicolon", "word">>,
           <<"word", "equals", "word", "semicolon", "word">>,
           <<"word", "equals", "semicolon">>,
           <<"equals", "semicolon", "..">>,
           <<"word", "gap", "word">>,
           <<"gap", "word">>,
           <<"word", "arrow", "word">>,
           <<"arrow", "word">>,
           <<"word", "arrow">>}

\* One name around New Year and leap days, and in the last year that is read and
\* the one after; every name in the middle of a year.
MarksMC ==
    [year : {1970, 1999, 2000, 2023, 2024, 2099, 2100}, month : {1}, day : {1},
     names : {{<<"word">>}}]
      \cup [year : {2000, 2024}, month : {2}, day : {28, 29}, names : {{<<"word">>}}]
      \cup [year : {1999, 2023, 2099}, month : {7}, day : {1}, names : {NameMC}]
      \cup [year : {2200, 2201}, month : {7}, day : {1}, names : {{<<"word">>}}]
      \cup [year : {1999, 2023, 2099}, month : {12}, day : {31}, names : {{<<"word">>}}]

\* The largest time differences, and none.
OffsetsMC == {-12, 0, 14}

BothInit == SessionInit /\ ListingInit

SessionAtRest == SessionInit /\ server = [modes |-> Mode, mlsd |-> TRUE]
ListingAtRest == ListingInit /\ ahead = 0

BothNext ==
    \/ ListingAtRest /\ SessionNext /\ UNCHANGED listingVars
    \/ SessionAtRest /\ ListingNext /\ UNCHANGED sessionVars

BothSpec == BothInit /\ [][BothNext]_<<sessionVars, listingVars>>
=============================================================================
