------------------------------ MODULE Listings ------------------------------
(***************************************************************************)
(* What a server says of a file and what src/src/ftp/parser.rs makes of    *)
(* it.  A line says little: a Unix listing leaves out the year of a recent *)
(* file, a Windows listing the century, and nothing says where the facts   *)
(* of a line end and a name begins but the name's own characters.          *)
(*                                                                         *)
(* The calendar on the wall is that of the server.  The client's clock     *)
(* shows UTC, `ahead` hours less.                                          *)
(*                                                                         *)
(* A name is a sequence of tokens: words, "equals", "semicolon", "arrow"   *)
(* (one blank between two words, or an arrow and its neighbours) and       *)
(* "gap", whitespace that is longer than one blank or at an end.  A line   *)
(* is its fields and, after them, the name.  Sizes and permissions are     *)
(* left out.                                                               *)
(***************************************************************************)
EXTENDS Calendar, SequencesExt

CONSTANTS
    Name,           \* the names a file may have
    Marks,          \* bound: dates and names with which a file is written
    Offsets,        \* what the server's clock may be ahead of UTC, in hours
    Hours,          \* bound: the hours of a day that are looked at
    NoFile,         \* nothing written yet
    NoEntry,        \* Option::None of the parsers
    NoTime          \* Option::None of an entry's time

Token == {"word", ".", "..", "equals", "semicolon", "arrow", "gap"}
Entries == [name : Seq(Token), is_dir : BOOLEAN, modified : Int \cup {NoTime}]

\* No directory holds a file that is called like itself or its parent.
ASSUME ListingAssumption ==
    /\ Name \subseteq Seq(Token) \ {<<>>, <<".">>, <<"..">>}
    /\ Marks \subseteq [year : Nat, month : 1..12, day : 1..31, names : SUBSET Name]
    /\ Offsets \subseteq -12..14
    /\ 0 \in Hours /\ Hours \subseteq 0..23
    /\ NoEntry \notin Entries /\ NoTime \notin Int

VARIABLES
    hour,           \* the hour on the server's clock
    ahead,          \* hours the server's clock is ahead of UTC
    file            \* its name, and when it was written by the server's clock

listingVars == <<date, serial, hour, ahead, file>>

-----------------------------------------------------------------------------
(* The clock and the file.                                                 *)

ListingInit ==
    /\ CalendarInit
    /\ hour = 0
    /\ ahead \in Offsets
    /\ file = NoFile

WallTime == serial * 1440 + hour * 60

\* SystemTime::now, in minutes; a time before 1970 counts as none.
Now == LET utc == WallTime - ahead * 60 IN IF utc < 0 THEN 0 ELSE utc

LaterToday ==
    /\ <<date.year, date.month>> \in Watched
    /\ \E h \in Hours : /\ h > hour
                        /\ ~\E between \in Hours : hour < between /\ between < h
                        /\ hour' = h
    /\ UNCHANGED <<date, serial, ahead, file>>

\* After the year that follows nobody looks for the file any more: a bound.
FileAges == file' = IF file # NoFile /\ date'.year > file.date.year + 1 THEN NoFile ELSE file

NextMidnight ==
    /\ \A h \in Hours : h <= hour
    /\ date.year < LastYear /\ NextDay
    /\ hour' = 0
    /\ FileAges
    /\ UNCHANGED ahead

LaterYet ==
    /\ hour = 0
    /\ date.year < LastYear /\ (NextMonth \/ NextYear)
    /\ FileAges
    /\ UNCHANGED <<hour, ahead>>

WriteFile ==
    /\ \E mark \in Marks, name \in Name :
         /\ name \in mark.names
         /\ date = [year |-> mark.year, month |-> mark.month, day |-> mark.day]
         /\ file' = [name |-> name, date |-> date, hour |-> hour, time |-> WallTime]
    /\ UNCHANGED <<date, serial, hour, ahead>>

ListingNext == LaterToday \/ NextMidnight \/ LaterYet \/ WriteFile

ListingSpec == ListingInit /\ [][ListingNext]_listingVars

-----------------------------------------------------------------------------
(* The server: how it prints a line.                                       *)

Styles == {"mlsd", "unix", "windows", "windows24"}
KindsIn(style) == {"file", "dir"} \cup (IF style \in {"mlsd", "unix"} THEN {"link"} ELSE {})

\* ls prints the time of day of a file written within the last half year, and
\* the year of any other.
Recent == file.time <= WallTime /\ WallTime - file.time <= 182 * 1440

Twelve(h) == IF h % 12 = 0 THEN 12 ELSE h % 12

LineOf(style, digits, kind, name) ==
    [style |-> style,
     kind |-> kind,
     year |-> IF style = "windows" /\ digits = 2 THEN file.date.year % 100 ELSE file.date.year,
     hasYear |-> style # "unix" \/ ~Recent,
     month |-> file.date.month,
     day |-> file.date.day,
     hour |-> IF style = "windows" THEN Twelve(file.hour) ELSE file.hour,
     suffix |-> IF style # "windows" THEN "none" ELSE IF file.hour < 12 THEN "AM" ELSE "PM",
     name |-> IF style = "unix" /\ kind = "link" THEN name \o <<"arrow", "word">> ELSE name]

\* MLSD also names the directory itself and its parent.
Lines(style, digits, kind) ==
    {LineOf(style, digits, kind, file.name)}
      \cup (IF style = "mlsd" THEN {LineOf(style, digits, "dir", <<d>>) : d \in {".", ".."}} ELSE {})

-----------------------------------------------------------------------------
(* The client: parse_listing_line_at.                                      *)

At(line, year, h) == MinutesFrom(year, line.month, line.day, h, 0)

\* str::trim
Trim(name) ==
    SubSeq(name, IF name # <<>> /\ Head(name) = "gap" THEN 2 ELSE 1,
                 IF name # <<>> /\ Last(name) = "gap" THEN Len(name) - 1 ELSE Len(name))

\* split_whitespace and join: what was longer than a blank is one afterwards.
\* The n-th of what is left is the one with n of them up to it.
Joined(name) ==
    LET left == {i \in 1..Len(name) : name[i] # "gap"}
        upTo(i) == {j \in left : j <= i}
    IN  [n \in 1..Cardinality(left) |-> name[CHOOSE i \in left : Cardinality(upTo(i)) = n]]

\* Mutant of FactEnd: behind the last semicolon of the line.
FactEndLast(name) == Max({0} \cup {i \in 1..Len(name) : name[i] = "semicolon"})

\* Where the facts end: behind the last of the leading semicolons that have an
\* "equals" since the one before.  The fields of a list line hold neither.
FactEnd(name) ==
    LET isFact(i) == \E j \in 1..(i - 1) :
            name[j] = "equals" /\ \A k \in j..(i - 1) : name[k] # "semicolon"
        semicolons == {i \in 1..Len(name) : name[i] = "semicolon"}
    IN  Max({0} \cup {i \in semicolons : \A j \in semicolons : j <= i => isFact(j)})

\* Any line with a fact in front is taken for an MLSD line.  A list line that is
\* has no type and no time.
ParseMlsd(line) ==
    LET end == FactEnd(line.name)
        name == Trim(SubSeq(line.name, end + 1, Len(line.name)))
    IN  IF name = <<>> \/ (line.style # "mlsd" /\ end = 0) THEN NoEntry
        ELSE [name |-> name,
              is_dir |-> line.style = "mlsd" /\ line.kind = "dir",
              modified |-> IF line.style = "mlsd" THEN At(line, line.year, line.hour) ELSE NoTime]

\* Mutant of InferredYear: nothing may lie in the future.
InferredYearStrict(line, now) ==
    LET year == YearOf(now \div 1440)
    IN  IF At(line, year, line.hour) > now THEN year - 1 ELSE year

\* The current year, unless that is more than a day ahead.
InferredYear(line, now) ==
    LET year == YearOf(now \div 1440)
    IN  IF At(line, year, line.hour) - now > 1440 THEN year - 1 ELSE year

\* " -> " ends the name, whether the line is of a link or not.
BeforeArrow(name) ==
    LET arrows == {i \in 2..(Len(name) - 1) : name[i] = "arrow"}
    IN  IF arrows = {} THEN name ELSE SubSeq(name, 1, Min(arrows) - 1)

ParseUnix(line, now) ==
    LET name == BeforeArrow(Joined(line.name))
    IN  IF line.style # "unix" \/ name = <<>> \/ (line.hasYear /\ line.year \notin 1970..2200)
        THEN NoEntry
        ELSE [name |-> name,
              is_dir |-> line.kind \in {"dir", "link"},
              modified |-> IF line.hasYear THEN At(line, line.year, 0)
                           ELSE At(line, InferredYear(line, now), line.hour)]

\* Without AM or PM, 1 to 12 is taken as it stands and nothing else is taken.
HourOf(line) ==
    IF line.hour = 12 THEN (IF line.suffix = "PM" THEN 12 ELSE 0)
    ELSE IF line.suffix = "PM" THEN line.hour + 12 ELSE line.hour

ParseWindows(line) ==
    LET name == Joined(line.name)
        year == IF line.year < 100 THEN line.year + 2000 ELSE line.year
    IN  IF line.style \notin {"windows", "windows24"} \/ name = <<>> \/ line.hour \notin 1..12
        THEN NoEntry
        ELSE [name |-> name, is_dir |-> line.kind = "dir",
              modified |-> At(line, year, HourOf(line))]

ParseListingLine(line, now) ==
    LET mlsd == ParseMlsd(line)
        unix == ParseUnix(line, now)
    IN  IF mlsd # NoEntry THEN mlsd ELSE IF unix # NoEntry THEN unix ELSE ParseWindows(line)

\* Mutant of ParseLines: the directory itself and its parent are rows as well.
ParseLinesAll(lines, now) == {ParseListingLine(line, now) : line \in lines} \ {NoEntry}

\* What cannot be read is left out, without a word.
ParseLines(lines, now) ==
    {e \in {ParseListingLine(line, now) : line \in lines} \ {NoEntry} :
        e.name \notin {<<".">>, <<"..">>}}

Rows(style, digits, kind) == ParseLines(Lines(style, digits, kind), Now)

-----------------------------------------------------------------------------

ListingTypeOK ==
    /\ CalendarTypeOK
    /\ hour \in Hours /\ ahead \in Offsets
    /\ file # NoFile =>
         /\ IsDate(file.date) /\ file.hour \in Hours /\ file.time <= WallTime
         /\ \A style \in Styles : \A kind \in KindsIn(style) : \A e \in Rows(style, 2, kind) :
              /\ e.name \notin {<<>>, <<".">>, <<"..">>}    \* names to join to a path
              /\ e.modified = NoTime \/ e.modified \in Int

\* The name starts like a fact: "equals" before its first "semicolon".
LooksLikeFact(name) ==
    \E i, j \in 1..Len(name) : /\ j < i /\ name[j] = "equals" /\ name[i] = "semicolon"
                               /\ \A k \in 1..(i - 1) : name[k] # "semicolon"

\* ... and there is nothing else in it: no name would be left.
OnlyFacts(name) == Last(name) = "semicolon" /\ \A i \in 1..(Len(name) - 1) :
    name[i] = "semicolon" => LooksLikeFact(SubSeq(name, i + 1, Len(name)))

\* The names that each kind of line carries over as they are.
Carried(style, kind, name) ==
    IF style = "mlsd"
    THEN ~LooksLikeFact(name) /\ Head(name) # "gap" /\ Last(name) # "gap"
    ELSE /\ ~LooksLikeFact(name) \/ (OnlyFacts(name) /\ kind # "link")
         /\ ~Contains(name, "gap")
         /\ style = "unix" =>
              \A i \in 2..Len(name) : name[i] = "arrow" => i = Len(name) /\ kind # "link"

\* An hour without AM or PM beside it must be one that has no need of them, the
\* year of an ls line one of the next centuries.
Legible(style) ==
    /\ style = "windows24" => file.hour \in 1..12
    /\ style = "unix" => Recent \/ file.date.year <= 2200

\* "A name with a semicolon can still be read" (parser.rs:439, DEVELOPMENT.md:334):
\* a file is listed under its own name exactly if the name is Carried, whoever
\* lists it, and never as two; a line whose hour or year is not read is not listed.
NamesComeBack ==
    file # NoFile =>
        \A style \in Styles : \A kind \in KindsIn(style) :
            LET rows == Rows(style, 4, kind)
            IN  /\ Cardinality(rows) <= 1
                /\ (\E e \in rows : e.name = file.name)
                     <=> Carried(style, kind, file.name) /\ Legible(style)

\* On the client it is still last year, and the file was written this year.
\* (On 1 January 1970 the client's clock has just begun.)
BeforeNewYear ==
    /\ date.year > 1970
    /\ date.month = 1 /\ (date.day - 1) * 24 + hour < ahead
    /\ file.date.year = date.year

\* The year of the line can be told: not of a file that was written in a year
\* the client has not reached yet, nor from two digits in another century.
YearKnown(style, digits) ==
    /\ style = "unix" /\ Recent => ~BeforeNewYear
    /\ style = "windows" /\ digits = 2 => file.date.year \in 2000..2099

\* An older file has no time of day in a Unix listing; noon is not told from
\* midnight without AM and PM.
TimeLost(style) ==
    IF (style = "unix" /\ ~Recent) \/ (style = "windows24" /\ file.hour = 12)
    THEN file.hour * 60 ELSE 0

\* A file that is listed under its name is shown as what it is and, exactly if
\* the year is known, with the time at which the clock that wrote it stood:
\* across New Year, leap days, centuries and time zones (parser.rs:55-75).
DatesComeBack ==
    file # NoFile =>
        \A style \in Styles, digits \in {2, 4} : \A kind \in KindsIn(style) :
            \A e \in Rows(style, digits, kind) : Carried(style, kind, file.name) =>
                /\ e.is_dir <=> kind = "dir" \/ (kind = "link" /\ style = "unix")
                /\ e.modified = file.time - TimeLost(style) <=> YearKnown(style, digits)
=============================================================================
