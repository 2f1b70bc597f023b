--------------------------- MODULE ListingsProofs ---------------------------
(***************************************************************************)
(* What the parser of src/src/ftp/parser.rs makes of a line is what the    *)
(* server said.  Below: days_from_civil, whose heart is one fact about a   *)
(* year that starts in March (it is as long as the February at its end     *)
(* makes it); year_of; the year of a line that leaves it out; and the      *)
(* names, which are found among characters that might belong to anything.  *)
(***************************************************************************)
EXTENDS Listings, FiniteSetTheorems, WellFoundedInduction, TLAPS

\* The four-hundred-year cycles cancel out: a closed form.
LEMMA ClosedForm ==
    ASSUME NEW y \in Int
    PROVE  DaysBeforeYear(y) = 365 * y + y \div 4 - y \div 100 + y \div 400
<1> DEFINE era == y \div 400
           yoe == y - era * 400
<1>1. era \in Int /\ yoe \in 0..399
  OBVIOUS
<1>2. y = 400 * era + yoe
  OBVIOUS
<1>3. y \div 4 = 100 * era + yoe \div 4
  OBVIOUS
<1>4. y \div 100 = 4 * era + yoe \div 100
  OBVIOUS
<1> QED
  BY <1>1, <1>2, <1>3, <1>4 DEF DaysBeforeYear

\* From 1 March to 1 March there are 366 days if the February between is long.
LEMMA MarchToMarch ==
    ASSUME NEW y \in Int
    PROVE  DaysBeforeYear(y) - DaysBeforeYear(y - 1) = IF IsLeap(y) THEN 366 ELSE 365
<1>1. y \div 4 - (y - 1) \div 4 = IF 4 * (y \div 4) = y THEN 1 ELSE 0
  OBVIOUS
<1>2. y \div 100 - (y - 1) \div 100 = IF 100 * (y \div 100) = y THEN 1 ELSE 0
  OBVIOUS
<1>3. y \div 400 - (y - 1) \div 400 = IF 400 * (y \div 400) = y THEN 1 ELSE 0
  OBVIOUS
<1>4. 400 * (y \div 400) = y => 100 * (y \div 100) = y
  OBVIOUS
<1>5. 100 * (y \div 100) = y => 4 * (y \div 4) = y
  OBVIOUS
<1>6. DaysBeforeYear(y) = 365 * y + y \div 4 - y \div 100 + y \div 400
  BY ClosedForm
<1>7. DaysBeforeYear(y - 1) = 365 * (y - 1) + (y - 1) \div 4 - (y - 1) \div 100 + (y - 1) \div 400
  <2>1. y - 1 \in Int
    OBVIOUS
  <2> QED
    BY <2>1, ClosedForm
<1>8. DaysBeforeYear(y) \in Int /\ DaysBeforeYear(y - 1) \in Int
  BY <1>6, <1>7
<1> QED
  BY <1>1, <1>2, <1>3, <1>4, <1>5, <1>6, <1>7, <1>8 DEF IsLeap

\* The day of the March year on which each month begins.
LEMMA MonthStarts ==
    ASSUME NEW d \in Int
    PROVE  /\ DayOfYear(3, d) = d - 1       /\ DayOfYear(4, d) = d + 30
           /\ DayOfYear(5, d) = d + 60      /\ DayOfYear(6, d) = d + 91
           /\ DayOfYear(7, d) = d + 121     /\ DayOfYear(8, d) = d + 152
           /\ DayOfYear(9, d) = d + 183     /\ DayOfYear(10, d) = d + 213
           /\ DayOfYear(11, d) = d + 244    /\ DayOfYear(12, d) = d + 274
           /\ DayOfYear(1, d) = d + 305     /\ DayOfYear(2, d) = d + 336
  BY DEF DayOfYear

\* The number of the day after is one more, on every date there is.
LEMMA NextDayFollows ==
    ASSUME NEW d, IsDate(d)
    PROVE  LET e == NextDate(d)
           IN  /\ IsDate(e)
               /\ DaysFromCivil(e.year, e.month, e.day)
                     = DaysFromCivil(d.year, d.month, d.day) + 1
<1> DEFINE y == d.year
           m == d.month
           day == d.day
           e == NextDate(d)
<1>1. y \in Nat /\ m \in 1..12 /\ day \in 1..31 /\ day <= MonthLength(y, m)
  BY DEF IsDate
<1>2. d = [year |-> y, month |-> m, day |-> day]
  BY DEF IsDate
<1>a. MonthLength(y, m) \in Int
  BY DEF MonthLength
<1>3. /\ DaysBeforeYear(y) \in Int /\ DaysBeforeYear(y - 1) \in Int
      /\ DaysBeforeYear(y) - DaysBeforeYear(y - 1) = IF IsLeap(y) THEN 366 ELSE 365
  <2>1. y \in Int /\ y - 1 \in Int
    BY <1>1
  <2>2. DaysBeforeYear(y) \in Int
    <3>1. DaysBeforeYear(y) = 365 * y + y \div 4 - y \div 100 + y \div 400
      BY <2>1, ClosedForm
    <3> QED
      BY <2>1, <3>1
  <2>3. DaysBeforeYear(y) - DaysBeforeYear(y - 1) = IF IsLeap(y) THEN 366 ELSE 365
    BY <2>1, MarchToMarch
  <2>4. DaysBeforeYear(y - 1) \in Int
    <3> DEFINE x == y - 1
    <3>1. DaysBeforeYear(x) = 365 * x + x \div 4 - x \div 100 + x \div 400
      BY <2>1, ClosedForm
    <3> QED
      BY <2>1, <3>1
  <2> QED
    BY <2>2, <2>3, <2>4
<1>4. CASE day < MonthLength(y, m)
  <2>1. e = [year |-> y, month |-> m, day |-> day + 1]
    BY <1>2, <1>4 DEF NextDate
  <2>2. IsDate(e)
    BY <1>1, <1>4, <2>1 DEF IsDate, MonthLength
  <2>3. DayOfYear(m, day + 1) = DayOfYear(m, day) + 1 /\ DayOfYear(m, day) \in Int
    BY <1>1 DEF DayOfYear
  <2>4. DaysBeforeYear(MarchYear(y, m)) \in Int
    BY <1>1, <1>3 DEF MarchYear
  <2> QED
    BY <2>1, <2>2, <2>3, <2>4 DEF DaysFromCivil
<1>5. CASE day = MonthLength(y, m) /\ m < 12
  <2>1. e = [year |-> y, month |-> m + 1, day |-> 1]
    <3>1. ~(day < MonthLength(y, m))
      BY <1>a, <1>5
    <3>2. e = [d EXCEPT !.month = @ + 1, !.day = 1]
      BY <1>5, <3>1 DEF NextDate
    <3> QED
      BY <1>2, <3>2
  <2>2. IsDate(e)
    BY <1>1, <1>5, <2>1 DEF IsDate, MonthLength
  <2>3. CASE m = 2
    <3>1. DaysFromCivil(y, 3, 1) = DaysBeforeYear(y) + 0 - 719468
      BY MonthStarts DEF DaysFromCivil, MarchYear
    <3>2. DaysFromCivil(y, 2, day) = DaysBeforeYear(y - 1) + (day + 336) - 719468
      BY <1>1, MonthStarts DEF DaysFromCivil, MarchYear
    <3>3. day = IF IsLeap(y) THEN 29 ELSE 28
      BY <1>5, <2>3 DEF MonthLength
    <3> QED
      BY <1>3, <2>1, <2>2, <2>3, <3>1, <3>2, <3>3
  <2>4. CASE m # 2
    <3>1. MarchYear(y, m + 1) = MarchYear(y, m)
      BY <1>1, <1>5, <2>4 DEF MarchYear
    <3>2. DayOfYear(m + 1, 1) = DayOfYear(m, day) + 1 /\ DayOfYear(m, day) \in Int
      <4>1. day = IF m \in {4, 6, 9, 11} THEN 30 ELSE 31
        BY <1>1, <1>5, <2>4 DEF MonthLength
      <4> QED
        BY <1>1, <1>5, <2>4, <4>1, MonthStarts
    <3>3. DaysBeforeYear(MarchYear(y, m)) \in Int
      BY <1>1, <1>3 DEF MarchYear
    <3> QED
      BY <2>1, <2>2, <3>1, <3>2, <3>3 DEF DaysFromCivil
  <2> QED
    BY <2>3, <2>4
<1>6. CASE day = MonthLength(y, m) /\ m = 12
  <2>1. e = [year |-> y + 1, month |-> 1, day |-> 1]
    <3>1. ~(day < MonthLength(y, m)) /\ ~(m < 12)
      BY <1>a, <1>6
    <3> QED
      BY <3>1 DEF NextDate
  <2>2. IsDate(e)
    BY <1>1, <2>1 DEF IsDate, MonthLength
  <2>3. day = 31
    BY <1>6 DEF MonthLength
  <2>4. DaysFromCivil(y + 1, 1, 1) = DaysBeforeYear(y) + 306 - 719468
    BY <1>1, MonthStarts DEF DaysFromCivil, MarchYear
  <2>5. DaysFromCivil(y, 12, 31) = DaysBeforeYear(y) + 305 - 719468
    BY MonthStarts DEF DaysFromCivil, MarchYear
  <2> QED
    BY <1>3, <1>6, <2>1, <2>2, <2>3, <2>4, <2>5
<1> QED
  BY <1>1, <1>a, <1>4, <1>5, <1>6

\* From the first day of a month to its last.
LEMMA MonthIsLong ==
    ASSUME NEW y \in Nat, NEW m \in 1..12
    PROVE  LET last == MonthLength(y, m)
           IN  /\ IsDate([year |-> y, month |-> m, day |-> last])
               /\ DaysFromCivil(y, m, last) = DaysFromCivil(y, m, 1) + last - 1
<1> DEFINE last == MonthLength(y, m)
<1>1. last \in 28..31
  BY DEF MonthLength
<1>2. IsDate([year |-> y, month |-> m, day |-> last])
  BY <1>1 DEF IsDate
<1>3. DayOfYear(m, last) = DayOfYear(m, 1) + last - 1 /\ DayOfYear(m, 1) \in Int
  BY <1>1 DEF DayOfYear
<1>4. DaysBeforeYear(MarchYear(y, m)) \in Int
  <2> DEFINE x == MarchYear(y, m)
  <2>1. x \in Int
    BY DEF MarchYear
  <2>2. DaysBeforeYear(x) = 365 * x + x \div 4 - x \div 100 + x \div 400
    BY <2>1, ClosedForm
  <2> QED
    BY <2>1, <2>2
<1> QED
  BY <1>1, <1>2, <1>3, <1>4 DEF DaysFromCivil

\* From 1 January to 1 January.
LEMMA NextYearFollows ==
    ASSUME NEW y \in Nat
    PROVE  DaysFromCivil(y + 1, 1, 1) = DaysFromCivil(y, 1, 1) + YearLength(y)
<1>1. DaysFromCivil(y + 1, 1, 1) = DaysBeforeYear(y) + 306 - 719468
  BY MonthStarts DEF DaysFromCivil, MarchYear
<1>2. DaysFromCivil(y, 1, 1) = DaysBeforeYear(y - 1) + 306 - 719468
  BY MonthStarts DEF DaysFromCivil, MarchYear
<1>3. y \in Int /\ y - 1 \in Int
  OBVIOUS
<1>4. DaysBeforeYear(y) \in Int /\ DaysBeforeYear(y - 1) \in Int
  BY <1>3, ClosedForm
<1> QED
  BY <1>1, <1>2, <1>3, <1>4, MarchToMarch DEF YearLength

\* The number of the day on which a year begins, and of the years after it.
FirstDay(y) == DaysFromCivil(y, 1, 1)

LEMMA FirstDays ==
    ASSUME NEW y \in Nat
    PROVE  /\ FirstDay(y) \in Int
           /\ FirstDay(y + 1) = FirstDay(y) + YearLength(y)
           /\ CivilYearLen(y) = YearLength(y)
           /\ YearLength(y) \in {365, 366}
<1>1. FirstDay(y) \in Int
  <2>1. FirstDay(y) = DaysBeforeYear(y - 1) + 306 - 719468
    BY MonthStarts DEF FirstDay, DaysFromCivil, MarchYear
  <2>2. DaysBeforeYear(y - 1) \in Int
    <3>1. y - 1 \in Int
      OBVIOUS
    <3> QED
      BY <3>1, ClosedForm
  <2> QED
    BY <2>1, <2>2
<1>2. /\ 4 * (y \div 4) = y <=> y % 4 = 0
      /\ 100 * (y \div 100) = y <=> y % 100 = 0
      /\ 400 * (y \div 400) = y <=> y % 400 = 0
  OBVIOUS
<1>3. (y % 400 = 0 => y % 100 = 0) /\ (y % 100 = 0 => y % 4 = 0)
  OBVIOUS
<1>4. CivilYearLen(y) = YearLength(y)
  BY <1>2, <1>3 DEF CivilYearLen, YearLength, IsLeap
<1>5. YearLength(y) \in {365, 366}
  BY DEF YearLength
<1> QED
  BY <1>1, <1>4, <1>5, NextYearFollows DEF FirstDay

LEMMA FirstDaysGrow ==
    ASSUME NEW y \in Nat, NEW z \in Nat, y < z
    PROVE  FirstDay(y) + 365 <= FirstDay(z)
<1> DEFINE a == y - 1
           b == z - 1
<1>1. a \in Int /\ b \in Int /\ a + 1 <= b
  OBVIOUS
<1>2. FirstDay(y) = DaysBeforeYear(a) + 306 - 719468
  BY MonthStarts DEF FirstDay, DaysFromCivil, MarchYear
<1>3. FirstDay(z) = DaysBeforeYear(b) + 306 - 719468
  BY MonthStarts DEF FirstDay, DaysFromCivil, MarchYear
<1>4. DaysBeforeYear(a) = 365 * a + a \div 4 - a \div 100 + a \div 400
  BY <1>1, ClosedForm
<1>5. DaysBeforeYear(b) = 365 * b + b \div 4 - b \div 100 + b \div 400
  BY <1>1, ClosedForm
<1>6. a \div 400 <= b \div 400
  BY <1>1
<1>7. a \div 4 - a \div 100 <= b \div 4 - b \div 100
  <2> HIDE DEF a, b
  <2> DEFINE p == a \div 100
             q == b \div 100
  <2>1. p \in Int /\ q \in Int /\ p <= q
    BY <1>1
  <2>2. 25 * p <= a \div 4 /\ a \div 4 <= 25 * p + 24
    BY <1>1
  <2>3. 25 * q <= b \div 4 /\ b \div 4 <= 25 * q + 24
    BY <1>1
  <2>4. CASE p < q
    <3> HIDE DEF p, q
    <3>1. a \div 4 \in Int /\ b \div 4 \in Int
      BY <1>1
    <3>2. a \div 4 - p <= b \div 4 - q
      BY <2>1, <2>2, <2>3, <2>4, <3>1
    <3> QED
      BY <3>2 DEF p, q
  <2>5. CASE p = q
    BY <1>1, <2>5
  <2> QED
    BY <2>1, <2>4, <2>5
<1> HIDE DEF a, b
<1>8. /\ a \div 4 \in Int /\ a \div 100 \in Int /\ a \div 400 \in Int
      /\ b \div 4 \in Int /\ b \div 100 \in Int /\ b \div 400 \in Int
  BY <1>1
<1> QED
  BY <1>1, <1>2, <1>3, <1>4, <1>5, <1>6, <1>7, <1>8

\* A date lies within its year.
LEMMA DateInYear ==
    ASSUME NEW d, IsDate(d)
    PROVE  /\ DaysFromCivil(d.year, d.month, d.day) \in Int
           /\ FirstDay(d.year) <= DaysFromCivil(d.year, d.month, d.day)
           /\ DaysFromCivil(d.year, d.month, d.day) < FirstDay(d.year + 1)
<1> DEFINE y == d.year
           m == d.month
           day == d.day
<1>1. y \in Nat /\ m \in 1..12 /\ day \in 1..31 /\ day <= MonthLength(y, m)
  BY DEF IsDate
<1> HIDE DEF y, m, day
<1>2. y \in Int /\ y - 1 \in Int
  BY <1>1
<1>3. DaysBeforeYear(y) \in Int /\ DaysBeforeYear(y - 1) \in Int
  BY <1>2, ClosedForm
<1>4. DaysBeforeYear(y) - DaysBeforeYear(y - 1) \in {365, 366}
  BY <1>2, MarchToMarch
<1>5. FirstDay(y) = DaysBeforeYear(y - 1) + 306 - 719468
  BY MonthStarts DEF FirstDay, DaysFromCivil, MarchYear
<1>6. FirstDay(y + 1) = DaysBeforeYear(y) + 306 - 719468
  BY <1>1, MonthStarts DEF FirstDay, DaysFromCivil, MarchYear
<1>7. CASE m <= 2
  <2>1. DayOfYear(m, day) = IF m = 1 THEN day + 305 ELSE day + 336
    BY <1>1, <1>7, MonthStarts
  <2>2. day <= IF m = 1 THEN 31 ELSE IF IsLeap(y) THEN 29 ELSE 28
    BY <1>1, <1>7 DEF MonthLength
  <2>4. DaysFromCivil(y, m, day) = DaysBeforeYear(y - 1) + DayOfYear(m, day) - 719468
    BY <1>7 DEF DaysFromCivil, MarchYear
  <2>5. DaysBeforeYear(y) - DaysBeforeYear(y - 1) = IF IsLeap(y) THEN 366 ELSE 365
    BY <1>2, MarchToMarch
  <2> QED
    BY <1>1, <1>3, <1>5, <1>6, <2>1, <2>2, <2>4, <2>5 DEF y, m, day
<1>8. CASE m > 2
  <2>1. DayOfYear(m, day) \in 0..305
    BY <1>1, <1>8 DEF DayOfYear
  <2>2. DaysFromCivil(y, m, day) = DaysBeforeYear(y) + DayOfYear(m, day) - 719468
    BY <1>1, <1>8 DEF DaysFromCivil, MarchYear
  <2> QED
    BY <1>3, <1>4, <1>5, <1>6, <2>1, <2>2 DEF y, m, day
<1> QED
  BY <1>1, <1>7, <1>8

-----------------------------------------------------------------------------
(* Years.  That year_of is right needs an induction over the years, and the *)
(* calendar makes it: whenever it turns to a new year, the loop of year_of  *)
(* has come one year further.                                               *)

\* The year that holds day k, if there is one.
YearHolding(k) == CHOOSE y \in Nat : FirstDay(y) <= k /\ k < FirstDay(y + 1)

LEMMA OneYearHolds ==
    ASSUME NEW k \in Int, NEW y \in Nat, FirstDay(y) <= k, k < FirstDay(y + 1)
    PROVE  YearHolding(k) = y
<1> DEFINE Holds(z) == FirstDay(z) <= k /\ k < FirstDay(z + 1)
<1>1. ASSUME NEW z \in Nat, Holds(z)
      PROVE  z = y
  <2>1. ASSUME NEW a \in Nat, NEW b \in Nat, a < b, k < FirstDay(a + 1), FirstDay(b) <= k
        PROVE  FALSE
    <3>1. FirstDay(a + 1) \in Int /\ FirstDay(b) \in Int
      BY FirstDays
    <3>2. a + 1 < b => FirstDay(a + 1) <= FirstDay(b)
      <4>1. SUFFICES ASSUME a + 1 < b
                     PROVE  FirstDay(a + 1) <= FirstDay(b)
        OBVIOUS
      <4>2. FirstDay(a + 1) + 365 <= FirstDay(b)
        BY <2>1, <4>1, FirstDaysGrow
      <4> QED
        BY <3>1, <4>2
    <3>3. a + 1 = b \/ a + 1 < b
      BY <2>1
    <3> QED
      BY <2>1, <3>1, <3>2, <3>3
  <2>2. z < y \/ z = y \/ y < z
    OBVIOUS
  <2> QED
    BY <1>1, <2>1, <2>2
<1>2. Holds(y)
  OBVIOUS
<1> HIDE DEF Holds
<1>3. YearHolding(k) = CHOOSE z \in Nat : Holds(z)
  BY DEF YearHolding, Holds
<1>4. YearHolding(k) \in Nat /\ Holds(YearHolding(k))
  BY <1>2, <1>3
<1> QED
  BY <1>1, <1>4

\* The loop of year_of is well defined: a function satisfies its equation.
LEMMA YearFromStep ==
    ASSUME NEW y \in Nat, NEW rest \in Int
    PROVE  YearFrom[<<y, rest>>] = IF rest < CivilYearLen(y) THEN y
                                   ELSE YearFrom[<<y + 1, rest - CivilYearLen(y)>>]
<1> DEFINE found == [at \in Nat \X Int |->
                        IF at[2] < CivilYearLen(at[1]) THEN at[1]
                        ELSE YearHolding(at[2] + FirstDay(at[1]))]
<1>1. ASSUME NEW z \in Nat, NEW r \in Int, ~(r < CivilYearLen(z))
      PROVE  YearHolding(r + FirstDay(z)) = found[<<z + 1, r - CivilYearLen(z)>>]
  <2> DEFINE len == CivilYearLen(z)
             s == r - len
             k == r + FirstDay(z)
  <2>1. /\ FirstDay(z) \in Int /\ FirstDay(z + 1) = FirstDay(z) + len /\ len \in Int
        /\ FirstDay(z + 1) \in Int /\ CivilYearLen(z + 1) \in Int
        /\ FirstDay(z + 1 + 1) = FirstDay(z + 1) + CivilYearLen(z + 1)
    <3>1. z + 1 \in Nat
      OBVIOUS
    <3> QED
      BY <3>1, FirstDays
  <2>2. s \in Int /\ 0 <= s /\ k = s + FirstDay(z + 1) /\ k \in Int
    BY <1>1, <2>1
  <2>3. <<z + 1, s>> \in Nat \X Int /\ <<z + 1, s>>[1] = z + 1 /\ <<z + 1, s>>[2] = s
    BY <2>2
  <2>4. found[<<z + 1, s>>] = IF s < CivilYearLen(z + 1) THEN z + 1 ELSE YearHolding(s + FirstDay(z + 1))
    BY <2>3
  <2>5. CASE s < CivilYearLen(z + 1)
    <3>1. FirstDay(z + 1) <= k /\ k < FirstDay(z + 1 + 1)
      BY <2>1, <2>2, <2>5
    <3>2. YearHolding(k) = z + 1
      BY <2>2, <3>1, OneYearHolds
    <3> QED
      BY <2>4, <2>5, <3>2
  <2>6. CASE ~(s < CivilYearLen(z + 1))
    BY <2>2, <2>4, <2>6
  <2> QED
    BY <2>5, <2>6
<1>2. found = [at \in Nat \X Int |-> IF at[2] < CivilYearLen(at[1]) THEN at[1]
                                     ELSE found[<<at[1] + 1, at[2] - CivilYearLen(at[1])>>]]
  <2>1. ASSUME NEW at \in Nat \X Int
        PROVE  found[at] = IF at[2] < CivilYearLen(at[1]) THEN at[1]
                           ELSE found[<<at[1] + 1, at[2] - CivilYearLen(at[1])>>]
    BY <1>1
  <2> QED
    BY <2>1
<1>3. \E f : f = [at \in Nat \X Int |-> IF at[2] < CivilYearLen(at[1]) THEN at[1]
                                        ELSE f[<<at[1] + 1, at[2] - CivilYearLen(at[1])>>]]
  <2> HIDE DEF found
  <2> QED
    BY <1>2, Zenon
<1>4. YearFrom = [at \in Nat \X Int |-> IF at[2] < CivilYearLen(at[1]) THEN at[1]
                                        ELSE YearFrom[<<at[1] + 1, at[2] - CivilYearLen(at[1])>>]]
  BY <1>3, Zenon DEF YearFrom
<1> QED
  BY <1>4

\* Years that year_of has taken off by the time it comes to year y: the days
\* that are left are counted from that year's first day.
CameTo(y) == \A k \in Int : FirstDay(y) <= k => YearFrom[<<1970, k>>] = YearFrom[<<y, k - FirstDay(y)>>]

LEMMA FirstOfAll == FirstDay(1970) = 0
<1>1. DaysBeforeYear(1969) = 719162
  <2>1. DaysBeforeYear(1969) = 365 * 1969 + 1969 \div 4 - 1969 \div 100 + 1969 \div 400
    BY ClosedForm
  <2> QED
    BY <2>1
<1> QED
  BY <1>1, MonthStarts DEF FirstDay, DaysFromCivil, MarchYear

LEMMA CameToNext ==
    ASSUME NEW y \in Nat, CameTo(y)
    PROVE  CameTo(y + 1)
<1> SUFFICES ASSUME NEW k \in Int, FirstDay(y + 1) <= k
             PROVE  YearFrom[<<1970, k>>] = YearFrom[<<y + 1, k - FirstDay(y + 1)>>]
  BY DEF CameTo
<1> DEFINE len == CivilYearLen(y)
<1>1. /\ FirstDay(y) \in Int /\ FirstDay(y + 1) = FirstDay(y) + len /\ len \in {365, 366}
  BY FirstDays
<1>2. FirstDay(y) <= k /\ k - FirstDay(y) \in Int /\ ~(k - FirstDay(y) < len)
  BY <1>1
<1>3. YearFrom[<<1970, k>>] = YearFrom[<<y, k - FirstDay(y)>>]
  BY <1>2 DEF CameTo
<1>4. YearFrom[<<y, k - FirstDay(y)>>] = YearFrom[<<y + 1, (k - FirstDay(y)) - len>>]
  BY <1>2, YearFromStep
<1>5. (k - FirstDay(y)) - len = k - FirstDay(y + 1)
  BY <1>1
<1> QED
  BY <1>3, <1>4, <1>5

\* year_of on the days of a year it has come to.
LEMMA YearOfHeld ==
    ASSUME NEW y \in Nat, CameTo(y), NEW k \in Int, FirstDay(y) <= k, k < FirstDay(y + 1)
    PROVE  YearOf(k) = y
<1>1. /\ FirstDay(y) \in Int /\ FirstDay(y + 1) = FirstDay(y) + CivilYearLen(y)
      /\ CivilYearLen(y) \in {365, 366}
  BY FirstDays
<1>2. k - FirstDay(y) \in Int /\ k - FirstDay(y) < CivilYearLen(y)
  BY <1>1
<1>3. YearFrom[<<y, k - FirstDay(y)>>] = y
  BY <1>2, YearFromStep
<1> QED
  BY <1>3 DEF CameTo, YearOf

YearsBehind == date.year >= 1970 /\ \A y \in 1970..date.year : CameTo(y)

\* What a step of the calendar does to the year.
LEMMA YearTurns ==
    ASSUME CalendarTypeOK, CalendarNext
    PROVE  date'.year \in {date.year, date.year + 1}
<1>1. date = [year |-> date.year, month |-> date.month, day |-> date.day] /\ date.year \in Nat
  BY DEF CalendarTypeOK, IsDate
<1>2. ASSUME NEW d, d = [year |-> d.year, month |-> d.month, day |-> d.day]
      PROVE  NextDate(d).year \in {d.year, d.year + 1}
  BY <1>2 DEF NextDate
<1>3. CASE NextDay
  BY <1>1, <1>2, <1>3 DEF NextDay
<1>4. CASE NextMonth
  <2> DEFINE d == [date EXCEPT !.day = MonthLength(date.year, date.month)]
  <2>1. d = [year |-> d.year, month |-> d.month, day |-> d.day] /\ d.year = date.year
    BY <1>1
  <2> HIDE DEF d
  <2>2. NextDate(d).year \in {d.year, d.year + 1}
    BY <1>2, <2>1
  <2>3. date' = NextDate(d)
    BY <1>4 DEF NextMonth, d
  <2> QED
    BY <2>1, <2>2, <2>3
<1>5. CASE NextYear
  BY <1>1, <1>5 DEF NextYear
<1> QED
  BY <1>3, <1>4, <1>5 DEF CalendarNext

LEMMA YearsStayBehind ==
    ASSUME YearsBehind, date.year \in Nat, date'.year \in {date.year, date.year + 1}
    PROVE  YearsBehind'
<1>1. CameTo(date.year + 1)
  BY CameToNext DEF YearsBehind
<1>2. \A y \in 1970..(date.year + 1) : CameTo(y)
  BY <1>1 DEF YearsBehind
<1> QED
  BY <1>2 DEF YearsBehind

-----------------------------------------------------------------------------
(* The calendar.                                                           *)

CalendarInv == CalendarTypeOK /\ CivilDays /\ YearsBehind

LEMMA DaysStart ==
    ASSUME CalendarInit
    PROVE  CalendarTypeOK /\ CivilDays
<1>1. IsDate(date)
  BY DEF CalendarInit, IsDate, MonthLength
<1> QED
  BY <1>1, FirstOfAll DEF CalendarInit, CalendarTypeOK, CivilDays, FirstDay

LEMMA DaysFollow ==
    ASSUME CalendarTypeOK, CivilDays, CalendarNext
    PROVE  CalendarTypeOK' /\ CivilDays'
<1>1. CASE NextDay
  <2>1. IsDate(date)' /\ DaysFromCivil(date'.year, date'.month, date'.day) = serial + 1
    BY <1>1, NextDayFollows DEF NextDay, CalendarTypeOK, CivilDays
  <2> QED
    BY <1>1, <2>1 DEF NextDay, CalendarTypeOK, CivilDays
<1>2. CASE NextYear
  <2>1. date.year \in Nat /\ date = [year |-> date.year, month |-> 1, day |-> 1]
    BY <1>2 DEF NextYear, CalendarTypeOK, IsDate
  <2>2. date' = [year |-> date.year + 1, month |-> 1, day |-> 1]
    BY <1>2, <2>1 DEF NextYear
  <2>3. IsDate(date)'
    BY <2>1, <2>2 DEF IsDate, MonthLength
  <2>4. YearLength(date.year) \in Nat
    BY DEF YearLength
  <2> QED
    BY <1>2, <2>1, <2>2, <2>3, <2>4, NextYearFollows DEF NextYear, CalendarTypeOK, CivilDays
<1>3. CASE NextMonth
  <2> DEFINE y == date.year
             m == date.month
             last == MonthLength(y, m)
             d == [year |-> y, month |-> m, day |-> last]
  <2>1. y \in Nat /\ m \in 1..12 /\ date = [year |-> y, month |-> m, day |-> 1]
    BY <1>3 DEF NextMonth, CalendarTypeOK, IsDate
  <2>2. date' = NextDate(d)
    BY <1>3, <2>1 DEF NextMonth
  <2>3. IsDate(d) /\ DaysFromCivil(y, m, last) = DaysFromCivil(y, m, 1) + last - 1
    BY <2>1, MonthIsLong
  <2>4. last \in 28..31
    BY DEF MonthLength
  <2>5. DaysFromCivil(y, m, 1) = serial /\ serial \in Nat
    BY <2>1 DEF CivilDays, CalendarTypeOK
  <2>6. IsDate(NextDate(d)) /\ DaysFromCivil(NextDate(d).year, NextDate(d).month, NextDate(d).day)
                                 = DaysFromCivil(y, m, last) + 1
    BY <2>3, NextDayFollows
  <2>7. serial' = serial + last
    BY <1>3 DEF NextMonth
  <2>8. DaysFromCivil(date'.year, date'.month, date'.day) = serial'
    BY <2>2, <2>3, <2>4, <2>5, <2>6, <2>7
  <2> QED
    BY <2>2, <2>4, <2>5, <2>6, <2>7, <2>8 DEF CalendarTypeOK, CivilDays
<1> QED
  BY <1>1, <1>2, <1>3 DEF CalendarNext

LEMMA CalendarStarts ==
    ASSUME CalendarInit
    PROVE  CalendarInv
<1>1. CameTo(1970)
  BY FirstOfAll DEF CameTo
<1>2. date.year = 1970
  BY DEF CalendarInit
<1> QED
  BY <1>1, <1>2, DaysStart DEF CalendarInv, YearsBehind

LEMMA CalendarTurns ==
    ASSUME CalendarInv, CalendarNext
    PROVE  CalendarInv'
<1>1. date.year \in Nat
  BY DEF CalendarInv, CalendarTypeOK, IsDate
<1> QED
  BY <1>1, DaysFollow, YearTurns, YearsStayBehind DEF CalendarInv

LEMMA CalendarStutters ==
    ASSUME CalendarInv, UNCHANGED calendarVars
    PROVE  CalendarInv'
BY DEF CalendarInv, calendarVars, CalendarTypeOK, CivilDays, YearsBehind, IsDate

LEMMA TodayInYear ==
    ASSUME CalendarInv
    PROVE  /\ date.year \in Nat /\ date.year >= 1970 /\ serial \in Nat
           /\ FirstDay(date.year) \in Int /\ FirstDay(date.year + 1) \in Int
           /\ FirstDay(date.year) <= serial /\ serial < FirstDay(date.year + 1)
<1>1. date.year \in Nat /\ date.year >= 1970 /\ serial \in Nat /\ IsDate(date)
  BY DEF CalendarInv, CalendarTypeOK, YearsBehind, IsDate
<1> QED
  BY <1>1, DateInYear, FirstDays DEF CalendarInv, CivilDays

\* Whatever the days a year has been gone through, days_from_civil
\* (src/src/ftp/parser.rs:255) gives each its own number.
THEOREM DaysAreRight == CalendarSpec => [](CalendarTypeOK /\ CivilDays)
<1>1. CalendarInit => CalendarInv
  BY CalendarStarts
<1>2. CalendarInv /\ [CalendarNext]_calendarVars => CalendarInv'
  BY CalendarTurns, CalendarStutters
<1>3. CalendarInv => CalendarTypeOK /\ CivilDays
  BY DEF CalendarInv
<1> QED
  BY <1>1, <1>2, <1>3, PTL DEF CalendarSpec

\* year_of (src/src/ftp/parser.rs:232) stops, and stops at the year that holds
\* the day, on every day from 1970 on.
THEOREM YearsAreFound == CalendarSpec => []YearFound
<1>1. CalendarInit => CalendarInv
  BY CalendarStarts
<1>2. CalendarInv /\ [CalendarNext]_calendarVars => CalendarInv'
  BY CalendarTurns, CalendarStutters
<1>3. CalendarInv => YearFound
  <2> SUFFICES ASSUME CalendarInv
               PROVE  YearFound
    OBVIOUS
  <2>1. CameTo(date.year)
    BY TodayInYear DEF CalendarInv, YearsBehind
  <2> QED
    BY <2>1, TodayInYear, YearOfHeld DEF YearFound
<1> QED
  BY <1>1, <1>2, <1>3, PTL DEF CalendarSpec

-----------------------------------------------------------------------------
(* The clock and the file.                                                 *)

SinceEpoch(y) == y >= 1970

\* What stays true of a file from the moment it is written: its time is that of
\* its date, and not in the future.
FileWritten ==
    /\ file.name \in Name /\ file.hour \in Hours
    /\ IsDate(file.date) /\ SinceEpoch(file.date.year)
    /\ file.time = MinutesFrom(file.date.year, file.date.month, file.date.day, file.hour, 0)
    /\ file.time <= WallTime

\* The inductive invariant of the listings.
ListingInv ==
    /\ CalendarInv
    /\ hour \in Hours /\ ahead \in Offsets
    /\ file # NoFile => FileWritten

LEMMA SerialGrows ==
    ASSUME CalendarTypeOK, CalendarNext
    PROVE  \E next \in Nat : serial' = next /\ serial + 1 <= next
<1>1. serial \in Nat
  BY DEF CalendarTypeOK
<1>2. MonthLength(date.year, date.month) \in 28..31
  BY DEF MonthLength
<1>3. YearLength(date.year) \in {365, 366}
  BY DEF YearLength
<1>4. \E days \in Nat : days >= 1 /\ serial' = serial + days
  BY <1>2, <1>3 DEF CalendarNext, NextDay, NextMonth, NextYear
<1> QED
  BY <1>1, <1>4

LEMMA ListingStarts ==
    ASSUME ListingInit
    PROVE  ListingInv
BY CalendarStarts, ListingAssumption DEF ListingInit, ListingInv

\* A file stays written while the clock moves on.
LEMMA FileStays ==
    ASSUME file # NoFile => FileWritten, serial \in Nat, hour \in 0..23,
           NEW laterDay \in Nat, NEW laterHour \in 0..23, serial' = laterDay, hour' = laterHour,
           laterDay * 24 + laterHour >= serial * 24 + hour,
           file' = file \/ file' = NoFile
    PROVE  file' # NoFile => FileWritten'
<1> SUFFICES ASSUME file' # NoFile
             PROVE  FileWritten'
  OBVIOUS
<1>1. file' = file /\ FileWritten
  OBVIOUS
<1>2. file.time \in Int
  <2>1. IsDate(file.date) /\ file.hour \in Hours
    BY <1>1, Zenon DEF FileWritten
  <2>2. file.hour \in 0..23
    BY <2>1, ListingAssumption
  <2>3. DaysFromCivil(file.date.year, file.date.month, file.date.day) \in Int
    BY <2>1, DateInYear
  <2> QED
    BY <1>1, <2>2, <2>3 DEF FileWritten, MinutesFrom
<1> DEFINE later == laterDay * 1440 + laterHour * 60
<1>3. WallTime \in Int /\ later \in Int /\ WallTime <= later
  BY DEF WallTime
<1>4. WallTime' = later
  BY DEF WallTime
<1> HIDE DEF later
<1>5. file.time <= later
  BY <1>1, <1>2, <1>3 DEF FileWritten
<1>6. file'.time <= WallTime'
  BY <1>1, <1>4, <1>5
<1> QED
  BY <1>1, <1>6 DEF FileWritten

LEMMA ListingTurns ==
    ASSUME ListingInv, [ListingNext]_listingVars
    PROVE  ListingInv'
<1>1. /\ serial \in Nat /\ hour \in 0..23 /\ CalendarTypeOK
      /\ CalendarInv /\ hour \in Hours /\ ahead \in Offsets /\ (file # NoFile => FileWritten)
  BY ListingAssumption DEF ListingInv, CalendarInv, CalendarTypeOK
<1>2. CASE LaterToday
  <2>1. PICK h \in 0..23 : h \in Hours /\ h > hour /\ hour' = h
    BY <1>2, ListingAssumption DEF LaterToday
  <2>2. UNCHANGED <<date, serial, ahead, file>>
    BY <1>2 DEF LaterToday
  <2>3. CalendarInv'
    BY <1>1, <2>2, CalendarStutters DEF calendarVars
  <2>4. serial * 24 + h >= serial * 24 + hour
    BY <1>1, <2>1
  <2>5. file' # NoFile => FileWritten'
    BY <1>1, <2>1, <2>2, <2>4, FileStays
  <2> QED
    BY <1>1, <2>1, <2>2, <2>3, <2>5 DEF ListingInv
<1>3. ASSUME CalendarNext, ahead' = ahead, NEW h \in 0..23, h \in Hours, hour' = h,
             file' = file \/ file' = NoFile
      PROVE  ListingInv'
  <2>1. CalendarInv'
    BY <1>1, <1>3, CalendarTurns
  <2>2. PICK next \in Nat : serial' = next /\ serial + 1 <= next
    BY <1>1, <1>3, SerialGrows
  <2>3. next * 24 + h >= serial * 24 + hour
    BY <1>1, <1>3, <2>2
  <2>4. file' # NoFile => FileWritten'
    BY <1>1, <1>3, <2>2, <2>3, FileStays
  <2> QED
    BY <1>1, <1>3, <2>1, <2>4 DEF ListingInv
<1>4. CASE NextMidnight \/ LaterYet
  <2>1. CalendarNext /\ ahead' = ahead /\ (file' = file \/ file' = NoFile) /\ hour' = 0
    BY <1>4 DEF NextMidnight, LaterYet, FileAges, CalendarNext
  <2> QED
    BY <1>3, <2>1, ListingAssumption
<1>5. CASE WriteFile
  <2>1. PICK name \in Name : file' = [name |-> name, date |-> date, hour |-> hour, time |-> WallTime]
    BY <1>5 DEF WriteFile
  <2>2. UNCHANGED <<date, serial, hour, ahead>>
    BY <1>5 DEF WriteFile
  <2>3. CalendarInv'
    BY <1>1, <2>2, CalendarStutters DEF calendarVars
  <2>4. DaysFromCivil(date.year, date.month, date.day) = serial /\ IsDate(date) /\ SinceEpoch(date.year)
    BY <1>1, TodayInYear DEF CalendarInv, CivilDays, CalendarTypeOK, SinceEpoch
  <2>5. WallTime \in Int /\ WallTime = MinutesFrom(date.year, date.month, date.day, hour, 0)
    BY <1>1, <2>4 DEF WallTime, MinutesFrom
  <2>6. WallTime' = WallTime
    BY <2>2 DEF WallTime
  <2>7. FileWritten'
    BY <1>1, <2>1, <2>4, <2>5, <2>6 DEF FileWritten
  <2> QED
    BY <1>1, <2>2, <2>3, <2>7 DEF ListingInv
<1>6. CASE UNCHANGED listingVars
  <2>1. UNCHANGED <<date, serial, hour, ahead, file>>
    BY <1>6 DEF listingVars
  <2>2. CalendarInv'
    BY <1>1, <2>1, CalendarStutters DEF calendarVars
  <2> QED
    BY <1>1, <2>1, <2>2, FileStays DEF ListingInv
<1> QED
  BY <1>2, <1>4, <1>5, <1>6 DEF ListingNext

\* The file was written in the current year or before, and what separates it
\* from the present is what the days and hours between amount to.
LEMMA FileDated ==
    ASSUME ListingInv, file # NoFile
    PROVE  /\ file.date.year \in Nat /\ file.date.year >= 1970
           /\ file.date.month \in 1..12 /\ file.date.day \in 1..31
           /\ file.hour \in 0..23 /\ file.time \in Int /\ WallTime \in Int /\ file.time <= WallTime
           /\ file.date.year <= date.year
           /\ FirstDay(file.date.year) \in Int /\ FirstDay(file.date.year + 1) \in Int
           /\ FirstDay(file.date.year) * 1440 <= file.time
           /\ file.time < FirstDay(file.date.year + 1) * 1440
<1> DEFINE F == file.date.year
           days == DaysFromCivil(F, file.date.month, file.date.day)
<1>1. FileWritten /\ IsDate(file.date)
  BY DEF ListingInv, FileWritten
<1>2. F \in Nat /\ F >= 1970 /\ file.date.month \in 1..12 /\ file.date.day \in 1..31
  BY <1>1 DEF IsDate, FileWritten, SinceEpoch
<1>3. days \in Int /\ FirstDay(F) <= days /\ days < FirstDay(F + 1)
  BY <1>1, DateInYear
<1>4. FirstDay(F) \in Int /\ FirstDay(F + 1) \in Int
  BY <1>2, FirstDays
<1>5. file.hour \in 0..23 /\ hour \in 0..23
  <2>1. file.hour \in Hours /\ hour \in Hours
    BY <1>1, Zenon DEF FileWritten, ListingInv
  <2> QED
    BY <2>1, ListingAssumption
<1>6. file.time = days * 1440 + file.hour * 60 + 0
  BY <1>1 DEF FileWritten, MinutesFrom
<1>7. WallTime = serial * 1440 + hour * 60 /\ file.time <= WallTime
  BY <1>1 DEF FileWritten, WallTime
<1>8. /\ date.year \in Nat /\ serial \in Nat
      /\ FirstDay(date.year + 1) \in Int /\ serial < FirstDay(date.year + 1)
  BY TodayInYear DEF ListingInv
<1> HIDE DEF F, days
<1>9. F <= date.year
  <2>1. SUFFICES ASSUME date.year < F
                 PROVE  FALSE
    BY <1>2, <1>8
  <2>2. FirstDay(date.year + 1) <= FirstDay(F)
    <3>1. CASE date.year + 1 = F
      BY <1>4, <3>1
    <3>2. CASE date.year + 1 < F
      BY <1>2, <1>4, <1>8, <3>2, FirstDaysGrow
    <3> QED
      BY <1>2, <1>8, <2>1, <3>1, <3>2
  <2> QED
    BY <1>3, <1>4, <1>5, <1>6, <1>7, <1>8, <2>2
<1>10. file.time \in Int /\ WallTime \in Int
  BY <1>3, <1>5, <1>6, <1>7, <1>8
<1>11. FirstDay(F) * 1440 <= file.time /\ file.time < FirstDay(F + 1) * 1440
  BY <1>3, <1>4, <1>5, <1>6
<1> QED
  BY <1>1, <1>2, <1>4, <1>5, <1>7, <1>9, <1>10, <1>11 DEF F

-----------------------------------------------------------------------------
(* The year of a line that leaves it out.                                  *)

AYearLater(s, t) == s \in Int /\ t \in Int /\ s + 365 * 1440 <= t

\* The same day and hour of the year after, 29 February taken for 1 March.
LEMMA YearApart ==
    ASSUME NEW y \in Int, NEW next \in Int, next = y + 1,
           NEW m \in 1..12, NEW d \in 1..31, NEW h \in 0..23
    PROVE  AYearLater(MinutesFrom(y, m, d, h, 0), MinutesFrom(next, m, d, h, 0))
<1> DEFINE x == MarchYear(y, m)
<1>1. x \in Int /\ x + 1 \in Int /\ MarchYear(next, m) = x + 1
  BY DEF MarchYear
<1> HIDE DEF x
<1>2. /\ DaysBeforeYear(x) \in Int /\ DaysBeforeYear(x + 1) \in Int
      /\ DaysBeforeYear(x + 1) - DaysBeforeYear(x) \in {365, 366}
  <2>1. DaysBeforeYear(x) \in Int
    BY <1>1, ClosedForm
  <2>2. DaysBeforeYear(x + 1) \in Int
    BY <1>1, ClosedForm
  <2>3. DaysBeforeYear(x + 1) - DaysBeforeYear((x + 1) - 1) \in {365, 366}
    BY <1>1, MarchToMarch
  <2>4. (x + 1) - 1 = x
    BY <1>1
  <2> QED
    BY <2>1, <2>2, <2>3, <2>4
<1>3. DayOfYear(m, d) \in Int
  BY DEF DayOfYear
<1>4. MinutesFrom(y, m, d, h, 0) = (DaysBeforeYear(x) + DayOfYear(m, d) - 719468) * 1440 + h * 60 + 0
  BY DEF MinutesFrom, DaysFromCivil, x
<1>5. MinutesFrom(next, m, d, h, 0) = (DaysBeforeYear(x + 1) + DayOfYear(m, d) - 719468) * 1440 + h * 60 + 0
  BY <1>1 DEF MinutesFrom, DaysFromCivil
<1> QED
  BY <1>2, <1>3, <1>4, <1>5, SMT DEF AYearLater

\* The day on the client's clock, and the years it may lie in.
Today == Now \div 1440

LEMMA ClientsDay ==
    ASSUME ListingInv
    PROVE  /\ Now \in Nat /\ Today \in Nat
           /\ Now = IF WallTime < ahead * 60 THEN 0 ELSE WallTime - ahead * 60
           /\ WallTime = serial * 1440 + hour * 60 /\ hour \in 0..23 /\ ahead \in -12..14
           /\ Today * 1440 <= Now /\ Now < Today * 1440 + 1440
           /\ serial - 1 <= Today /\ Today <= serial + 1
<1>1. serial \in Nat /\ hour \in 0..23 /\ ahead \in -12..14
  BY TodayInYear, ListingAssumption DEF ListingInv
<1>2. WallTime = serial * 1440 + hour * 60 /\ WallTime \in Nat
  BY <1>1 DEF WallTime
<1>3. /\ Now \in Nat
      /\ Now = IF WallTime < ahead * 60 THEN 0 ELSE WallTime - ahead * 60
  BY <1>1, <1>2, SMT DEF Now
<1>4. Today \in Nat /\ Today * 1440 <= Now /\ Now < Today * 1440 + 1440
  BY <1>3 DEF Today
<1> QED
  BY <1>1, <1>2, <1>3, <1>4

LEMMA ClientsYear ==
    ASSUME ListingInv
    PROVE  \/ YearOf(Today) = date.year /\ (date.year = 1970 \/ FirstDay(date.year) <= Today)
           \/ /\ YearOf(Today) = date.year - 1 /\ date.year > 1970
              /\ Today < FirstDay(date.year) /\ serial = FirstDay(date.year)
           \/ YearOf(Today) = date.year + 1 /\ serial = FirstDay(date.year + 1) - 1
<1> DEFINE Y == date.year
<1>1. /\ Y \in Nat /\ Y >= 1970 /\ serial \in Nat /\ Today \in Nat
      /\ FirstDay(Y) \in Int /\ FirstDay(Y + 1) \in Int
      /\ FirstDay(Y) <= serial /\ serial < FirstDay(Y + 1)
      /\ serial - 1 <= Today /\ Today <= serial + 1
  BY TodayInYear, ClientsDay DEF ListingInv
<1>2. \A y \in 1970..Y : CameTo(y)
  BY DEF ListingInv, CalendarInv, YearsBehind
<1> HIDE DEF Y
<1>3. CASE FirstDay(Y) <= Today /\ Today < FirstDay(Y + 1)
  <2>1. YearOf(Today) = Y
    BY <1>1, <1>2, <1>3, YearOfHeld
  <2> QED
    BY <1>3, <2>1 DEF Y
<1>4. CASE Today >= FirstDay(Y + 1)
  <2>1. serial = FirstDay(Y + 1) - 1 /\ Today = FirstDay(Y + 1)
    BY <1>1, <1>4
  <2>2. CameTo(Y + 1)
    BY <1>1, <1>2, CameToNext
  <2>3. FirstDay(Y + 1 + 1) \in Int /\ FirstDay(Y + 1) + 365 <= FirstDay(Y + 1 + 1)
    BY <1>1, FirstDays, FirstDaysGrow
  <2>4. YearOf(Today) = Y + 1
    BY <1>1, <2>1, <2>2, <2>3, YearOfHeld
  <2> QED
    BY <2>1, <2>4 DEF Y
<1>5. CASE Today < FirstDay(Y) /\ Y = 1970
  <2>1. FirstDay(Y) = 0
    BY <1>5, FirstOfAll
  <2> QED
    BY <1>1, <1>5, <2>1, SMT
<1>6. CASE Today < FirstDay(Y) /\ Y > 1970
  <2>1. serial = FirstDay(Y) /\ Today = FirstDay(Y) - 1
    BY <1>1, <1>6
  <2>2. Y - 1 \in Nat /\ Y - 1 \in 1970..Y /\ (Y - 1) + 1 = Y
    BY <1>1, <1>6
  <2>3. FirstDay(Y - 1) \in Int /\ FirstDay(Y - 1) + 365 <= FirstDay(Y)
    BY <1>1, <2>2, FirstDays, FirstDaysGrow
  <2>4. YearOf(Today) = Y - 1
    <3> DEFINE P == Y - 1
    <3>1. P \in Nat /\ P \in 1970..Y /\ FirstDay(P) \in Int /\ FirstDay(P) <= Today /\ Today < FirstDay(P + 1)
      BY <1>1, <2>1, <2>2, <2>3
    <3> HIDE DEF P
    <3>2. YearOf(Today) = P
      BY <1>1, <1>2, <3>1, YearOfHeld
    <3> QED
      BY <3>2 DEF P
  <2> QED
    BY <1>6, <2>1, <2>4 DEF Y
<1> QED
  BY <1>1, <1>3, <1>4, <1>5, <1>6

\* It is still last year on the client exactly in the first hours of January.
LEMMA NewYearsDay ==
    ASSUME ListingInv, date.year > 1970
    PROVE  Today < FirstDay(date.year) <=> date.month = 1 /\ (date.day - 1) * 24 + hour < ahead
<1> DEFINE Y == date.year
           d == date.day
           m == date.month
<1>1. /\ Y \in Nat /\ serial \in Nat /\ Today \in Int
      /\ FirstDay(Y) \in Int /\ FirstDay(Y) <= serial
      /\ hour \in 0..23 /\ ahead \in -12..14
      /\ Today * 1440 <= Now /\ Now < Today * 1440 + 1440
      /\ Now = serial * 1440 + hour * 60 - ahead * 60
  <2>1. serial \in Nat /\ FirstDay(Y) \in Int /\ FirstDay(Y) <= serial /\ Y \in Nat
    BY TodayInYear, SMT DEF ListingInv
  <2>2. FirstDay(1970) + 365 <= FirstDay(Y)
    BY <2>1, FirstDaysGrow, SMT
  <2>3. serial >= 365
    BY <2>1, <2>2, FirstOfAll, SMT
  <2>4. Now = WallTime - ahead * 60 /\ WallTime = serial * 1440 + hour * 60
    BY <2>1, <2>3, ClientsDay, SMT
  <2> QED
    BY <2>1, <2>4, ClientsDay, SMT
<1>2. m \in 1..12 /\ d \in 1..31 /\ DaysFromCivil(Y, m, d) = serial
  BY DEF ListingInv, CalendarInv, CalendarTypeOK, IsDate, CivilDays
<1>3. Today < FirstDay(Y) <=> (serial - FirstDay(Y)) * 24 + hour < ahead
  <2> DEFINE f == FirstDay(Y)
  <2>1. /\ serial \in Nat /\ Today \in Int /\ f \in Int /\ hour \in 0..23 /\ ahead \in -12..14
        /\ Today * 24 <= serial * 24 + hour - ahead
        /\ serial * 24 + hour - ahead < Today * 24 + 24
    BY <1>1, SMT
  <2> HIDE DEF f
  <2>2. Today < f => (serial - f) * 24 + hour < ahead
    BY <2>1, SMT
  <2>3. Today >= f => (serial - f) * 24 + hour >= ahead
    BY <2>1, SMT
  <2>4. (serial - f) * 24 + hour \in Int
    BY <2>1, SMT
  <2> QED
    BY <2>1, <2>2, <2>3, <2>4, SMT DEF f
<1> HIDE DEF Y, m, d
<1>4. m = 1 => serial = FirstDay(Y) + d - 1
  <2>1. DaysFromCivil(Y, 1, d) = DaysBeforeYear(Y - 1) + (d + 305) - 719468
    BY <1>2, MonthStarts, SMT DEF DaysFromCivil, MarchYear
  <2>2. FirstDay(Y) = DaysBeforeYear(Y - 1) + (1 + 305) - 719468
    BY MonthStarts, SMT DEF FirstDay, DaysFromCivil, MarchYear
  <2>3. DaysBeforeYear(Y - 1) \in Int
    <3>1. Y - 1 \in Int
      BY <1>1
    <3> QED
      BY <3>1, ClosedForm, SMT
  <2> QED
    BY <1>2, <2>1, <2>2, <2>3, SMT
<1>5. m # 1 => serial > FirstDay(Y)
  <2>1. Y \in Int /\ Y - 1 \in Int
    BY <1>1
  <2>2. /\ DaysBeforeYear(Y) \in Int /\ DaysBeforeYear(Y - 1) \in Int
        /\ DaysBeforeYear(Y) - DaysBeforeYear(Y - 1) \in {365, 366}
    <3>1. DaysBeforeYear(Y) \in Int /\ DaysBeforeYear(Y - 1) \in Int
      BY <2>1, ClosedForm, SMT
    <3>2. DaysBeforeYear(Y) - DaysBeforeYear(Y - 1) \in {365, 366}
      BY <2>1, MarchToMarch, SMT
    <3> QED
      BY <3>1, <3>2
  <2>3. FirstDay(Y) = DaysBeforeYear(Y - 1) + 306 - 719468
    BY MonthStarts DEF FirstDay, DaysFromCivil, MarchYear
  <2>4. CASE m = 2
    BY <1>2, <2>2, <2>3, <2>4, MonthStarts DEF DaysFromCivil, MarchYear
  <2>5. CASE m > 2
    <3>1. DayOfYear(m, d) \in Int /\ DayOfYear(m, d) >= 0
      BY <1>2, <2>5 DEF DayOfYear
    <3>2. DaysFromCivil(Y, m, d) = DaysBeforeYear(Y) + DayOfYear(m, d) - 719468
      BY <1>2, <2>5 DEF DaysFromCivil, MarchYear
    <3> QED
      BY <1>2, <2>2, <2>3, <3>1, <3>2
  <2> QED
    BY <1>2, <2>4, <2>5
<1>6. CASE m = 1
  <2>1. Today < FirstDay(Y) <=> (d - 1) * 24 + hour < ahead
    BY <1>1, <1>2, <1>3, <1>4, <1>6
  <2> QED
    BY <1>6, <2>1 DEF Y, m, d
<1>7. CASE m # 1
  <2>1. ~(Today < FirstDay(Y))
    BY <1>1, <1>3, <1>5, <1>7
  <2> QED
    BY <1>7, <2>1 DEF Y, m, d
<1> QED
  BY <1>6, <1>7

\* Of a file of the last half year the year is found, but for the first hours
\* of a year that the client has not reached yet.
LEMMA InferredIsWritten ==
    ASSUME ListingInv, file # NoFile, Recent,
           NEW line, line.month = file.date.month, line.day = file.date.day, line.hour = file.hour
    PROVE  /\ InferredYear(line, Now) \in Int
           /\ At(line, InferredYear(line, Now), line.hour) = file.time <=> ~BeforeNewYear
<1> DEFINE F == file.date.year
           Y == date.year
           c == YearOf(Today)
           m == file.date.month
           d == file.date.day
           h == file.hour
           t(y) == MinutesFrom(y, m, d, h, 0)
<1>1. /\ F \in Nat /\ Y \in Nat /\ Y >= 1970 /\ F <= Y
      /\ file.time \in Int /\ Now \in Int /\ file.time <= WallTime
      /\ Now = IF WallTime < ahead * 60 THEN 0 ELSE WallTime - ahead * 60
      /\ ahead \in -12..14 /\ WallTime - file.time <= 182 * 1440
      /\ WallTime = serial * 1440 + hour * 60 /\ hour \in 0..23 /\ serial \in Nat
      /\ file.time < FirstDay(F + 1) * 1440
  BY FileDated, ClientsDay, TodayInYear DEF ListingInv, Recent
<1>2. /\ Today \in Int /\ serial - 1 <= Today
      /\ FirstDay(Y) \in Int /\ FirstDay(Y + 1) \in Int /\ FirstDay(Y) <= serial
      /\ FirstDay(Y) + 365 <= FirstDay(Y + 1)
  <2>1. FirstDay(Y) + 365 <= FirstDay(Y + 1)
    <3>1. Y \in Nat /\ Y + 1 \in Nat /\ Y < Y + 1
      BY <1>1, SMT
    <3> HIDE DEF Y
    <3> QED
      BY <3>1, FirstDaysGrow, SMT
  <2> QED
    BY <2>1, ClientsDay, TodayInYear, SMT DEF ListingInv
<1>3. \A y, next \in Int : next = y + 1 => AYearLater(t(y), t(next))
  <2>1. m \in 1..12 /\ d \in 1..31 /\ h \in 0..23
    BY FileDated, SMT
  <2> HIDE DEF m, d, h
  <2> QED
    BY <2>1, YearApart
<1>4. t(F) = file.time
  <2>1. FileWritten
    BY Zenon DEF ListingInv
  <2> QED
    BY <2>1, Zenon DEF FileWritten
<1>5. InferredYear(line, Now) = IF t(c) - Now > 1440 THEN c - 1 ELSE c
  BY SMT DEF InferredYear, At, Today
<1>6. At(line, InferredYear(line, Now), line.hour) = t(InferredYear(line, Now))
  BY SMT DEF At
<1>7. BeforeNewYear <=> Y > 1970 /\ Today < FirstDay(Y) /\ F = Y
  <2>1. CASE Y > 1970
    <3>1. Today < FirstDay(Y) <=> date.month = 1 /\ (date.day - 1) * 24 + hour < ahead
      BY <2>1, NewYearsDay
    <3> DEFINE january == date.month = 1
               late == (date.day - 1) * 24 + hour < ahead
    <3>2. BeforeNewYear <=> Y > 1970 /\ january /\ late /\ F = Y
      BY SMT DEF BeforeNewYear
    <3>3. Today < FirstDay(Y) <=> january /\ late
      BY <3>1
    <3> HIDE DEF january, late, Y, F
    <3> QED
      BY <3>2, <3>3
  <2>2. CASE ~(Y > 1970)
    <3>1. ~BeforeNewYear
      BY <2>2 DEF BeforeNewYear
    <3> QED
      BY <2>2, <3>1
  <2> QED
    BY <2>1, <2>2
<1>8. \/ c = Y /\ (Y = 1970 \/ FirstDay(Y) <= Today)
      \/ c = Y - 1 /\ Y > 1970 /\ Today < FirstDay(Y)
      \/ c = Y + 1 /\ serial = FirstDay(Y + 1) - 1
  BY ClientsYear, SMT
<1> DEFINE f == InferredYear(line, Now)
<1> HIDE DEF F, Y, c, m, d, h, t, f
<1>9. /\ Now <= WallTime + 720 /\ WallTime <= Now + 840 /\ WallTime \in Int
      /\ WallTime >= serial * 1440
  <2>1. serial * 1440 \in Nat /\ WallTime \in Nat /\ WallTime >= serial * 1440
    BY <1>1, SMT
  <2>2. CASE WallTime < ahead * 60
    BY <1>1, <2>1, <2>2, SMT
  <2>3. CASE ~(WallTime < ahead * 60)
    BY <1>1, <2>1, <2>3, SMT
  <2> QED
    BY <2>1, <2>2, <2>3
<1>10. F >= Y - 1
  <2>1. SUFFICES ASSUME F + 1 < Y
                 PROVE  FALSE
    BY <1>1, SMT
  <2>2. F + 1 \in Nat
    BY <1>1, SMT
  <2>3. FirstDay(F + 1) \in Int /\ FirstDay(F + 1) + 365 <= FirstDay(Y)
    BY <1>1, <2>1, <2>2, FirstDays, FirstDaysGrow, SMT
  <2> QED
    BY <1>1, <1>2, <1>9, <2>3, SMT
<1>11. f \in Int /\ (t(f) = file.time <=> ~(Y > 1970 /\ Today < FirstDay(Y) /\ F = Y))
  <2>1. CASE c = F
    <3>1. ~(t(c) - Now > 1440)
      BY <1>1, <1>4, <1>9, <2>1, SMT
    <3>2. f = F
      BY <1>5, <2>1, <3>1 DEF f
    <3>3. ~(Y > 1970 /\ Today < FirstDay(Y) /\ F = Y)
      BY <1>1, <1>2, <1>8, <2>1, SMT
    <3> QED
      BY <1>1, <1>4, <3>2, <3>3
  <2>2. CASE c = F + 1
    <3>1. t(F) + 365 * 1440 <= t(F + 1) /\ t(F + 1) \in Int
      BY <1>1, <1>3, SMT DEF AYearLater
    <3>2. t(c) - Now > 1440
      BY <1>1, <1>4, <1>9, <2>2, <3>1, SMT
    <3>3. f = F
      BY <1>1, <1>5, <2>2, <3>2, SMT DEF f
    <3>4. ~(Y > 1970 /\ Today < FirstDay(Y) /\ F = Y)
      BY <1>1, <1>2, <1>8, <2>2, SMT
    <3> QED
      BY <1>1, <1>4, <3>3, <3>4
  <2>3. CASE c = F - 1
    <3>1. F - 1 \in Int /\ (F - 1) + 1 = F
      BY <1>1, SMT
    <3>2. t(F - 1) \in Int /\ t(F - 1) + 365 * 1440 <= t(F)
      BY <1>3, <3>1, SMT DEF AYearLater
    <3>3. ~(t(c) - Now > 1440)
      BY <1>1, <1>4, <1>9, <2>3, <3>2, SMT
    <3>4. f = F - 1
      BY <1>5, <2>3, <3>3 DEF f
    <3>5. t(f) # file.time
      BY <1>1, <1>4, <3>2, <3>4, SMT
    <3>6. Y > 1970 /\ Today < FirstDay(Y) /\ F = Y
      <4>1. c # Y /\ c # Y + 1
        BY <1>1, <2>3, SMT
      <4>2. c = Y - 1 => F = Y
        BY <1>1, <2>3, SMT
      <4> QED
        BY <1>8, <4>1, <4>2, SMT
    <3> QED
      BY <3>1, <3>4, <3>5, <3>6
  <2>4. CASE c = F + 2
    <3>1. F = Y - 1 /\ serial = FirstDay(Y + 1) - 1
      BY <1>1, <1>8, <1>10, <2>4, SMT
    <3>2. F + 1 = Y
      BY <1>1, <3>1, SMT
    <3>3. file.time < FirstDay(Y) * 1440
      BY <1>1, <3>2
    <3>4. file.time + 364 * 1440 < serial * 1440
      BY <1>1, <1>2, <3>1, <3>3, SMT
    <3>5. WallTime <= file.time + 182 * 1440
      BY <1>1, <1>9, SMT
    <3> QED
      BY <1>1, <1>9, <3>4, <3>5, SMT
  <2> QED
    BY <1>1, <1>8, <1>10, <2>1, <2>2, <2>3, <2>4, SMT
<1> QED
  BY <1>6, <1>7, <1>11 DEF f

-----------------------------------------------------------------------------
(* Largest and smallest positions.                                         *)

LEMMA MinExists ==
    ASSUME NEW S, S \subseteq Nat, S # {}
    PROVE  Min(S) \in S /\ \A x \in S : Min(S) <= x
<1> DEFINE less == {p \in Nat \X Nat : p[1] < p[2]}
<1>1. IsWellFoundedOn(less, Nat)
  BY NatLessThanWellFounded DEF OpToRel
<1>2. \E x \in S : \A y \in S : ~(<<y, x>> \in less)
  <2> HIDE DEF less
  <2> QED
    BY <1>1, WFMin, Zenon
<1>3. PICK x \in S : \A y \in S : ~(<<y, x>> \in less)
  BY <1>2
<1>4. ASSUME NEW y \in S
      PROVE  x <= y
  <2>1. x \in Nat /\ y \in Nat
    OBVIOUS
  <2>2. ~(y < x)
    BY <1>3, <2>1
  <2> QED
    BY <2>1, <2>2
<1> QED
  BY <1>4, Zenon DEF Min

LEMMA MaxExists ==
    ASSUME NEW n \in Nat, NEW S, S \subseteq 0..n, S # {}
    PROVE  Max(S) \in S /\ \A x \in S : x <= Max(S)
<1>1. \A x \in S : x \in 0..n
  OBVIOUS
<1> DEFINE T == {n - x : x \in S}
<1>2. T \subseteq Nat /\ T # {}
  <2>1. \A x \in S : n - x \in Nat
    BY <1>1
  <2>2. \E x \in S : TRUE
    OBVIOUS
  <2> QED
    BY <2>1, <2>2
<1>3. Min(T) \in T /\ \A y \in T : Min(T) <= y
  <2> HIDE DEF T
  <2> QED
    BY <1>2, MinExists, Zenon
<1>4. PICK x \in S : Min(T) = n - x
  BY <1>3
<1>5. ASSUME NEW y \in S
      PROVE  x >= y
  <2>1. n - x <= n - y
    BY <1>3, <1>4
  <2> QED
    BY <1>1, <2>1
<1>6. Max(S) \in S /\ \A y \in S : Max(S) >= y
  BY <1>5, Zenon DEF Max
<1> DEFINE big == Max(S)
<1> HIDE DEF big
<1>7. big \in S /\ \A y \in S : big >= y
  BY <1>6 DEF big
<1>8. \A y \in S : y <= big
  BY <1>1, <1>7
<1> QED
  BY <1>7, <1>8 DEF big

-----------------------------------------------------------------------------
(* Where the facts of a line end.                                          *)

Semicolons(s) == {i \in 1..Len(s) : s[i] = "semicolon"}
IsFact(s, i) == \E j \in 1..(i - 1) : s[j] = "equals" /\ \A k \in j..(i - 1) : s[k] # "semicolon"
\* The semicolons that all the ones up to them make facts.
Ends(s) == {i \in Semicolons(s) : \A j \in Semicolons(s) : j <= i => IsFact(s, j)}

LEMMA FactEndIsEnd ==
    ASSUME NEW s \in Seq(Token)
    PROVE  /\ FactEnd(s) \in {0} \cup Ends(s)
           /\ \A i \in {0} \cup Ends(s) : i <= FactEnd(s)
           /\ FactEnd(s) \in 0..Len(s) /\ Len(s) \in Nat
<1>1. FactEnd(s) = Max({0} \cup Ends(s))
  BY DEF FactEnd, Ends, Semicolons, IsFact
<1>2. Len(s) \in Nat /\ {0} \cup Ends(s) \subseteq 0..Len(s)
  BY DEF Ends, Semicolons
<1> HIDE DEF Ends
<1> DEFINE E == {0} \cup Ends(s)
<1>3. Max(E) \in E /\ \A x \in E : x <= Max(E)
  <2>1. E # {} /\ E \subseteq 0..Len(s)
    BY <1>2
  <2> HIDE DEF E
  <2> QED
    BY <1>2, <2>1, MaxExists
<1> QED
  BY <1>1, <1>2, <1>3

\* The first semicolon.
LEMMA FirstSemicolon ==
    ASSUME NEW s \in Seq(Token), Semicolons(s) # {}
    PROVE  \E first \in Semicolons(s) : \A k \in Semicolons(s) : first <= k
<1>1. Semicolons(s) \subseteq Nat
  BY DEF Semicolons
<1> QED
  BY <1>1, MinExists

LEMMA NoFactsAtAll ==
    ASSUME NEW s \in Seq(Token)
    PROVE  FactEnd(s) = 0 <=> ~LooksLikeFact(s)
<1>1. ASSUME LooksLikeFact(s)
      PROVE  FactEnd(s) # 0
  <2>1. PICK i, j \in 1..Len(s) : /\ j < i /\ s[j] = "equals" /\ s[i] = "semicolon"
                                 /\ \A k \in 1..(i - 1) : s[k] # "semicolon"
    BY <1>1 DEF LooksLikeFact
  <2>2. Len(s) \in Nat /\ i \in Semicolons(s)
    BY <2>1 DEF Semicolons
  <2>3. IsFact(s, i)
    <3>1. j \in 1..(i - 1) /\ \A k \in j..(i - 1) : k \in 1..(i - 1)
      BY <2>1
    <3> QED
      BY <2>1, <3>1 DEF IsFact
  <2>4. \A k \in Semicolons(s) : k <= i => k = i
    BY <2>1, <2>2 DEF Semicolons
  <2>5. i \in Ends(s)
    BY <2>2, <2>3, <2>4 DEF Ends
  <2> QED
    BY <2>1, <2>5, FactEndIsEnd
<1>2. ASSUME FactEnd(s) # 0
      PROVE  LooksLikeFact(s)
  <2>1. FactEnd(s) \in Ends(s)
    BY <1>2, FactEndIsEnd
  <2>2. PICK m \in Semicolons(s) : \A k \in Semicolons(s) : m <= k
    BY <2>1, FirstSemicolon DEF Ends
  <2>3. m \in 1..Len(s) /\ s[m] = "semicolon" /\ Len(s) \in Nat
    BY <2>2 DEF Semicolons
  <2>4. IsFact(s, m)
    BY <2>1, <2>2 DEF Ends
  <2>5. PICK j \in 1..(m - 1) : s[j] = "equals" /\ \A k \in j..(m - 1) : s[k] # "semicolon"
    BY <2>4 DEF IsFact
  <2>6. \A k \in 1..(m - 1) : s[k] # "semicolon"
    BY <2>2, <2>3 DEF Semicolons
  <2>7. j \in 1..Len(s) /\ j < m
    BY <2>3, <2>5
  <2> QED
    BY <2>3, <2>5, <2>6, <2>7 DEF LooksLikeFact
<1> QED
  BY <1>1, <1>2

\* A semicolon that does not come first is one of a fact exactly if what
\* stands between it and the last one before is.
LEMMA NextFact ==
    ASSUME NEW s \in Seq(Token), NEW i \in Semicolons(s), NEW n \in Semicolons(s), i < n,
           \A k \in Semicolons(s) : i < k => n <= k
    PROVE  IsFact(s, n) <=> LooksLikeFact(SubSeq(s, i + 1, Len(s)))
<1> DEFINE r == SubSeq(s, i + 1, Len(s))
<1>1. /\ Len(s) \in Nat /\ i \in 1..Len(s) /\ n \in 1..Len(s) /\ s[i] = "semicolon" /\ s[n] = "semicolon"
  BY DEF Semicolons
<1>2. /\ Len(r) = Len(s) - i
      /\ \A k \in 1..(Len(s) - i) : r[k] = s[k + i]
  BY <1>1
<1> HIDE DEF r
<1>3. \A k \in (i + 1)..(n - 1) : s[k] # "semicolon"
  BY <1>1 DEF Semicolons
<1>4. ASSUME IsFact(s, n)
      PROVE  LooksLikeFact(r)
  <2>1. PICK j \in 1..(n - 1) : s[j] = "equals" /\ \A k \in j..(n - 1) : s[k] # "semicolon"
    BY <1>4 DEF IsFact
  <2>2. i < j
    BY <1>1, <2>1
  <2>3. /\ n - i \in 1..Len(r) /\ j - i \in 1..Len(r) /\ j - i < n - i
        /\ r[j - i] = "equals" /\ r[n - i] = "semicolon"
    <3>1. n - i \in 1..(Len(s) - i) /\ j - i \in 1..(Len(s) - i) /\ j - i < n - i
          /\ (n - i) + i = n /\ (j - i) + i = j
      BY <1>1, <2>1, <2>2
    <3> QED
      BY <1>1, <1>2, <2>1, <3>1
  <2>4. \A k \in 1..((n - i) - 1) : r[k] # "semicolon"
    <3> SUFFICES ASSUME NEW k \in 1..((n - i) - 1)
                 PROVE  r[k] # "semicolon"
      OBVIOUS
    <3>1. k \in 1..(Len(s) - i) /\ k + i \in (i + 1)..(n - 1)
      BY <1>1
    <3> QED
      BY <1>2, <1>3, <3>1
  <2> QED
    BY <2>3, <2>4 DEF LooksLikeFact
<1>5. ASSUME LooksLikeFact(r)
      PROVE  IsFact(s, n)
  <2>1. PICK a, b \in 1..Len(r) : /\ b < a /\ r[b] = "equals" /\ r[a] = "semicolon"
                                 /\ \A k \in 1..(a - 1) : r[k] # "semicolon"
    BY <1>5 DEF LooksLikeFact
  <2>2. /\ a \in 1..(Len(s) - i) /\ b \in 1..(Len(s) - i)
        /\ s[a + i] = "semicolon" /\ s[b + i] = "equals"
    BY <1>2, <2>1
  <2>3. a + i \in Semicolons(s) /\ i < a + i
    BY <1>1, <2>2 DEF Semicolons
  <2>4. n <= a + i
    BY <2>3
  <2>5. n = a + i
    <3>1. SUFFICES ASSUME n < a + i
                   PROVE  FALSE
      BY <1>1, <2>2, <2>4
    <3>2. n - i \in 1..(a - 1) /\ n - i \in 1..(Len(s) - i) /\ (n - i) + i = n
      BY <1>1, <2>2, <3>1
    <3>3. r[n - i] = "semicolon"
      BY <1>1, <1>2, <3>2
    <3> QED
      BY <2>1, <3>2, <3>3
  <2>6. b + i \in 1..(n - 1) /\ \A k \in (b + i)..(n - 1) : k \in (i + 1)..(n - 1)
    BY <1>1, <2>1, <2>2, <2>5
  <2> QED
    BY <1>3, <2>2, <2>6 DEF IsFact
<1> QED
  BY <1>4, <1>5 DEF r

\* A name is nothing but facts exactly if the facts end where it does.
LEMMA FactsToTheEnd ==
    ASSUME NEW s \in Seq(Token), s # <<>>
    PROVE  FactEnd(s) = Len(s) <=> LooksLikeFact(s) /\ OnlyFacts(s)
<1>1. Len(s) \in Nat /\ Len(s) # 0 /\ FactEnd(s) \in 0..Len(s) /\ Last(s) = s[Len(s)]
  BY FactEndIsEnd DEF Last
<1>2. ASSUME LooksLikeFact(s), OnlyFacts(s)
      PROVE  FactEnd(s) = Len(s)
  <2>1. ASSUME NEW n \in Semicolons(s)
        PROVE  IsFact(s, n)
    <3> DEFINE before == {k \in Semicolons(s) : k < n}
    <3>1. n \in 1..Len(s) /\ before \subseteq 0..Len(s)
      BY <1>1 DEF Semicolons
    <3>2. CASE before = {}
      <4>1. PICK i, j \in 1..Len(s) : /\ j < i /\ s[j] = "equals" /\ s[i] = "semicolon"
                                     /\ \A k \in 1..(i - 1) : s[k] # "semicolon"
        BY <1>2 DEF LooksLikeFact
      <4>2. i = n
        <5>1. ~(i < n)
          BY <3>2, <4>1 DEF Semicolons
        <5>2. s[n] = "semicolon" /\ n \in 1..Len(s)
          BY DEF Semicolons
        <5>3. ~(n < i)
          BY <1>1, <4>1, <5>2
        <5> QED
          BY <1>1, <3>1, <4>1, <5>1, <5>3
      <4>3. j \in 1..(n - 1) /\ \A k \in j..(n - 1) : k \in 1..(i - 1)
        BY <1>1, <4>1, <4>2
      <4> QED
        BY <4>1, <4>3 DEF IsFact
    <3>3. CASE before # {}
      <4> DEFINE i == Max(before)
      <4>1. i \in before /\ \A k \in before : k <= i
        <5> HIDE DEF before
        <5> QED
          BY <1>1, <3>1, <3>3, MaxExists
      <4>2. i \in Semicolons(s) /\ i < n
        BY <4>1
      <4>3. \A k \in Semicolons(s) : i < k => n <= k
        <5>1. \A k \in Semicolons(s) : k < n => k <= i
          BY <4>1
        <5>2. \A k \in Semicolons(s) : k \in Nat
          BY DEF Semicolons
        <5> HIDE DEF i
        <5> QED
          BY <5>1, <5>2, <4>2
      <4> HIDE DEF i, before
      <4>4. i \in 1..(Len(s) - 1) /\ s[i] = "semicolon"
        BY <1>1, <3>1, <4>2 DEF Semicolons
      <4>5. LooksLikeFact(SubSeq(s, i + 1, Len(s)))
        BY <1>2, <4>4 DEF OnlyFacts
      <4> QED
        BY <4>2, <4>3, <4>5, NextFact
    <3> QED
      BY <3>2, <3>3
  <2>2. Len(s) \in Semicolons(s)
    <3>1. Len(s) \in 1..Len(s)
      BY <1>1
    <3>2. s[Len(s)] = "semicolon"
      BY <1>2 DEF OnlyFacts, Last
    <3> QED
      BY <3>1, <3>2 DEF Semicolons
  <2>3. Len(s) \in Ends(s)
    BY <2>1, <2>2 DEF Ends
  <2> QED
    BY <1>1, <2>3, FactEndIsEnd
<1>3. ASSUME FactEnd(s) = Len(s)
      PROVE  LooksLikeFact(s) /\ OnlyFacts(s)
  <2>1. LooksLikeFact(s)
    BY <1>1, <1>3, NoFactsAtAll
  <2>2. Len(s) \in Ends(s)
    BY <1>1, <1>3, FactEndIsEnd
  <2>3. Len(s) \in Semicolons(s) /\ \A j \in Semicolons(s) : IsFact(s, j)
    BY <1>1, <2>2 DEF Ends, Semicolons
  <2>4. ASSUME NEW i \in 1..(Len(s) - 1), s[i] = "semicolon"
        PROVE  LooksLikeFact(SubSeq(s, i + 1, Len(s)))
    <3> DEFINE after == {k \in Semicolons(s) : i < k}
               n == Min(after)
    <3>1. after \subseteq Nat /\ Len(s) \in after /\ i \in Semicolons(s)
      BY <1>1, <2>3, <2>4 DEF Semicolons
    <3>2. n \in after /\ \A k \in after : n <= k
      <4> HIDE DEF after
      <4> QED
        BY <3>1, MinExists
    <3>3. n \in Semicolons(s) /\ i < n /\ \A k \in Semicolons(s) : i < k => n <= k
      BY <3>2
    <3> HIDE DEF n, after
    <3> QED
      BY <2>3, <3>1, <3>3, NextFact
  <2> QED
    BY <1>1, <2>1, <2>3, <2>4 DEF OnlyFacts, Semicolons
<1> QED
  BY <1>2, <1>3

Target == <<"arrow", "word">>

LEMMA WithTarget ==
    ASSUME NEW s \in Seq(Token)
    PROVE  /\ s \o Target \in Seq(Token) /\ Len(s \o Target) = Len(s) + 2 /\ Len(s) \in Nat
           /\ \A i \in 1..Len(s) : (s \o Target)[i] = s[i]
           /\ (s \o Target)[Len(s) + 1] = "arrow" /\ (s \o Target)[Len(s) + 2] = "word"
BY DEF Target, Token

\* The target of a link holds no fact.
LEMMA TargetIsNoFact ==
    ASSUME NEW s \in Seq(Token)
    PROVE  FactEnd(s \o Target) = FactEnd(s)
<1> DEFINE w == s \o Target
<1>1. /\ Len(w) = Len(s) + 2 /\ Len(s) \in Nat /\ \A i \in 1..Len(s) : w[i] = s[i]
      /\ w[Len(s) + 1] = "arrow" /\ w[Len(s) + 2] = "word"
  BY WithTarget
<1> HIDE DEF w
<1>2. Semicolons(w) = Semicolons(s)
  <2>1. \A i \in 1..Len(w) : i \in 1..Len(s) \/ i = Len(s) + 1 \/ i = Len(s) + 2
    BY <1>1
  <2>2. \A i \in 1..Len(s) : i \in 1..Len(w)
    BY <1>1
  <2> QED
    BY <1>1, <2>1, <2>2 DEF Semicolons
<1>3. ASSUME NEW i \in Semicolons(s)
      PROVE  IsFact(w, i) <=> IsFact(s, i)
  <2>1. i \in 1..Len(s)
    BY DEF Semicolons
  <2>2. \A j \in 1..(i - 1) : j \in 1..Len(s) /\ \A k \in j..(i - 1) : k \in 1..Len(s)
    BY <1>1, <2>1
  <2> QED
    BY <1>1, <2>2 DEF IsFact
<1>4. Ends(w) = Ends(s)
  BY <1>2, <1>3 DEF Ends
<1>5. FactEnd(w) = Max({0} \cup Ends(w)) /\ FactEnd(s) = Max({0} \cup Ends(s))
  BY DEF FactEnd, Ends, Semicolons, IsFact
<1> QED
  BY <1>4, <1>5 DEF w

-----------------------------------------------------------------------------
(* Blanks at the ends.                                                     *)

LEMMA Trimmed ==
    ASSUME NEW s \in Seq(Token)
    PROVE  /\ Trim(s) \in Seq(Token) /\ Len(Trim(s)) \in 0..Len(s) /\ Len(s) \in Nat
           /\ s # <<>> /\ (Head(s) = "gap" \/ Last(s) = "gap") => Len(Trim(s)) < Len(s)
           /\ s = <<>> \/ (Head(s) # "gap" /\ Last(s) # "gap") => Trim(s) = s
<1>1. Len(s) \in Nat /\ (s = <<>> <=> Len(s) = 0)
  OBVIOUS
<1> DEFINE a == IF s # <<>> /\ Head(s) = "gap" THEN 2 ELSE 1
           b == IF s # <<>> /\ Last(s) = "gap" THEN Len(s) - 1 ELSE Len(s)
<1>2. Trim(s) = SubSeq(s, a, b)
  BY DEF Trim
<1>3. a \in 1..2 /\ b \in 0..Len(s)
  BY <1>1
<1>4. CASE s = <<>> \/ (Head(s) # "gap" /\ Last(s) # "gap")
  <2>1. a = 1 /\ b = Len(s)
    BY <1>4
  <2>2. SubSeq(s, 1, Len(s)) = s
    BY <1>1
  <2> HIDE DEF a, b
  <2>3. Trim(s) = s
    BY <1>2, <2>1, <2>2
  <2> QED
    BY <1>1, <1>4, <2>3
<1>5. CASE s # <<>> /\ (Head(s) = "gap" \/ Last(s) = "gap")
  <2>1. Len(s) >= 1 /\ (a = 2 \/ b = Len(s) - 1)
    BY <1>1, <1>5
  <2> HIDE DEF a, b
  <2>2. SubSeq(s, a, b) \in Seq(Token)
    BY <1>1, <1>3
  <2>3. Len(SubSeq(s, a, b)) = IF a <= b THEN b - a + 1 ELSE 0
    BY <1>1, <1>3
  <2> QED
    BY <1>1, <1>2, <1>3, <1>5, <2>1, <2>2, <2>3
<1> QED
  BY <1>4, <1>5

-----------------------------------------------------------------------------
(* What whitespace a listing keeps.                                        *)

Left(s) == {i \in 1..Len(s) : s[i] # "gap"}
UpTo(s, i) == {j \in Left(s) : j <= i}
Rank(s, i) == Cardinality(UpTo(s, i))
Nth(s, n) == CHOOSE i \in Left(s) : Rank(s, i) = n

LEMMA JoinedIs ==
    ASSUME NEW s
    PROVE  Joined(s) = [n \in 1..Cardinality(Left(s)) |-> s[Nth(s, n)]]
BY DEF Joined, Left, UpTo, Rank, Nth

LEMMA FirstNumbers ==
    ASSUME NEW n \in Nat
    PROVE  IsFiniteSet(1..n) /\ Cardinality(1..n) = n
<1>1. IsFiniteSet(1..n) /\ Cardinality(1..n) = IF 1 > n THEN 0 ELSE n - 1 + 1
  BY FS_Interval
<1> QED
  BY <1>1

LEMMA LeftFinite ==
    ASSUME NEW s \in Seq(Token)
    PROVE  /\ Len(s) \in Nat /\ Left(s) \subseteq 1..Len(s) /\ IsFiniteSet(Left(s))
           /\ Cardinality(Left(s)) \in 0..Len(s)
           /\ Contains(s, "gap") => Cardinality(Left(s)) < Len(s)
<1>1. Len(s) \in Nat /\ Left(s) \subseteq 1..Len(s)
  BY DEF Left
<1>2. IsFiniteSet(1..Len(s)) /\ Cardinality(1..Len(s)) = Len(s)
  BY <1>1, FirstNumbers
<1>3. /\ IsFiniteSet(Left(s)) /\ Cardinality(Left(s)) <= Len(s)
      /\ Cardinality(Left(s)) = Len(s) => Left(s) = 1..Len(s)
  BY <1>1, <1>2, FS_Subset
<1>4. Cardinality(Left(s)) \in Nat
  BY <1>3, FS_CardinalityType
<1>5. Contains(s, "gap") => Left(s) # 1..Len(s)
  BY DEF Contains, Left
<1> QED
  BY <1>1, <1>3, <1>4, <1>5

\* Of two that are left the later one has the higher rank.
LEMMA RanksGrow ==
    ASSUME NEW s \in Seq(Token), NEW i \in Left(s), NEW j \in Left(s), i < j
    PROVE  Rank(s, i) \in Nat /\ Rank(s, j) \in Nat /\ Rank(s, i) < Rank(s, j)
<1>1. IsFiniteSet(UpTo(s, j)) /\ IsFiniteSet(UpTo(s, i))
  BY LeftFinite, FS_Subset DEF UpTo
<1>2. i \in Nat /\ j \in Nat /\ \A k \in Left(s) : k \in Nat
  BY LeftFinite
<1>3. UpTo(s, i) \in SUBSET (UpTo(s, j)) /\ j \in UpTo(s, j) /\ j \notin UpTo(s, i)
  <2>1. \A k \in Left(s) : k <= i => k <= j
    BY <1>2
  <2>2. ~(j <= i) /\ j <= j
    BY <1>2
  <2> QED
    BY <2>1, <2>2 DEF UpTo
<1>4. /\ Cardinality(UpTo(s, i)) <= Cardinality(UpTo(s, j))
      /\ Cardinality(UpTo(s, j)) # Cardinality(UpTo(s, i))
  BY <1>1, <1>3, FS_Subset
<1>5. Cardinality(UpTo(s, i)) \in Nat /\ Cardinality(UpTo(s, j)) \in Nat
  BY <1>1, FS_CardinalityType
<1> QED
  BY <1>4, <1>5 DEF Rank

LEMMA RanksDiffer ==
    ASSUME NEW s \in Seq(Token), NEW i \in Left(s), NEW j \in Left(s), Rank(s, i) = Rank(s, j)
    PROVE  i = j
<1>1. i \in Nat /\ j \in Nat
  BY LeftFinite
<1>2. ~(i < j)
  BY RanksGrow
<1>3. ~(j < i)
  BY RanksGrow
<1> QED
  BY <1>1, <1>2, <1>3

LEMMA NthOfRank ==
    ASSUME NEW s \in Seq(Token), NEW i \in Left(s)
    PROVE  Nth(s, Rank(s, i)) = i
<1> DEFINE n == Rank(s, i)
           k == Nth(s, n)
<1>1. k \in Left(s) /\ Rank(s, k) = n
  BY DEF Nth
<1> QED
  BY <1>1, RanksDiffer

\* Every rank is taken.
LEMMA RanksTaken ==
    ASSUME NEW s \in Seq(Token), NEW n \in 1..Cardinality(Left(s))
    PROVE  Nth(s, n) \in Left(s) /\ Rank(s, Nth(s, n)) = n
<1> DEFINE c == Cardinality(Left(s))
           f == [i \in Left(s) |-> Rank(s, i)]
<1>1. IsFiniteSet(Left(s)) /\ c \in Nat /\ \A i \in Left(s) : i \in Nat
  BY LeftFinite
<1>2. \A i \in Left(s) : Rank(s, i) \in 1..c
  <2> SUFFICES ASSUME NEW i \in Left(s)
               PROVE  Rank(s, i) \in 1..c
    OBVIOUS
  <2>1. UpTo(s, i) \in SUBSET Left(s) /\ i \in UpTo(s, i)
    BY <1>1 DEF UpTo
  <2>2. IsFiniteSet(UpTo(s, i)) /\ Cardinality(UpTo(s, i)) <= c
    BY <1>1, <2>1, FS_Subset
  <2>3. Cardinality(UpTo(s, i)) \in Nat /\ Cardinality(UpTo(s, i)) # 0
    BY <2>1, <2>2, FS_CardinalityType, FS_EmptySet
  <2> QED
    BY <1>1, <2>2, <2>3 DEF Rank
<1>3. f \in Injection(Left(s), 1..c)
  <2>1. f \in [Left(s) -> 1..c]
    BY <1>2
  <2>2. \A i, j \in Left(s) : f[i] = f[j] => i = j
    BY RanksDiffer
  <2> HIDE DEF f
  <2> QED
    BY <2>1, <2>2 DEF Injection, IsInjective
<1>4. IsFiniteSet(1..c) /\ Cardinality(1..c) = c
  BY <1>1, FirstNumbers
<1>5. f \in Surjection(Left(s), 1..c)
  <2> HIDE DEF f
  <2> QED
    BY <1>3, <1>4, FS_Injection
<1>6. \E i \in Left(s) : f[i] = n
  <2> HIDE DEF f
  <2> QED
    BY <1>5 DEF Surjection
<1>7. \E i \in Left(s) : Rank(s, i) = n
  BY <1>6
<1> QED
  BY <1>7 DEF Nth

LEMMA JoinedTyped ==
    ASSUME NEW s \in Seq(Token)
    PROVE  /\ Joined(s) \in Seq(Token) /\ Len(Joined(s)) = Cardinality(Left(s))
           /\ Len(s) \in Nat /\ Len(Joined(s)) \in 0..Len(s)
           /\ Contains(s, "gap") => Len(Joined(s)) < Len(s)
           /\ ~Contains(Joined(s), "gap")
<1> DEFINE c == Cardinality(Left(s))
<1>1. /\ Len(s) \in Nat /\ c \in 0..Len(s) /\ (Contains(s, "gap") => c < Len(s))
      /\ Left(s) \subseteq 1..Len(s)
  BY LeftFinite
<1>2. \A n \in 1..c : s[Nth(s, n)] \in Token /\ s[Nth(s, n)] # "gap"
  <2> SUFFICES ASSUME NEW n \in 1..c
               PROVE  s[Nth(s, n)] \in Token /\ s[Nth(s, n)] # "gap"
    OBVIOUS
  <2>1. Nth(s, n) \in Left(s)
    BY RanksTaken
  <2> QED
    BY <1>1, <2>1 DEF Left
<1>3. Joined(s) = [n \in 1..c |-> s[Nth(s, n)]]
  BY JoinedIs
<1> HIDE DEF c
<1>4. Joined(s) \in Seq(Token) /\ Len(Joined(s)) = c
  BY <1>1, <1>2, <1>3
<1>5. \A n \in 1..c : Joined(s)[n] # "gap"
  BY <1>2, <1>3
<1> QED
  BY <1>1, <1>4, <1>5 DEF Contains, c

\* Nothing is lost of what has no whitespace but single blanks.
LEMMA JoinedWhole ==
    ASSUME NEW s \in Seq(Token), ~Contains(s, "gap")
    PROVE  Joined(s) = s
<1>1. Len(s) \in Nat /\ Left(s) = 1..Len(s)
  BY DEF Left, Contains
<1>2. \A i \in 1..Len(s) : Rank(s, i) = i
  <2> SUFFICES ASSUME NEW i \in 1..Len(s)
               PROVE  Rank(s, i) = i
    OBVIOUS
  <2>1. UpTo(s, i) = 1..i
    BY <1>1 DEF UpTo
  <2> QED
    BY <1>1, <2>1, FirstNumbers DEF Rank
<1>3. \A i \in 1..Len(s) : Nth(s, i) = i
  <2> SUFFICES ASSUME NEW i \in 1..Len(s)
               PROVE  Nth(s, i) = i
    OBVIOUS
  <2> QED
    BY <1>1, <1>2, NthOfRank
<1>4. Cardinality(Left(s)) = Len(s)
  BY <1>1, FirstNumbers
<1>5. Joined(s) = [n \in 1..Len(s) |-> s[n]]
  BY <1>3, <1>4, JoinedIs
<1> QED
  BY <1>5

\* The blanks around the arrow of a link are no gaps.
LEMMA JoinedTarget ==
    ASSUME NEW s \in Seq(Token)
    PROVE  LET J == Joined(s \o Target)
           IN  /\ J \in Seq(Token) /\ Len(J) \in 2..(Len(s) + 2) /\ Len(s) \in Nat
               /\ J[Len(J) - 1] = "arrow"
               /\ Contains(s, "gap") => Len(J) < Len(s) + 2
<1> DEFINE w == s \o Target
           L == Len(s) + 2
           c == Cardinality(Left(w))
<1>1. /\ w \in Seq(Token) /\ Len(w) = L /\ Len(s) \in Nat /\ \A i \in 1..Len(s) : w[i] = s[i]
      /\ w[L - 1] = "arrow" /\ w[L] = "word"
  <2>1. L - 1 = Len(s) + 1 /\ L = Len(s) + 2
    BY WithTarget
  <2> HIDE DEF L
  <2> QED
    BY <2>1, WithTarget
<1> HIDE DEF w
<1>2. L \in Left(w) /\ L - 1 \in Left(w) /\ L \in Nat
  <2>1. L \in 1..L /\ L - 1 \in 1..L
    BY <1>1
  <2> HIDE DEF L
  <2> QED
    BY <1>1, <2>1 DEF Left
<1>3. UpTo(w, L) = Left(w) /\ UpTo(w, L - 1) = Left(w) \ {L}
  <2>1. \A i \in Left(w) : i \in 1..L
    BY <1>1 DEF Left
  <2> HIDE DEF L
  <2>2. \A i \in Left(w) : i <= L /\ (i <= L - 1 <=> i # L)
    BY <1>2, <2>1
  <2>3. UpTo(w, L) = Left(w)
    BY <2>2 DEF UpTo
  <2>4. UpTo(w, L - 1) = Left(w) \ {L}
    BY <2>2 DEF UpTo
  <2> QED
    BY <2>3, <2>4
<1>4. Rank(w, L) = c /\ Rank(w, L - 1) = c - 1
  <2>1. IsFiniteSet(Left(w))
    BY <1>1, LeftFinite
  <2> HIDE DEF L
  <2> QED
    BY <1>2, <1>3, <2>1, FS_RemoveElement DEF Rank
<1>5. Rank(w, L - 1) \in Nat /\ Rank(w, L - 1) # 0
  <2>1. IsFiniteSet(UpTo(w, L - 1))
    BY <1>1, LeftFinite, FS_Subset DEF UpTo
  <2>2. L - 1 \in UpTo(w, L - 1)
    BY <1>2 DEF UpTo
  <2> QED
    BY <2>1, <2>2, FS_CardinalityType, FS_EmptySet DEF Rank
<1>6. Nth(w, c - 1) = L - 1
  BY <1>1, <1>2, <1>4, NthOfRank
<1>7. /\ Joined(w) \in Seq(Token) /\ Len(Joined(w)) = c /\ c \in 0..L
      /\ Contains(w, "gap") => c < L
  <2> HIDE DEF L
  <2> QED
    BY <1>1, JoinedTyped
<1>8. c - 1 \in 1..c /\ c \in 2..L
  BY <1>1, <1>4, <1>5, <1>7
<1>9. Joined(w)[c - 1] = "arrow"
  BY <1>1, <1>6, <1>8, JoinedIs
<1>10. Contains(s, "gap") => Contains(w, "gap")
  BY <1>1 DEF Contains
<1> QED
  BY <1>1, <1>7, <1>8, <1>9, <1>10 DEF w

-----------------------------------------------------------------------------
(* What stands in front of an arrow.                                       *)

Arrows(s) == {i \in 2..(Len(s) - 1) : s[i] = "arrow"}

LEMMA InFrontOfArrow ==
    ASSUME NEW s \in Seq(Token)
    PROVE  /\ BeforeArrow(s) \in Seq(Token) /\ Len(s) \in Nat
           /\ Arrows(s) = {} => BeforeArrow(s) = s
           /\ \A i \in Arrows(s) : Len(BeforeArrow(s)) < i /\ Len(BeforeArrow(s)) + 1 \in Arrows(s)
           /\ Arrows(s) # {} => BeforeArrow(s) = SubSeq(s, 1, Len(BeforeArrow(s)))
<1>1. BeforeArrow(s) = IF Arrows(s) = {} THEN s ELSE SubSeq(s, 1, Min(Arrows(s)) - 1)
  BY DEF BeforeArrow, Arrows
<1>2. Len(s) \in Nat /\ Arrows(s) \subseteq Nat /\ Arrows(s) \subseteq 2..(Len(s) - 1)
  BY DEF Arrows
<1>3. CASE Arrows(s) = {}
  BY <1>1, <1>2, <1>3
<1>4. CASE Arrows(s) # {}
  <2> DEFINE m == Min(Arrows(s))
  <2>1. m \in Arrows(s) /\ \A i \in Arrows(s) : m <= i
    BY <1>2, <1>4, MinExists
  <2> HIDE DEF m
  <2>2. m \in 2..(Len(s) - 1)
    BY <1>2, <2>1
  <2>3. BeforeArrow(s) = SubSeq(s, 1, m - 1)
    BY <1>1, <1>4 DEF m
  <2>4. SubSeq(s, 1, m - 1) \in Seq(Token) /\ Len(SubSeq(s, 1, m - 1)) = m - 1
    <3>1. m - 1 \in 1..Len(s)
      BY <1>2, <2>2
    <3> QED
      BY <1>2, <3>1
  <2>5. \A i \in Arrows(s) : m - 1 < i /\ (m - 1) + 1 \in Arrows(s)
    <3>1. (m - 1) + 1 = m
      BY <2>2
    <3>2. \A i \in Arrows(s) : m - 1 < i
      BY <1>2, <2>1, <2>2
    <3> QED
      BY <2>1, <3>1, <3>2
  <2> QED
    BY <1>2, <1>4, <2>3, <2>4, <2>5
<1> QED
  BY <1>3, <1>4

-----------------------------------------------------------------------------
(* What is left of a name behind the facts.                                *)

LEMMA Behind ==
    ASSUME NEW s \in Seq(Token), NEW e \in 0..Len(s)
    PROVE  LET r == SubSeq(s, e + 1, Len(s))
           IN  /\ r \in Seq(Token) /\ Len(r) = Len(s) - e
               /\ \A k \in 1..(Len(s) - e) : r[k] = s[k + e]
OBVIOUS

Rest(s) == Trim(SubSeq(s, FactEnd(s) + 1, Len(s)))

LEMMA RestIs ==
    ASSUME NEW s \in Seq(Token)
    PROVE  /\ Rest(s) \in Seq(Token) /\ Len(Rest(s)) \in Nat /\ Len(s) \in Nat /\ FactEnd(s) \in 0..Len(s)
           /\ Len(Rest(s)) <= Len(s) - FactEnd(s)
           /\ FactEnd(s) = 0 => Rest(s) = Trim(s)
           /\ ~Contains(s, "gap") => Len(Rest(s)) = Len(s) - FactEnd(s)
<1> DEFINE e == FactEnd(s)
           r == SubSeq(s, e + 1, Len(s))
<1>1. e \in 0..Len(s) /\ Len(s) \in Nat
  BY FactEndIsEnd
<1> HIDE DEF e
<1>2. r \in Seq(Token) /\ Len(r) = Len(s) - e /\ \A k \in 1..(Len(s) - e) : r[k] = s[k + e]
  BY <1>1
<1>3. e = 0 => r = s
  BY <1>1
<1>4. ~Contains(s, "gap") => r = <<>> \/ (Head(r) # "gap" /\ Last(r) # "gap")
  <2> SUFFICES ASSUME ~Contains(s, "gap"), r # <<>>
               PROVE  Head(r) # "gap" /\ Last(r) # "gap"
    OBVIOUS
  <2>1. \A k \in 1..Len(s) : s[k] # "gap"
    BY DEF Contains
  <2>2. Len(r) # 0
    BY <1>2
  <2>3. /\ 1 \in 1..(Len(s) - e) /\ 1 + e \in 1..Len(s)
        /\ Len(s) - e \in 1..(Len(s) - e) /\ (Len(s) - e) + e \in 1..Len(s)
    BY <1>1, <1>2, <2>2
  <2>4. r[1] # "gap" /\ r[Len(r)] # "gap"
    BY <1>2, <2>1, <2>3
  <2> QED
    BY <1>2, <2>2, <2>4 DEF Last
<1> HIDE DEF r
<1>5. /\ Trim(r) \in Seq(Token) /\ Len(Trim(r)) \in 0..Len(r)
      /\ r = <<>> \/ (Head(r) # "gap" /\ Last(r) # "gap") => Trim(r) = r
  BY <1>2, Trimmed
<1>6. Rest(s) = Trim(r)
  BY DEF Rest, r, e
<1> QED
  BY <1>1, <1>2, <1>3, <1>4, <1>5, <1>6 DEF e

\* On a line with facts the name is what stands behind the last of them.
LEMMA NamesBehindFacts ==
    ASSUME NEW s \in Seq(Token), s # <<>>, NEW kind
    PROVE  Rest(s) = s <=> Carried("mlsd", kind, s)
<1>1. /\ Len(s) \in Nat /\ Len(s) # 0 /\ FactEnd(s) \in 0..Len(s)
      /\ Len(Rest(s)) \in Nat /\ Len(Rest(s)) <= Len(s) - FactEnd(s)
  BY RestIs
<1>2. Carried("mlsd", kind, s) <=> ~LooksLikeFact(s) /\ Head(s) # "gap" /\ Last(s) # "gap"
  BY DEF Carried
<1>3. CASE FactEnd(s) = 0
  <2>1. ~LooksLikeFact(s) /\ Rest(s) = Trim(s)
    BY <1>3, NoFactsAtAll, RestIs
  <2>2. /\ Len(Trim(s)) \in 0..Len(s)
        /\ (Head(s) = "gap" \/ Last(s) = "gap") => Len(Trim(s)) < Len(s)
        /\ Head(s) # "gap" /\ Last(s) # "gap" => Trim(s) = s
    BY Trimmed
  <2> QED
    BY <1>1, <1>2, <2>1, <2>2
<1>4. CASE FactEnd(s) # 0
  <2>1. LooksLikeFact(s)
    BY <1>4, NoFactsAtAll
  <2>2. Len(Rest(s)) < Len(s)
    BY <1>1, <1>4
  <2> QED
    BY <1>1, <1>2, <2>1, <2>2
<1> QED
  BY <1>3, <1>4

\* A line of another style is not taken for one with facts.
NoFactsLeft(s) == FactEnd(s) = 0 \/ Rest(s) = <<>>

LEMMA NamesOfLists ==
    ASSUME NEW s \in Seq(Token), s # <<>>
    PROVE  /\ ~NoFactsLeft(s) => Rest(s) # s
           /\ ~Contains(s, "gap") => (NoFactsLeft(s) <=> ~LooksLikeFact(s) \/ OnlyFacts(s))
<1>1. /\ Len(s) \in Nat /\ Len(s) # 0 /\ FactEnd(s) \in 0..Len(s)
      /\ Rest(s) \in Seq(Token) /\ Len(Rest(s)) \in Nat /\ Len(Rest(s)) <= Len(s) - FactEnd(s)
      /\ ~Contains(s, "gap") => Len(Rest(s)) = Len(s) - FactEnd(s)
  BY RestIs
<1>2. ~NoFactsLeft(s) => Rest(s) # s
  <2> SUFFICES ASSUME FactEnd(s) # 0
               PROVE  Rest(s) # s
    BY DEF NoFactsLeft
  <2>1. Len(Rest(s)) < Len(s)
    BY <1>1
  <2> QED
    BY <1>1, <2>1
<1>3. ASSUME ~Contains(s, "gap")
      PROVE  NoFactsLeft(s) <=> ~LooksLikeFact(s) \/ OnlyFacts(s)
  <2>1. Rest(s) = <<>> <=> FactEnd(s) = Len(s)
    <3>1. Rest(s) = <<>> <=> Len(Rest(s)) = 0
      BY <1>1
    <3> QED
      BY <1>1, <1>3, <3>1
  <2> QED
    BY <2>1, FactsToTheEnd, NoFactsAtAll DEF NoFactsLeft
<1> QED
  BY <1>2, <1>3

\* A link that is taken for a line with facts loses a part of its name.
LEMMA NamesOfLinks ==
    ASSUME NEW s \in Seq(Token), s # <<>>
    PROVE  LET w == s \o Target
           IN  /\ NoFactsLeft(w) <=> ~LooksLikeFact(s)
               /\ ~NoFactsLeft(w) => Rest(w) # s
<1> DEFINE w == s \o Target
           e == FactEnd(w)
           r == SubSeq(w, e + 1, Len(w))
           n == Len(s)
<1>1. /\ w \in Seq(Token) /\ Len(w) = n + 2 /\ n \in Nat /\ n # 0
      /\ \A i \in 1..n : w[i] = s[i]
      /\ w[n + 1] = "arrow" /\ w[n + 2] = "word"
  BY WithTarget
<1>2. e = FactEnd(s) /\ e \in 0..n /\ (e = 0 <=> ~LooksLikeFact(s))
  BY TargetIsNoFact, FactEndIsEnd, NoFactsAtAll
<1> HIDE DEF w, e
<1> HIDE DEF n
<1>3. /\ r \in Seq(Token) /\ Len(r) = n + 2 - e
      /\ \A k \in 1..(n + 2 - e) : r[k] = w[k + e]
  <2>1. e \in 0..Len(w)
    BY <1>1, <1>2
  <2> QED
    BY <1>1, <2>1, Behind
<1> HIDE DEF r
<1>4. Len(r) \in 2..(n + 2) /\ Last(r) = "word" /\ r # <<>>
  <2>1. Len(r) \in 2..(n + 2) /\ Len(r) \in 1..(n + 2 - e) /\ Len(r) + e = n + 2
    BY <1>1, <1>2, <1>3
  <2> QED
    BY <1>1, <1>3, <2>1 DEF Last
<1>5. Rest(w) = Trim(r)
  BY DEF Rest, r, e
<1>6. Trim(r) = SubSeq(r, IF Head(r) = "gap" THEN 2 ELSE 1, Len(r))
  BY <1>4 DEF Trim
<1>7. Len(Trim(r)) = Len(r) \/ Len(Trim(r)) = Len(r) - 1
  BY <1>3, <1>4, <1>6
<1>8. Rest(w) # <<>>
  BY <1>4, <1>5, <1>7
<1>9. ASSUME e # 0, Trim(r) = s
      PROVE  FALSE
  <2>1. e \in Ends(s) /\ \A i \in Ends(s) : i <= e
    BY <1>2, <1>9, FactEndIsEnd
  <2>2. e \in Semicolons(s) /\ \A j \in Semicolons(s) : j <= e => IsFact(s, j)
    BY <2>1 DEF Ends
  <2>3. PICK j \in 1..(e - 1) : s[j] = "equals" /\ \A k \in j..(e - 1) : s[k] # "semicolon"
    BY <1>2, <2>2 DEF IsFact, Semicolons
  <2>4. e = 2 /\ Len(Trim(r)) = Len(r)
    <3>1. Len(Trim(r)) = n
      BY <1>9 DEF n
    <3>2. e \in Nat /\ e >= 2
      BY <1>1, <1>2, <2>3
    <3> DEFINE c == Len(r)
    <3>3. c \in 2..(n + 2) /\ c = n + 2 - e /\ (c = n \/ c - 1 = n)
      BY <1>3, <1>4, <1>7, <3>1
    <3> HIDE DEF c
    <3>4. e = 2 /\ c = n
      BY <1>1, <3>2, <3>3
    <3> QED
      BY <3>1, <3>4 DEF c
  <2>5. s[1] = "equals" /\ s[2] = "semicolon" /\ 2 \in 1..n
    <3>1. j = 1
      BY <2>3, <2>4
    <3> QED
      BY <2>2, <2>3, <2>4, <3>1 DEF Semicolons, n
  <2>6. Trim(r) = r
    <3>1. Head(r) # "gap"
      <4> SUFFICES ASSUME Head(r) = "gap"
                   PROVE  FALSE
        OBVIOUS
      <4>1. Trim(r) = SubSeq(r, 2, Len(r))
        BY <1>6
      <4>2. Len(SubSeq(r, 2, Len(r))) = Len(r) - 1
        BY <1>3, <1>4
      <4> QED
        BY <1>4, <2>4, <4>1, <4>2
    <3>2. SubSeq(r, 1, Len(r)) = r
      BY <1>3
    <3> QED
      BY <1>6, <3>1, <3>2
  <2>7. \A k \in 1..n : s[k] = w[k + 2]
    BY <1>1, <1>3, <1>9, <2>4, <2>6
  <2>8. w[3] = "equals" /\ w[4] = "semicolon"
    <3>1. 1 \in 1..n /\ 1 + 2 = 3 /\ 2 + 2 = 4
      BY <1>1, <2>5
    <3> QED
      BY <2>5, <2>7, <3>1
  <2>9. n >= 4
    <3>1. n # 2 /\ n # 3
      BY <1>1, <2>8 DEF Token
    <3> QED
      BY <1>1, <2>5, <3>1
  <2>10. s[3] = "equals" /\ s[4] = "semicolon" /\ 3 \in 1..n /\ 4 \in 1..n
    BY <1>1, <2>8, <2>9
  <2>11. IsFact(s, 4)
    <3>1. 3 \in 1..(4 - 1) /\ \A k \in 3..(4 - 1) : k = 3
      OBVIOUS
    <3> QED
      BY <2>10, <3>1 DEF IsFact
  <2>12. 4 \in Ends(s)
    <3>1. \A k \in Semicolons(s) : k <= 4 => k <= 2 \/ k = 4
      BY <2>10 DEF Semicolons
    <3>2. 4 \in Semicolons(s)
      BY <2>10 DEF Semicolons, n
    <3> QED
      BY <2>2, <2>4, <2>11, <3>1, <3>2 DEF Ends
  <2> QED
    BY <2>1, <2>4, <2>12
<1>10. NoFactsLeft(w) <=> ~LooksLikeFact(s)
  BY <1>2, <1>8 DEF NoFactsLeft, e
<1>11. ~NoFactsLeft(w) => Rest(w) # s
  BY <1>5, <1>9 DEF NoFactsLeft, e
<1> QED
  BY <1>10, <1>11 DEF w

-----------------------------------------------------------------------------
(* What an ls line keeps of a name.                                        *)

LEMMA UnixNames ==
    ASSUME NEW s \in Seq(Token), s # <<>>
    PROVE  BeforeArrow(Joined(s)) = s
             <=> ~Contains(s, "gap") /\ \A i \in 2..Len(s) : s[i] = "arrow" => i = Len(s)
<1> DEFINE J == Joined(s)
           B == BeforeArrow(J)
<1>1. /\ J \in Seq(Token) /\ Len(s) \in Nat /\ Len(J) \in 0..Len(s)
      /\ Contains(s, "gap") => Len(J) < Len(s)
      /\ ~Contains(s, "gap") => J = s
  BY JoinedTyped, JoinedWhole
<1> HIDE DEF J
<1>2. /\ B \in Seq(Token) /\ (Arrows(J) = {} => B = J)
      /\ \A i \in Arrows(J) : Len(B) < i
  BY <1>1, InFrontOfArrow
<1> HIDE DEF B
<1>3. Len(B) \in Nat /\ (Arrows(J) # {} => Len(B) < Len(J))
  <2>1. \A i \in Arrows(J) : i \in Nat /\ i < Len(J)
    BY <1>1 DEF Arrows
  <2> QED
    BY <1>1, <1>2, <2>1
<1>4. B = s <=> ~Contains(s, "gap") /\ Arrows(s) = {}
  BY <1>1, <1>2, <1>3
<1>5. Arrows(s) = {} <=> \A i \in 2..Len(s) : s[i] = "arrow" => i = Len(s)
  BY <1>1 DEF Arrows
<1> QED
  BY <1>4, <1>5 DEF B, J

LEMMA UnixLinks ==
    ASSUME NEW s \in Seq(Token), s # <<>>
    PROVE  BeforeArrow(Joined(s \o Target)) = s
             <=> ~Contains(s, "gap") /\ \A i \in 2..Len(s) : s[i] # "arrow"
<1> DEFINE w == s \o Target
           J == Joined(w)
           B == BeforeArrow(J)
           n == Len(s)
<1>1. /\ w \in Seq(Token) /\ Len(w) = n + 2 /\ n \in Nat /\ n # 0
      /\ \A i \in 1..n : w[i] = s[i]
      /\ w[n + 1] = "arrow" /\ w[n + 2] = "word"
  BY WithTarget
<1>2. /\ J \in Seq(Token) /\ Len(J) \in 2..(n + 2) /\ J[Len(J) - 1] = "arrow"
      /\ Contains(s, "gap") => Len(J) < n + 2
  BY JoinedTarget
<1>3. ~Contains(s, "gap") => J = w
  <2>1. ASSUME ~Contains(s, "gap")
        PROVE  ~Contains(w, "gap")
    <3>1. \A i \in 1..(n + 2) : i \in 1..n \/ i = n + 1 \/ i = n + 2
      BY <1>1
    <3> HIDE DEF w
    <3> QED
      BY <1>1, <2>1, <3>1 DEF Contains
  <2> HIDE DEF w
  <2> QED
    BY <1>1, <2>1, JoinedWhole
<1> HIDE DEF w, J, n
<1>4. /\ B \in Seq(Token) /\ (Arrows(J) = {} => B = J)
      /\ \A i \in Arrows(J) : Len(B) < i /\ Len(B) + 1 \in Arrows(J)
      /\ Arrows(J) # {} => B = SubSeq(J, 1, Len(B))
  BY <1>2, InFrontOfArrow
<1> HIDE DEF B
<1>5. ASSUME B = s
      PROVE  ~Contains(s, "gap") /\ \A i \in 2..n : s[i] # "arrow"
  <2>1. CASE Len(J) = 2
    <3>1. Contains(s, "gap")
      <4>1. J # w
        BY <1>1, <2>1
      <4> QED
        BY <1>3, <4>1
    <3>2. Arrows(J) = {}
      BY <2>1 DEF Arrows
    <3>3. J = s /\ n = 2
      BY <1>4, <1>5, <2>1, <3>2 DEF n
    <3>4. \A i \in 1..n : J[i] # "gap"
      BY JoinedTyped, <1>1, <1>2, <2>1, <3>3 DEF J, Contains
    <3> QED
      BY <3>1, <3>3, <3>4 DEF Contains, n
  <2>2. CASE Len(J) # 2
    <3>1. Len(J) - 1 \in Arrows(J)
      <4> DEFINE c == Len(J)
      <4>1. c \in 2..(n + 2) /\ c # 2
        BY <1>2, <2>2
      <4> HIDE DEF c
      <4>2. c - 1 \in 2..(c - 1)
        BY <1>1, <4>1
      <4> QED
        BY <1>2, <4>2 DEF Arrows, c
    <3>2. n < Len(J) - 1
      BY <1>4, <1>5, <3>1 DEF n
    <3>3. ~Contains(s, "gap")
      BY <1>1, <1>2, <3>2
    <3>4. ASSUME NEW i \in 2..n, s[i] = "arrow"
          PROVE  FALSE
      <4>1. i \in 1..n /\ i \in 2..((n + 2) - 1)
        BY <1>1
      <4>2. i \in Arrows(J)
        BY <1>1, <1>3, <3>3, <3>4, <4>1 DEF Arrows
      <4>3. n < i
        BY <1>4, <1>5, <4>2 DEF n
      <4> QED
        BY <1>1, <4>1, <4>3
    <3>5. \A i \in 2..n : s[i] # "arrow"
      BY <3>4
    <3> QED
      BY <3>3, <3>5
  <2> QED
    BY <2>1, <2>2
<1>6. ASSUME ~Contains(s, "gap"), \A i \in 2..n : s[i] # "arrow"
      PROVE  B = s
  <2>1. Arrows(J) = {n + 1}
    <3>1. Arrows(J) = {i \in 2..(n + 1) : w[i] = "arrow"}
      BY <1>1, <1>3, <1>6 DEF Arrows
    <3>2. \A i \in 2..(n + 1) : i = n + 1 \/ (i \in 2..n /\ i \in 1..n)
      BY <1>1
    <3>3. n + 1 \in 2..(n + 1)
      BY <1>1
    <3> QED
      BY <1>1, <1>6, <3>1, <3>2, <3>3
  <2>2. Len(B) \in Nat /\ Len(B) + 1 = n + 1
    BY <1>4, <2>1
  <2>3. B = SubSeq(w, 1, n)
    <3>1. Len(B) = n
      BY <1>1, <2>2
    <3> QED
      BY <1>3, <1>4, <1>6, <2>1, <3>1
  <2>4. SubSeq(w, 1, n) = s
    <3> DEFINE v == SubSeq(w, 1, n)
    <3>1. v \in Seq(Token) /\ Len(v) = n /\ \A i \in 1..n : v[i] = w[i]
      BY <1>1
    <3> HIDE DEF v
    <3>2. v = s
      BY <1>1, <3>1 DEF n
    <3> QED
      BY <3>2 DEF v
  <2> QED
    BY <2>3, <2>4
<1> QED
  BY <1>5, <1>6 DEF B, J, w, n

-----------------------------------------------------------------------------
(* What the parser makes of a line of each style.                          *)

LEMMA NoEntryIsNone ==
    ASSUME NEW e, e \in Entries
    PROVE  e # NoEntry
BY ListingAssumption

LEMMA TimeTyped ==
    ASSUME NEW y \in Int, NEW m \in 1..12, NEW d \in 1..31, NEW h \in 0..23
    PROVE  /\ MinutesFrom(y, m, d, h, 0) \in Int
           /\ MinutesFrom(y, m, d, 0, 0) = MinutesFrom(y, m, d, h, 0) - h * 60
<1> DEFINE days == DaysFromCivil(y, m, d)
<1>1. days \in Int
  <2>1. MarchYear(y, m) \in Int /\ DayOfYear(m, d) \in Int
    BY DEF MarchYear, DayOfYear
  <2>2. DaysBeforeYear(MarchYear(y, m)) \in Int
    BY <2>1, ClosedForm
  <2> QED
    BY <2>1, <2>2, SMT DEF DaysFromCivil
<1> HIDE DEF days
<1>2. /\ MinutesFrom(y, m, d, h, 0) = days * 1440 + h * 60 + 0
      /\ MinutesFrom(y, m, d, 0, 0) = days * 1440 + 0 * 60 + 0
  BY DEF MinutesFrom, days
<1> QED
  BY <1>1, <1>2, SMT

\* What the parser of MLSD lines returns.
Facts(line, modified) == [name |-> Rest(line.name),
                          is_dir |-> line.style = "mlsd" /\ line.kind = "dir",
                          modified |-> modified]

LEMMA MlsdIs ==
    ASSUME NEW line, line.name \in Seq(Token),
           line.style = "mlsd" => At(line, line.year, line.hour) \in Int
    PROVE  LET modified == IF line.style = "mlsd" THEN At(line, line.year, line.hour) ELSE NoTime
           IN  /\ Rest(line.name) = <<>> \/ (line.style # "mlsd" /\ FactEnd(line.name) = 0)
                    => ParseMlsd(line) = NoEntry
               /\ ~(Rest(line.name) = <<>> \/ (line.style # "mlsd" /\ FactEnd(line.name) = 0))
                    => /\ ParseMlsd(line) = Facts(line, modified)
                       /\ Facts(line, modified) \in Entries /\ Facts(line, modified) # NoEntry
<1> DEFINE modified == IF line.style = "mlsd" THEN At(line, line.year, line.hour) ELSE NoTime
           none == Rest(line.name) = <<>> \/ (line.style # "mlsd" /\ FactEnd(line.name) = 0)
<1>1. ParseMlsd(line) = IF none THEN NoEntry ELSE Facts(line, modified)
  BY DEF ParseMlsd, Rest, Facts
<1>2. Rest(line.name) \in Seq(Token)
  BY RestIs
<1>3. modified \in Int \cup {NoTime}
  OBVIOUS
<1> HIDE DEF modified
<1>4. Facts(line, modified) \in Entries
  BY <1>2, <1>3 DEF Facts, Entries
<1>5. Facts(line, modified) # NoEntry
  BY <1>4, NoEntryIsNone
<1> HIDE DEF none
<1>6. /\ none => ParseMlsd(line) = NoEntry
      /\ ~none => /\ ParseMlsd(line) = Facts(line, modified)
                  /\ Facts(line, modified) \in Entries /\ Facts(line, modified) # NoEntry
  BY <1>1, <1>4, <1>5
<1> QED
  BY <1>6 DEF none, modified

LEMMA OtherStyles ==
    ASSUME NEW line, NEW now
    PROVE  /\ line.style # "unix" => ParseUnix(line, now) = NoEntry
           /\ line.style \notin {"windows", "windows24"} => ParseWindows(line) = NoEntry
BY DEF ParseUnix, ParseWindows

LEMMA ReadMlsd ==
    ASSUME NEW line, NEW now, line.style = "mlsd", line.name \in Seq(Token),
           At(line, line.year, line.hour) \in Int
    PROVE  LET e == ParseListingLine(line, now)
               read == Facts(line, At(line, line.year, line.hour))
           IN  /\ Rest(line.name) = <<>> => e = NoEntry
               /\ Rest(line.name) # <<>> => e = read /\ read \in Entries
<1>1. ParseUnix(line, now) = NoEntry /\ ParseWindows(line) = NoEntry
  BY OtherStyles
<1>2. ParseListingLine(line, now) = ParseMlsd(line)
  BY <1>1 DEF ParseListingLine
<1> QED
  BY <1>2, MlsdIs

LEMMA ReadAsFacts ==
    ASSUME NEW line, NEW now, line.style # "mlsd", line.name \in Seq(Token), ~NoFactsLeft(line.name)
    PROVE  ParseListingLine(line, now) = Facts(line, NoTime) /\ Facts(line, NoTime) \in Entries
<1>1. /\ ParseMlsd(line) = Facts(line, NoTime)
      /\ Facts(line, NoTime) \in Entries /\ Facts(line, NoTime) # NoEntry
  BY MlsdIs DEF NoFactsLeft
<1> QED
  BY <1>1 DEF ParseListingLine

ListLine(line, modified) == [name |-> BeforeArrow(Joined(line.name)),
                             is_dir |-> line.kind \in {"dir", "link"},
                             modified |-> modified]

\* A year that no line of ls is expected to show.
YearOutside(line) == line.hasYear /\ line.year \notin 1970..2200

LEMMA ReadUnix ==
    ASSUME NEW line, NEW now, line.style = "unix", line.name \in Seq(Token), NoFactsLeft(line.name),
           NEW modified \in Int,
           modified = IF line.hasYear THEN At(line, line.year, 0)
                      ELSE At(line, InferredYear(line, now), line.hour)
    PROVE  LET e == ParseListingLine(line, now)
               name == BeforeArrow(Joined(line.name))
           IN  /\ name = <<>> \/ YearOutside(line) => e = NoEntry
               /\ ~(name = <<>> \/ YearOutside(line))
                    => e = ListLine(line, modified) /\ ListLine(line, modified) \in Entries
<1> DEFINE name == BeforeArrow(Joined(line.name))
           none == name = <<>> \/ YearOutside(line)
<1>1. ParseMlsd(line) = NoEntry /\ ParseWindows(line) = NoEntry
  BY MlsdIs, OtherStyles DEF NoFactsLeft
<1>2. ParseUnix(line, now) = IF none THEN NoEntry ELSE ListLine(line, modified)
  BY DEF ParseUnix, ListLine, YearOutside
<1>3. name \in Seq(Token)
  BY JoinedTyped, InFrontOfArrow
<1> HIDE DEF name, none
<1>4. ListLine(line, modified) \in Entries
  BY <1>3 DEF ListLine, Entries, name
<1>5. ListLine(line, modified) # NoEntry
  BY <1>4, NoEntryIsNone
<1>6. ParseListingLine(line, now) = IF none THEN NoEntry ELSE ListLine(line, modified)
  BY <1>1, <1>2, <1>5 DEF ParseListingLine
<1>7. /\ none => ParseListingLine(line, now) = NoEntry
      /\ ~none => /\ ParseListingLine(line, now) = ListLine(line, modified)
                  /\ ListLine(line, modified) \in Entries
  BY <1>4, <1>6
<1> QED
  BY <1>7 DEF none, name

DirLine(line, modified) == [name |-> Joined(line.name), is_dir |-> line.kind = "dir", modified |-> modified]

LEMMA ReadWindows ==
    ASSUME NEW line, NEW now, line.style \in {"windows", "windows24"},
           line.name \in Seq(Token), NoFactsLeft(line.name),
           NEW modified \in Int,
           modified = At(line, IF line.year < 100 THEN line.year + 2000 ELSE line.year, HourOf(line))
    PROVE  LET e == ParseListingLine(line, now)
           IN  /\ Joined(line.name) = <<>> \/ line.hour \notin 1..12 => e = NoEntry
               /\ ~(Joined(line.name) = <<>> \/ line.hour \notin 1..12)
                    => e = DirLine(line, modified) /\ DirLine(line, modified) \in Entries
<1> DEFINE none == Joined(line.name) = <<>> \/ line.hour \notin 1..12
<1>1. ParseMlsd(line) = NoEntry /\ ParseUnix(line, now) = NoEntry
  BY MlsdIs, OtherStyles DEF NoFactsLeft
<1>2. ParseWindows(line) = IF none THEN NoEntry ELSE DirLine(line, modified)
  BY DEF ParseWindows, DirLine
<1>3. Joined(line.name) \in Seq(Token)
  BY JoinedTyped
<1>4. DirLine(line, modified) \in Entries
  BY <1>3 DEF DirLine, Entries
<1> HIDE DEF none
<1>5. ParseListingLine(line, now) = IF none THEN NoEntry ELSE DirLine(line, modified)
  BY <1>1, <1>2 DEF ParseListingLine
<1>6. /\ none => ParseListingLine(line, now) = NoEntry
      /\ ~none => /\ ParseListingLine(line, now) = DirLine(line, modified)
                  /\ DirLine(line, modified) \in Entries
  BY <1>4, <1>5
<1> QED
  BY <1>6 DEF none

-----------------------------------------------------------------------------
(* The time that a row shows.                                              *)

\* The same day and hour of another year is another time.
LEMMA YearsDiffer ==
    ASSUME NEW y \in Nat, NEW z \in Nat, y # z,
           NEW m \in 1..12, NEW d \in 1..31, NEW h \in 0..23
    PROVE  MinutesFrom(y, m, d, h, 0) # MinutesFrom(z, m, d, h, 0)
<1> DEFINE more == IF m <= 2 THEN 0 ELSE 1
<1>1. \A x \in Nat : /\ x + more \in Nat /\ FirstDay(x + more) \in Int
                     /\ MinutesFrom(x, m, d, h, 0)
                          = (FirstDay(x + more) - 306 + DayOfYear(m, d)) * 1440 + h * 60
  <2> SUFFICES ASSUME NEW x \in Nat
               PROVE  /\ x + more \in Nat /\ FirstDay(x + more) \in Int
                      /\ MinutesFrom(x, m, d, h, 0)
                           = (FirstDay(x + more) - 306 + DayOfYear(m, d)) * 1440 + h * 60
    OBVIOUS
  <2>1. x + more \in Nat /\ (x + more) - 1 = MarchYear(x, m) /\ MarchYear(x, m) \in Int
    BY SMT DEF MarchYear
  <2> HIDE DEF more
  <2> DEFINE first == x + more
  <2>2. FirstDay(first) \in Int
    BY <2>1, FirstDays
  <2>3. FirstDay(first) = DaysBeforeYear(MarchYear(x, m)) + 306 - 719468
    <3>1. MarchYear(first, 1) = first - 1
      BY SMT DEF MarchYear
    <3>2. DayOfYear(1, 1) = 306
      BY MonthStarts, SMT
    <3> HIDE DEF first
    <3>3. FirstDay(first) = DaysBeforeYear(first - 1) + 306 - 719468
      BY <3>1, <3>2, SMT DEF FirstDay, DaysFromCivil
    <3> QED
      BY <2>1, <3>3, SMT DEF first
  <2> HIDE DEF first
  <2>4. DaysBeforeYear(MarchYear(x, m)) \in Int /\ DayOfYear(m, d) \in Int
    <3>1. DayOfYear(m, d) \in Int
      BY SMT DEF DayOfYear
    <3>2. DaysBeforeYear(MarchYear(x, m)) \in Int
      BY <2>1, ClosedForm, SMT
    <3> QED
      BY <3>1, <3>2
  <2>5. MinutesFrom(x, m, d, h, 0)
          = (DaysBeforeYear(MarchYear(x, m)) + DayOfYear(m, d) - 719468) * 1440 + h * 60 + 0
    BY SMT DEF MinutesFrom, DaysFromCivil
  <2>6. MinutesFrom(x, m, d, h, 0) = (FirstDay(first) - 306 + DayOfYear(m, d)) * 1440 + h * 60
    BY <2>2, <2>3, <2>4, <2>5, SMT
  <2> QED
    BY <2>1, <2>2, <2>6 DEF first
<1> DEFINE a == y + more
           b == z + more
<1>2. DayOfYear(m, d) \in Int
  BY SMT DEF DayOfYear
<1>3. a \in Nat /\ b \in Nat /\ a # b
  BY SMT
<1>4. /\ MinutesFrom(y, m, d, h, 0) = (FirstDay(a) - 306 + DayOfYear(m, d)) * 1440 + h * 60
      /\ MinutesFrom(z, m, d, h, 0) = (FirstDay(b) - 306 + DayOfYear(m, d)) * 1440 + h * 60
      /\ FirstDay(a) \in Int /\ FirstDay(b) \in Int
  BY <1>1
<1> HIDE DEF a, b
<1>5. FirstDay(a) # FirstDay(b)
  <2>1. a < b => FirstDay(a) + 365 <= FirstDay(b)
    BY <1>3, FirstDaysGrow
  <2>2. b < a => FirstDay(b) + 365 <= FirstDay(a)
    BY <1>3, FirstDaysGrow
  <2> QED
    BY <1>3, <1>4, <2>1, <2>2, SMT
<1> QED
  BY <1>2, <1>4, <1>5, SMT

\* AM and PM: the twelve hours of the line are the twenty-four of the file.
LEMMA HourComesBack ==
    ASSUME NEW line, NEW h \in 0..23, line.hour = Twelve(h),
           line.suffix = IF h < 12 THEN "AM" ELSE "PM"
    PROVE  HourOf(line) = h /\ line.hour \in 1..12
BY DEF HourOf, Twelve

\* Two digits of a year: the window of the code begins with 2000.
LEMMA CenturyComesBack ==
    ASSUME NEW y \in Nat
    PROVE  /\ y % 100 \in Nat /\ y % 100 < 100
           /\ (y % 100) + 2000 = y <=> y \in 2000..2099
OBVIOUS

\* The line a server prints for the file.
LineNow(style, digits, kind) == LineOf(style, digits, kind, file.name)

\* The time an entry of that line is given.
Shown(style, digits, kind) ==
    LET line == LineNow(style, digits, kind)
    IN  IF style = "unix"
        THEN IF line.hasYear THEN At(line, line.year, 0)
             ELSE At(line, InferredYear(line, Now), line.hour)
        ELSE IF style = "mlsd" THEN At(line, line.year, line.hour)
        ELSE At(line, IF line.year < 100 THEN line.year + 2000 ELSE line.year, HourOf(line))

LEMMA LineIs ==
    ASSUME NEW style, NEW digits, NEW kind
    PROVE  LET line == LineNow(style, digits, kind)
           IN  /\ line.style = style /\ line.kind = kind
               /\ line.year = IF style = "windows" /\ digits = 2 THEN file.date.year % 100
                              ELSE file.date.year
               /\ line.hasYear <=> style # "unix" \/ ~Recent
               /\ line.month = file.date.month /\ line.day = file.date.day
               /\ line.hour = IF style = "windows" THEN Twelve(file.hour) ELSE file.hour
               /\ line.suffix = IF style # "windows" THEN "none"
                                ELSE IF file.hour < 12 THEN "AM" ELSE "PM"
               /\ line.name = IF style = "unix" /\ kind = "link" THEN file.name \o Target
                              ELSE file.name
BY DEF LineNow, LineOf, Target

LEMMA ShownOfFacts ==
    ASSUME ListingInv, file # NoFile, NEW digits, NEW kind
    PROVE  Shown("mlsd", digits, kind) = file.time /\ file.time \in Int
<1> DEFINE line == LineNow("mlsd", digits, kind)
<1>1. FileWritten /\ file.time \in Int
  <2>1. FileWritten
    BY DEF ListingInv
  <2> QED
    BY <2>1, FileDated, SMT
<1>2. /\ line.year = file.date.year /\ line.month = file.date.month
      /\ line.day = file.date.day /\ line.hour = file.hour
  BY LineIs
<1>3. Shown("mlsd", digits, kind) = At(line, line.year, line.hour)
  BY DEF Shown
<1> HIDE DEF line
<1>4. file.time = MinutesFrom(file.date.year, file.date.month, file.date.day, file.hour, 0)
  BY <1>1, Zenon DEF FileWritten
<1>5. At(line, line.year, line.hour) = file.time
  BY <1>2, <1>4, Zenon DEF At
<1> QED
  BY <1>1, <1>3, <1>5

LEMMA ShownOfUnix ==
    ASSUME ListingInv, file # NoFile, NEW digits, NEW kind
    PROVE  /\ Shown("unix", digits, kind) \in Int
           /\ Shown("unix", digits, kind) = file.time - TimeLost("unix") <=> YearKnown("unix", digits)
<1> DEFINE line == LineNow("unix", digits, kind)
<1>1. FileWritten
  BY DEF ListingInv
<1>2. /\ file.date.year \in Int /\ file.date.month \in 1..12 /\ file.date.day \in 1..31
      /\ file.hour \in 0..23 /\ file.time \in Int
  BY FileDated, SMT
<1>3. /\ line.year = file.date.year /\ line.month = file.date.month /\ (line.hasYear <=> ~Recent)
      /\ line.day = file.date.day /\ line.hour = file.hour
  BY LineIs
<1>4. Shown("unix", digits, kind) = IF line.hasYear THEN At(line, line.year, 0)
                                    ELSE At(line, InferredYear(line, Now), line.hour)
  BY DEF Shown
<1> HIDE DEF line
<1>5. CASE Recent
  <2>1. Shown("unix", digits, kind) = At(line, InferredYear(line, Now), line.hour)
    BY <1>3, <1>4, <1>5
  <2>2. /\ InferredYear(line, Now) \in Int
        /\ At(line, InferredYear(line, Now), line.hour) = file.time <=> ~BeforeNewYear
    BY <1>3, <1>5, InferredIsWritten
  <2>3. At(line, InferredYear(line, Now), line.hour) \in Int
    BY <1>2, <1>3, <2>2, TimeTyped DEF At
  <2>4. file.time - TimeLost("unix") = file.time
    BY <1>2, <1>5 DEF TimeLost
  <2>5. YearKnown("unix", digits) <=> ~BeforeNewYear
    BY <1>5 DEF YearKnown
  <2> QED
    BY <2>1, <2>2, <2>3, <2>4, <2>5
<1>6. CASE ~Recent
  <2>1. Shown("unix", digits, kind) = At(line, line.year, 0)
    BY <1>3, <1>4, <1>6
  <2>2. /\ MinutesFrom(file.date.year, file.date.month, file.date.day, file.hour, 0) \in Int
        /\ MinutesFrom(file.date.year, file.date.month, file.date.day, 0, 0)
             = MinutesFrom(file.date.year, file.date.month, file.date.day, file.hour, 0) - file.hour * 60
    BY <1>2, TimeTyped
  <2>3. At(line, line.year, 0) = file.time - file.hour * 60
    BY <1>1, <1>3, <2>2 DEF At, FileWritten
  <2>4. TimeLost("unix") = file.hour * 60
    BY <1>6 DEF TimeLost
  <2>5. YearKnown("unix", digits)
    BY <1>6 DEF YearKnown
  <2>6. file.time - file.hour * 60 \in Int
    BY <1>2
  <2> QED
    BY <2>1, <2>3, <2>4, <2>5, <2>6
<1> QED
  BY <1>5, <1>6

LEMMA ShownOfWindows ==
    ASSUME ListingInv, file # NoFile, NEW digits \in {2, 4}, NEW kind,
           NEW style \in {"windows", "windows24"}, Legible(style)
    PROVE  /\ Shown(style, digits, kind) \in Int
           /\ LineNow(style, digits, kind).hour \in 1..12
           /\ Shown(style, digits, kind) = file.time - TimeLost(style) <=> YearKnown(style, digits)
<1> DEFINE line == LineNow(style, digits, kind)
           F == file.date.year
           m == file.date.month
           d == file.date.day
           h == file.hour
           year == IF line.year < 100 THEN line.year + 2000 ELSE line.year
<1>1. file.time = MinutesFrom(F, m, d, h, 0)
  <2>1. FileWritten
    BY DEF ListingInv
  <2> QED
    BY <2>1, Zenon DEF FileWritten
<1>2. F \in Nat /\ m \in 1..12 /\ d \in 1..31 /\ h \in 0..23
  BY FileDated, SMT
<1>3. /\ line.year = IF style = "windows" /\ digits = 2 THEN F % 100 ELSE F
      /\ line.month = m /\ line.day = d
      /\ line.hour = IF style = "windows" THEN Twelve(h) ELSE h
      /\ line.suffix = IF style # "windows" THEN "none" ELSE IF h < 12 THEN "AM" ELSE "PM"
  BY LineIs
<1>4. Shown(style, digits, kind) = MinutesFrom(year, m, d, HourOf(line), 0)
  <2>1. Shown(style, digits, kind) = At(line, year, HourOf(line))
    BY DEF Shown
  <2> HIDE DEF line, m, d, year
  <2> QED
    BY <1>3, <2>1 DEF At
<1> HIDE DEF line
<1>5. year \in Nat /\ (year = F <=> YearKnown(style, digits))
  <2>1. CASE style = "windows" /\ digits = 2
    <3>1. F % 100 \in Nat /\ F % 100 < 100 /\ ((F % 100) + 2000 = F <=> F \in 2000..2099)
      BY <1>2, CenturyComesBack
    <3>2. year = (F % 100) + 2000
      BY <1>3, <2>1, <3>1
    <3>3. YearKnown(style, digits) <=> F \in 2000..2099
      BY <2>1 DEF YearKnown
    <3> HIDE DEF year, F
    <3> QED
      BY <3>1, <3>2, <3>3, SMT
  <2>2. CASE ~(style = "windows" /\ digits = 2)
    <3>1. line.year = F
      BY <1>3, <2>2
    <3>2. year = F
      <4>1. F >= 1970
        BY FileDated, SMT
      <4> QED
        BY <1>2, <3>1, <4>1, SMT
    <3>3. YearKnown(style, digits)
      BY <2>2 DEF YearKnown
    <3> QED
      BY <1>2, <3>2, <3>3
  <2> QED
    BY <2>1, <2>2
<1>6. /\ line.hour \in 1..12 /\ HourOf(line) \in 0..23
      /\ HourOf(line) * 60 = h * 60 - TimeLost(style) /\ TimeLost(style) \in Int
      /\ HourOf(line) = h \/ HourOf(line) = 0
      /\ HourOf(line) = h => TimeLost(style) = 0
      /\ HourOf(line) = 0 /\ h # 0 => TimeLost(style) = h * 60
  <2>1. CASE style = "windows"
    <3>1. HourOf(line) = h /\ line.hour \in 1..12
      BY <1>2, <1>3, <2>1, HourComesBack
    <3>2. TimeLost(style) = 0
      BY <2>1 DEF TimeLost
    <3> HIDE DEF h
    <3> QED
      BY <1>2, <3>1, <3>2
  <2>2. CASE style = "windows24"
    <3>1. h \in 1..12 /\ line.hour = h /\ line.suffix = "none"
      BY <1>3, <2>2 DEF Legible
    <3>2. HourOf(line) = IF h = 12 THEN 0 ELSE h
      BY <3>1 DEF HourOf
    <3>3. TimeLost(style) = IF h = 12 THEN h * 60 ELSE 0
      BY <2>2 DEF TimeLost
    <3> HIDE DEF h
    <3> QED
      BY <3>1, <3>2, <3>3
  <2> QED
    BY <2>1, <2>2
<1> HIDE DEF year, F, m, d, h
<1> DEFINE lost == TimeLost(style)
           k == HourOf(line)
<1>7. /\ MinutesFrom(F, m, d, h, 0) \in Int /\ MinutesFrom(year, m, d, h, 0) \in Int
      /\ MinutesFrom(F, m, d, 0, 0) = MinutesFrom(F, m, d, h, 0) - h * 60
      /\ MinutesFrom(year, m, d, 0, 0) = MinutesFrom(year, m, d, h, 0) - h * 60
  <2>1. F \in Int /\ year \in Int
    BY <1>2, <1>5, SMT
  <2>2. /\ MinutesFrom(F, m, d, h, 0) \in Int
        /\ MinutesFrom(F, m, d, 0, 0) = MinutesFrom(F, m, d, h, 0) - h * 60
    BY <1>2, <2>1, TimeTyped, Zenon
  <2>3. /\ MinutesFrom(year, m, d, h, 0) \in Int
        /\ MinutesFrom(year, m, d, 0, 0) = MinutesFrom(year, m, d, h, 0) - h * 60
    BY <1>2, <2>1, TimeTyped, Zenon
  <2> QED
    BY <2>2, <2>3
<1>8. MinutesFrom(F, m, d, h, 0) = MinutesFrom(year, m, d, h, 0) <=> year = F
  BY <1>2, <1>5, YearsDiffer
<1>9. MinutesFrom(year, m, d, k, 0) = MinutesFrom(year, m, d, h, 0) - lost
  <2>1. CASE k = h
    BY <1>6, <1>7, <2>1
  <2>2. CASE k = 0 /\ h # 0
    BY <1>6, <1>7, <2>2
  <2> QED
    BY <1>6, <2>1, <2>2
<1> HIDE DEF k, lost
<1>10. lost \in Int
  BY <1>6 DEF lost
<1>11. Shown(style, digits, kind) = MinutesFrom(year, m, d, h, 0) - lost
  BY <1>4, <1>9 DEF k
<1>12. Shown(style, digits, kind) = MinutesFrom(F, m, d, h, 0) - lost <=> year = F
  BY <1>7, <1>8, <1>10, <1>11, SMT
<1> QED
  BY <1>1, <1>5, <1>6, <1>7, <1>10, <1>11, <1>12 DEF lost, line

-----------------------------------------------------------------------------
(* The one row of a file.                                                  *)

Row(style, digits, kind) == ParseListingLine(LineNow(style, digits, kind), Now)

LEMMA FileNamed ==
    ASSUME ListingInv, file # NoFile
    PROVE  file.name \in Seq(Token) /\ file.name \notin {<<>>, <<".">>, <<"..">>}
<1>1. file.name \in Name
  BY DEF ListingInv, FileWritten
<1> QED
  BY <1>1, ListingAssumption

\* What may come of a line: no row, a row under the file's own name, or one
\* under another.
RowIs(e, style, digits, kind) ==
    /\ e = NoEntry \/ (e \in Entries /\ e.name # <<>>)
    /\ Carried(style, kind, file.name) /\ Legible(style) =>
         e = [name |-> file.name, is_dir |-> kind = "dir" \/ (kind = "link" /\ style = "unix"),
              modified |-> Shown(style, digits, kind)]
    /\ ~(Carried(style, kind, file.name) /\ Legible(style)) => e = NoEntry \/ e.name # file.name
    /\ Carried(style, kind, file.name) /\ ~Legible(style) => e = NoEntry

LEMMA RowOfFacts ==
    ASSUME ListingInv, file # NoFile, NEW digits, NEW kind
    PROVE  RowIs(Row("mlsd", digits, kind), "mlsd", digits, kind)
<1> DEFINE line == LineNow("mlsd", digits, kind)
           n == file.name
           e == Row("mlsd", digits, kind)
           t == Shown("mlsd", digits, kind)
<1>1. n \in Seq(Token) /\ n # <<>>
  BY FileNamed
<1>2. line.style = "mlsd" /\ line.kind = kind /\ line.name = n
  BY LineIs
<1>3. t = At(line, line.year, line.hour) /\ t \in Int
  BY ShownOfFacts DEF Shown
<1>4. e = ParseListingLine(line, Now)
  BY DEF Row
<1>5. Legible("mlsd")
  BY DEF Legible
<1>6. Rest(n) = n <=> Carried("mlsd", kind, n)
  BY <1>1, NamesBehindFacts
<1> HIDE DEF line, n, e, t
<1>7. /\ Rest(n) = <<>> => e = NoEntry
      /\ Rest(n) # <<>> => e = Facts(line, t) /\ e \in Entries
  BY <1>1, <1>2, <1>3, <1>4, ReadMlsd
<1>8. Facts(line, t) = [name |-> Rest(n), is_dir |-> kind = "dir" \/ (kind = "link" /\ "mlsd" = "unix"),
                        modified |-> t]
  BY <1>2 DEF Facts
<1>9. e = NoEntry \/ (e \in Entries /\ e.name = Rest(n) /\ Rest(n) # <<>>)
  BY <1>7, <1>8
<1> QED
  BY <1>1, <1>5, <1>6, <1>7, <1>8, <1>9 DEF RowIs, n, e, t

LEMMA RowOfUnix ==
    ASSUME ListingInv, file # NoFile, NEW digits, NEW kind \in {"file", "dir", "link"}
    PROVE  RowIs(Row("unix", digits, kind), "unix", digits, kind)
<1> DEFINE line == LineNow("unix", digits, kind)
           n == file.name
           e == Row("unix", digits, kind)
           t == Shown("unix", digits, kind)
           w == line.name
           name == BeforeArrow(Joined(w))
           isDir == kind = "dir" \/ (kind = "link" /\ "unix" = "unix")
<1>1. n \in Seq(Token) /\ n # <<>>
  BY FileNamed
<1>2. line.style = "unix" /\ line.kind = kind /\ w = IF kind = "link" THEN n \o Target ELSE n
  BY LineIs
<1>3. /\ t = IF line.hasYear THEN At(line, line.year, 0) ELSE At(line, InferredYear(line, Now), line.hour)
      /\ t \in Int
  BY ShownOfUnix DEF Shown
<1>4. e = ParseListingLine(line, Now)
  BY DEF Row
<1>5. Legible("unix") <=> ~YearOutside(line)
  <2>1. (line.hasYear <=> ~Recent) /\ line.year = file.date.year
    BY LineIs
  <2>2. file.date.year \in 1970..2200 <=> file.date.year <= 2200
    BY FileDated, SMT
  <2>3. Legible("unix") <=> Recent \/ file.date.year <= 2200
    BY DEF Legible
  <2> DEFINE old == file.date.year \in 1970..2200
  <2> HIDE DEF line
  <2>4. YearOutside(line) <=> line.hasYear /\ ~old
    <3>1. line.year \in 1970..2200 <=> old
      BY <2>1
    <3> HIDE DEF old
    <3> QED
      BY <3>1, SMT DEF YearOutside
  <2> HIDE DEF old
  <2>5. YearOutside(line) <=> ~Recent /\ ~old
    BY <2>1, <2>4
  <2>6. old <=> file.date.year <= 2200
    BY <2>2 DEF old
  <2> QED
    BY <2>3, <2>5, <2>6
<1> HIDE DEF n
<1>6. w \in Seq(Token)
  BY <1>1, <1>2, WithTarget
<1> HIDE DEF line, e, t
<1>7. /\ ~NoFactsLeft(w) => Rest(w) # n
      /\ NoFactsLeft(w) /\ name = n => Carried("unix", kind, n)
      /\ Carried("unix", kind, n) => NoFactsLeft(w) /\ name = n
  <2>1. CASE kind = "link"
    <3>1. w = n \o Target
      BY <1>2, <2>1
    <3>2. /\ NoFactsLeft(w) <=> ~LooksLikeFact(n)
          /\ ~NoFactsLeft(w) => Rest(w) # n
      BY <1>1, <3>1, NamesOfLinks
    <3>3. name = n <=> ~Contains(n, "gap") /\ \A i \in 2..Len(n) : n[i] # "arrow"
      BY <1>1, <3>1, UnixLinks
    <3>4. Carried("unix", kind, n) <=> /\ ~LooksLikeFact(n)
                                       /\ ~Contains(n, "gap") /\ \A i \in 2..Len(n) : n[i] # "arrow"
      BY <2>1 DEF Carried
    <3> QED
      BY <3>2, <3>3, <3>4
  <2>2. CASE kind # "link"
    <3>1. w = n
      BY <1>2, <2>2
    <3>2. /\ ~NoFactsLeft(w) => Rest(w) # n
          /\ ~Contains(n, "gap") => (NoFactsLeft(w) <=> ~LooksLikeFact(n) \/ OnlyFacts(n))
      BY <1>1, <3>1, NamesOfLists
    <3>3. name = n <=> ~Contains(n, "gap") /\ \A i \in 2..Len(n) : n[i] = "arrow" => i = Len(n)
      BY <1>1, <3>1, UnixNames
    <3>4. Carried("unix", kind, n) <=>
            /\ ~LooksLikeFact(n) \/ OnlyFacts(n)
            /\ ~Contains(n, "gap") /\ \A i \in 2..Len(n) : n[i] = "arrow" => i = Len(n)
      BY <2>2 DEF Carried
    <3> QED
      BY <3>2, <3>3, <3>4
  <2> QED
    BY <2>1, <2>2
<1>8. CASE ~NoFactsLeft(w)
  <2>1. e = Facts(line, NoTime) /\ e \in Entries
    BY <1>2, <1>4, <1>6, <1>8, ReadAsFacts
  <2>2. e.name = Rest(w) /\ Rest(w) # <<>>
    BY <1>8, <2>1 DEF Facts, NoFactsLeft
  <2> QED
    BY <1>7, <1>8, <2>1, <2>2 DEF RowIs, n, e, t
<1>9. CASE NoFactsLeft(w) /\ Legible("unix")
  <2>1. /\ name = <<>> => e = NoEntry
        /\ name # <<>> => e = ListLine(line, t) /\ e \in Entries
    BY <1>2, <1>3, <1>4, <1>5, <1>6, <1>9, ReadUnix
  <2>2. ListLine(line, t) = [name |-> name, is_dir |-> isDir, modified |-> t]
    BY <1>2 DEF ListLine
  <2> HIDE DEF name, isDir
  <2>3. e = NoEntry \/ (e \in Entries /\ e.name = name /\ name # <<>>)
    BY <2>1, <2>2
  <2>4. Carried("unix", kind, n) => e = [name |-> n, is_dir |-> isDir, modified |-> t]
    BY <1>1, <1>7, <2>1, <2>2
  <2>5. ~Carried("unix", kind, n) => e = NoEntry \/ e.name # n
    BY <1>7, <1>9, <2>3
  <2> QED
    BY <1>9, <2>3, <2>4, <2>5 DEF RowIs, n, e, t, isDir
<1>10. CASE NoFactsLeft(w) /\ ~Legible("unix")
  <2>1. e = NoEntry
    BY <1>2, <1>3, <1>4, <1>5, <1>6, <1>10, ReadUnix
  <2> QED
    BY <1>10, <2>1 DEF RowIs, n, e, t
<1> QED
  BY <1>8, <1>9, <1>10

LEMMA RowOfWindows ==
    ASSUME ListingInv, file # NoFile, NEW digits \in {2, 4}, NEW kind \in {"file", "dir"},
           NEW style \in {"windows", "windows24"}
    PROVE  RowIs(Row(style, digits, kind), style, digits, kind)
<1> DEFINE line == LineNow(style, digits, kind)
           n == file.name
           e == Row(style, digits, kind)
           t == Shown(style, digits, kind)
<1>1. n \in Seq(Token) /\ n # <<>>
  BY FileNamed
<1>2. line.style = style /\ line.kind = kind /\ line.name = n
  BY LineIs
<1>3. e = ParseListingLine(line, Now)
  BY DEF Row
<1>4. /\ ~NoFactsLeft(n) => Rest(n) # n
      /\ ~Contains(n, "gap") => (NoFactsLeft(n) <=> ~LooksLikeFact(n) \/ OnlyFacts(n))
  BY <1>1, NamesOfLists
<1>5. Carried(style, kind, n) <=> (~LooksLikeFact(n) \/ OnlyFacts(n)) /\ ~Contains(n, "gap")
  BY DEF Carried
<1>6. Joined(n) = n <=> ~Contains(n, "gap")
  BY <1>1, JoinedTyped, JoinedWhole
<1>7. Legible(style) => t \in Int /\ line.hour \in 1..12
  BY ShownOfWindows
<1>8. t = At(line, IF line.year < 100 THEN line.year + 2000 ELSE line.year, HourOf(line))
  BY DEF Shown
<1>9. ~Legible(style) => line.hour \notin 1..12
  <2>1. ~Legible(style) => line.hour = file.hour
    BY LineIs DEF Legible
  <2> HIDE DEF line
  <2> QED
    BY <2>1 DEF Legible
<1> HIDE DEF line, n, e, t
<1>10. CASE ~NoFactsLeft(n)
  <2>1. e = Facts(line, NoTime) /\ e \in Entries
    BY <1>1, <1>2, <1>3, <1>10, ReadAsFacts
  <2>2. e.name = Rest(n) /\ Rest(n) # <<>>
    BY <1>2, <1>10, <2>1 DEF Facts, NoFactsLeft
  <2>3. ~Carried(style, kind, n)
    BY <1>4, <1>5, <1>10
  <2> QED
    BY <1>4, <1>10, <2>1, <2>2, <2>3 DEF RowIs, n, e, t
<1>11. CASE NoFactsLeft(n) /\ Legible(style)
  <2>1. /\ Joined(n) = <<>> => e = NoEntry
        /\ Joined(n) # <<>> => e = DirLine(line, t) /\ e \in Entries
    BY <1>1, <1>2, <1>3, <1>7, <1>8, <1>11, ReadWindows
  <2>2. DirLine(line, t) = [name |-> Joined(n),
                            is_dir |-> kind = "dir" \/ (kind = "link" /\ style = "unix"),
                            modified |-> t]
    BY <1>2 DEF DirLine
  <2>3. e = NoEntry \/ (e \in Entries /\ e.name = Joined(n) /\ Joined(n) # <<>>)
    BY <2>1, <2>2
  <2>4. Joined(n) = n <=> Carried(style, kind, n)
    BY <1>4, <1>5, <1>6, <1>11
  <2> QED
    BY <1>1, <1>11, <2>1, <2>2, <2>3, <2>4 DEF RowIs, n, e, t
<1>12. CASE NoFactsLeft(n) /\ ~Legible(style)
  <2>1. e = NoEntry
    <3>1. line.hour \notin 1..12
      BY <1>9, <1>12
    <3>2. ParseMlsd(line) = NoEntry /\ ParseUnix(line, Now) = NoEntry
      BY <1>1, <1>2, <1>12, MlsdIs, OtherStyles DEF NoFactsLeft
    <3>3. ParseWindows(line) = NoEntry
      BY <3>1, Zenon DEF ParseWindows
    <3> QED
      BY <1>3, <3>2, <3>3 DEF ParseListingLine
  <2> QED
    BY <1>12, <2>1 DEF RowIs, n, e, t
<1> QED
  BY <1>10, <1>11, <1>12

LEMMA RowsAre ==
    ASSUME ListingInv, file # NoFile, NEW digits \in {2, 4}, NEW style \in Styles,
           NEW kind \in KindsIn(style)
    PROVE  RowIs(Row(style, digits, kind), style, digits, kind)
<1>1. style \in {"mlsd", "unix", "windows", "windows24"}
  BY DEF Styles
<1>2. kind \in {"file", "dir", "link"} /\ (style \in {"windows", "windows24"} => kind \in {"file", "dir"})
  BY DEF KindsIn
<1>3. CASE style = "mlsd"
  BY <1>3, RowOfFacts
<1>4. CASE style = "unix"
  BY <1>2, <1>4, RowOfUnix
<1>5. CASE style \in {"windows", "windows24"}
  BY <1>2, <1>5, RowOfWindows
<1> QED
  BY <1>1, <1>3, <1>4, <1>5

\* The lines of the directory itself and its parent are no rows.
LEMMA DotLines ==
    ASSUME ListingInv, file # NoFile, NEW digits, NEW d \in {".", ".."},
           NEW e, e = ParseListingLine(LineOf("mlsd", digits, "dir", <<d>>), Now)
    PROVE  e \in Entries /\ e.name \in {<<".">>, <<"..">>}
<1> DEFINE line == LineOf("mlsd", digits, "dir", <<d>>)
           s == <<d>>
<1>1. /\ line.style = "mlsd" /\ line.name = s /\ line.year = file.date.year
      /\ line.month = file.date.month /\ line.day = file.date.day /\ line.hour = file.hour
  BY DEF LineOf
<1>2. s \in Seq(Token) /\ Len(s) = 1 /\ s[1] = d /\ s # <<>>
  BY DEF Token
<1> HIDE DEF line, s
<1>3. At(line, line.year, line.hour) \in Int
  <2>1. /\ file.date.year \in Int /\ file.date.month \in 1..12 /\ file.date.day \in 1..31
        /\ file.hour \in 0..23
    BY FileDated, SMT
  <2> QED
    BY <1>1, <2>1, TimeTyped DEF At
<1>4. Rest(s) = s
  <2>1. ~LooksLikeFact(s)
    BY <1>2 DEF LooksLikeFact
  <2>2. Head(s) # "gap" /\ Last(s) # "gap"
    BY <1>2 DEF Last
  <2>3. Carried("mlsd", "dir", s)
    BY <2>1, <2>2 DEF Carried
  <2> QED
    BY <1>2, <2>3, NamesBehindFacts
<1>5. e = Facts(line, At(line, line.year, line.hour)) /\ e \in Entries
  <2>1. e = ParseListingLine(line, Now)
    BY DEF line
  <2> QED
    BY <1>1, <1>2, <1>3, <1>4, <2>1, ReadMlsd
<1>6. e.name = s
  BY <1>1, <1>4, <1>5 DEF Facts
<1> QED
  BY <1>5, <1>6 DEF s

\* A file has one row at most.
LEMMA OneRow ==
    ASSUME ListingInv, file # NoFile, NEW digits \in {2, 4}, NEW style \in Styles,
           NEW kind \in KindsIn(style), NEW e
    PROVE  e \in Rows(style, digits, kind) <=>
             /\ e = Row(style, digits, kind) /\ e # NoEntry /\ e.name \notin {<<".">>, <<"..">>}
<1> DEFINE dots == IF style = "mlsd" THEN {LineOf(style, digits, "dir", <<d>>) : d \in {".", ".."}} ELSE {}
           line == LineNow(style, digits, kind)
           read == {ParseListingLine(l, Now) : l \in {line} \cup dots}
<1>1. Lines(style, digits, kind) = {line} \cup dots
  BY Zenon DEF Lines, LineNow
<1>2. Rows(style, digits, kind) = {x \in read \ {NoEntry} : x.name \notin {<<".">>, <<"..">>}}
  BY <1>1, Zenon DEF Rows, ParseLines
<1>3. e \in read <=> e = Row(style, digits, kind) \/ \E l \in dots : e = ParseListingLine(l, Now)
  <2> HIDE DEF line, dots
  <2>1. e \in read <=> \E l \in {line} \cup dots : e = ParseListingLine(l, Now)
    BY Zenon
  <2>2. Row(style, digits, kind) = ParseListingLine(line, Now)
    BY Zenon DEF Row, line
  <2> QED
    BY <2>1, <2>2, Zenon
<1>4. ASSUME NEW l \in dots, e = ParseListingLine(l, Now)
      PROVE  e.name \in {<<".">>, <<"..">>}
  <2>1. PICK d \in {".", ".."} : l = LineOf("mlsd", digits, "dir", <<d>>)
    BY <1>4, Zenon
  <2> QED
    BY <1>4, <2>1, DotLines
<1> HIDE DEF dots, read
<1> QED
  BY <1>2, <1>3, <1>4

-----------------------------------------------------------------------------
(* The theorems.                                                           *)

\* Whatever a server and a name look like: what is listed has a name that can
\* be joined to a path, and a time or none (parse_lines, src/src/ftp/client.rs:180).
THEOREM ListingIsTyped == ListingSpec => []ListingTypeOK
<1>1. ListingInit => ListingInv
  BY ListingStarts
<1>2. ListingInv /\ [ListingNext]_listingVars => ListingInv'
  BY ListingTurns
<1>3. ListingInv => ListingTypeOK
  <2> SUFFICES ASSUME ListingInv
               PROVE  ListingTypeOK
    OBVIOUS
  <2>1. CalendarTypeOK /\ hour \in Hours /\ ahead \in Offsets
    BY DEF ListingInv, CalendarInv
  <2>2. ASSUME file # NoFile
        PROVE  IsDate(file.date) /\ file.hour \in Hours /\ file.time <= WallTime
    BY <2>2, Zenon DEF ListingInv, FileWritten
  <2>3. ASSUME file # NoFile, NEW style \in Styles, NEW kind \in KindsIn(style),
               NEW e \in Rows(style, 2, kind)
        PROVE  e.name \notin {<<>>, <<".">>, <<"..">>} /\ (e.modified = NoTime \/ e.modified \in Int)
    <3>1. e = Row(style, 2, kind) /\ e # NoEntry /\ e.name \notin {<<".">>, <<"..">>}
      BY <2>3, OneRow
    <3>2. e = NoEntry \/ (e \in Entries /\ e.name # <<>>)
      BY <2>3, <3>1, RowsAre DEF RowIs
    <3>3. e.modified \in Int \cup {NoTime}
      BY <3>1, <3>2 DEF Entries
    <3> QED
      BY <3>1, <3>2, <3>3
  <2> QED
    BY <2>1, <2>2, <2>3, Zenon DEF ListingTypeOK
<1> QED
  BY <1>1, <1>2, <1>3, PTL DEF ListingSpec

\* A name comes back exactly if it is Carried, from every style of listing
\* (parse_listing_line_at, src/src/ftp/parser.rs:16).
THEOREM EveryNameComesBack == ListingSpec => []NamesComeBack
<1>1. ListingInit => ListingInv
  BY ListingStarts
<1>2. ListingInv /\ [ListingNext]_listingVars => ListingInv'
  BY ListingTurns
<1>3. ListingInv => NamesComeBack
  <2> SUFFICES ASSUME ListingInv, file # NoFile, NEW style \in Styles, NEW kind \in KindsIn(style)
               PROVE  LET rows == Rows(style, 4, kind)
                      IN  /\ Cardinality(rows) <= 1
                          /\ (\E e \in rows : e.name = file.name)
                               <=> Carried(style, kind, file.name) /\ Legible(style)
    BY Zenon DEF NamesComeBack
  <2> DEFINE row == Row(style, 4, kind)
             rows == Rows(style, 4, kind)
  <2>1. \A e : e \in rows <=> e = row /\ e # NoEntry /\ e.name \notin {<<".">>, <<"..">>}
    BY OneRow
  <2>2. RowIs(row, style, 4, kind)
    BY RowsAre
  <2>3. file.name \notin {<<".">>, <<"..">>}
    BY FileNamed
  <2> HIDE DEF row, rows
  <2>4. Cardinality(rows) <= 1
    <3>1. rows = {} \/ rows = {row}
      BY <2>1
    <3>2. Cardinality({}) = 0 /\ Cardinality({row}) = 1
      BY FS_EmptySet, FS_Singleton
    <3> QED
      BY <3>1, <3>2
  <2>5. (\E e \in rows : e.name = file.name) <=> row # NoEntry /\ row.name = file.name
    BY <2>1, <2>3
  <2>6. row # NoEntry /\ row.name = file.name <=> Carried(style, kind, file.name) /\ Legible(style)
    <3>1. ASSUME Carried(style, kind, file.name), Legible(style)
          PROVE  row # NoEntry /\ row.name = file.name
      <4>1. row = [name |-> file.name, is_dir |-> kind = "dir" \/ (kind = "link" /\ style = "unix"),
                   modified |-> Shown(style, 4, kind)]
        BY <2>2, <3>1 DEF RowIs
      <4>2. row \in Entries
        <5>1. Shown(style, 4, kind) \in Int
          <6>1. style \in {"mlsd", "unix", "windows", "windows24"}
            BY DEF Styles
          <6>2. CASE style = "mlsd"
            BY <6>2, ShownOfFacts
          <6>3. CASE style = "unix"
            BY <6>3, ShownOfUnix
          <6>4. CASE style \in {"windows", "windows24"}
            BY <3>1, <6>4, ShownOfWindows
          <6> QED
            BY <6>1, <6>2, <6>3, <6>4
        <5>2. file.name \in Seq(Token)
          BY FileNamed
        <5> QED
          BY <4>1, <5>1, <5>2 DEF Entries
      <4> QED
        BY <4>1, <4>2, NoEntryIsNone
    <3> QED
      BY <2>2, <3>1 DEF RowIs
  <2> QED
    BY <2>4, <2>5, <2>6 DEF rows
<1> QED
  BY <1>1, <1>2, <1>3, PTL DEF ListingSpec

\* Under its own name a file is shown with the time of the clock that wrote it
\* exactly if the line tells the year (src/src/ftp/parser.rs:55-75): for every
\* calendar day, hour and time zone.
THEOREM EveryDateComesBack == ListingSpec => []DatesComeBack
<1>1. ListingInit => ListingInv
  BY ListingStarts
<1>2. ListingInv /\ [ListingNext]_listingVars => ListingInv'
  BY ListingTurns
<1>3. ListingInv => DatesComeBack
  <2> SUFFICES ASSUME ListingInv, file # NoFile, NEW style \in Styles, NEW digits \in {2, 4},
                      NEW kind \in KindsIn(style), NEW e \in Rows(style, digits, kind),
                      Carried(style, kind, file.name)
               PROVE  /\ e.is_dir <=> kind = "dir" \/ (kind = "link" /\ style = "unix")
                      /\ e.modified = file.time - TimeLost(style) <=> YearKnown(style, digits)
    BY Zenon DEF DatesComeBack
  <2>1. e = Row(style, digits, kind) /\ e # NoEntry
    BY OneRow
  <2>2. RowIs(e, style, digits, kind)
    BY <2>1, RowsAre
  <2>3. Legible(style)
    BY <2>1, <2>2 DEF RowIs
  <2>4. e = [name |-> file.name, is_dir |-> kind = "dir" \/ (kind = "link" /\ style = "unix"),
             modified |-> Shown(style, digits, kind)]
    BY <2>2, <2>3 DEF RowIs
  <2>5. Shown(style, digits, kind) = file.time - TimeLost(style) <=> YearKnown(style, digits)
    <3>1. style \in {"mlsd", "unix", "windows", "windows24"}
      BY DEF Styles
    <3>2. CASE style = "mlsd"
      <4>1. Shown(style, digits, kind) = file.time /\ file.time \in Int
        BY <3>2, ShownOfFacts
      <4>2. TimeLost(style) = 0 /\ YearKnown(style, digits)
        BY <3>2 DEF TimeLost, YearKnown
      <4> QED
        BY <4>1, <4>2
    <3>3. CASE style = "unix"
      BY <3>3, ShownOfUnix
    <3>4. CASE style \in {"windows", "windows24"}
      BY <2>3, <3>4, ShownOfWindows
    <3> QED
      BY <3>1, <3>2, <3>3, <3>4
  <2> QED
    BY <2>4, <2>5
<1> QED
  BY <1>1, <1>2, <1>3, PTL DEF ListingSpec
=============================================================================
