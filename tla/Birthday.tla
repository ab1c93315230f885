------------------------------ MODULE Birthday ------------------------------
(***************************************************************************)
(* birthday.rs and the upcoming_birthdays tool's use of it: BDAY values    *)
(* read as dates, the next occurrence of a birthday, and the list of those *)
(* within a window.  A BDAY value is what the parser looks at: whether it  *)
(* starts with "--", and the digits before its time part.  None of a Rust  *)
(* Option is the empty set, Some(x) is {x}.  Bug... definitions are        *)
(* mistakes the properties would notice; nothing uses them.                *)
(***************************************************************************)
EXTENDS Integers, Sequences, FiniteSetsExt

CONSTANT MaxBirthdayDays    \* MAX_BIRTHDAY_DAYS (366)

ASSUME BirthdayAssumption == MaxBirthdayDays \in 1..366

NoYear == -1         \* a birthday whose card omits the year
Never  == 100000000  \* u32::MAX: more days than any window has
-----------------------------------------------------------------------------
\* chrono's calendar, proleptic Gregorian.
IsLeap(y) == y % 4 = 0 /\ (y % 100 = 0 => y % 400 = 0)

DaysIn(y, m) == IF m = 2 THEN IF IsLeap(y) THEN 29 ELSE 28
                ELSE IF m \in {4, 6, 9, 11} THEN 30 ELSE 31

\* NaiveDate::from_ymd_opt
IsDate(y, m, d) == m \in 1..12 /\ d \in 1..DaysIn(y, m)

DaysBefore == <<0, 31, 59, 90, 120, 151, 181, 212, 243, 273, 304, 334>>

\* The number of a day, so that num_days() is a difference.
DayNumber(y, m, d) ==
  LET p == y - 1
  IN  365 * p + p \div 4 - p \div 100 + p \div 400
        + DaysBefore[m] + (IF m > 2 /\ IsLeap(y) THEN 1 ELSE 0) + d
-----------------------------------------------------------------------------
\* The number two digits make, from one on.
Pair(digits, i) == 10 * digits[i] + digits[i + 1]

\* parse_bday
ParseBday(v) ==
  LET skip == IF v.dashed THEN 0 ELSE 4
      b == [year  |-> IF v.dashed THEN NoYear
                      ELSE 100 * Pair(v.digits, 1) + Pair(v.digits, 3),
            month |-> Pair(v.digits, skip + 1),
            day   |-> Pair(v.digits, skip + 3)]
  IN  IF /\ Len(v.digits) = skip + 4
         /\ IsDate(2024, b.month, b.day)
         /\ b.year # NoYear => IsDate(b.year, b.month, b.day)
      THEN {b} ELSE {}

\* The day number of a birthday in a year: 29 February falls on 1 March in
\* a common year.
OccurrenceIn(b, y) ==
  IF IsDate(y, b.month, b.day) THEN {DayNumber(y, b.month, b.day)}
  ELSE IF b.month = 2 /\ b.day = 29 THEN {DayNumber(y, 3, 1)} ELSE {}

\* The birth year is not looked at.
BugFirstYear(b, today) == today.year

\* The year the search starts with: never one before the birth.
FirstYear(b, today) == Max({b.year, today.year})

\* days_until: this year's occurrence, unless it has passed.
DaysUntil(b, today) ==
  LET t == DayNumber(today.year, today.month, today.day)
      first == FirstYear(b, today)
      ahead(y) == {n \in OccurrenceIn(b, y) : n >= t}
      next == IF ahead(first) # {} THEN ahead(first) ELSE ahead(first + 1)
  IN  IF next = {} THEN Never ELSE (CHOOSE n \in next : TRUE) - t

\* within_window
WithinWindow(b, today, days) == {n \in {DaysUntil(b, today)} : n <= days}

\* turning: the age reached at an occurrence some days ahead.  It falls in
\* the first year of the search or in the one after.
Turning(b, today) ==
  IF b.year = NoYear THEN {}
  ELSE LET first == FirstYear(b, today)
           next == DayNumber(today.year, today.month, today.day)
                     + DaysUntil(b, today)
       IN  {(IF next > DayNumber(first, 12, 31) THEN first + 1 ELSE first)
              - b.year}
-----------------------------------------------------------------------------
\* Sooner first, then by name.
Sooner(x, y) == x.days < y.days \/ (x.days = y.days /\ x.name <= y.name)

\* sort_by is stable: what is equally soon stays in order.  The place of an
\* entry is the number of those that come up to it, itself included.
Precedes(s, i, j) == Sooner(s[i], s[j]) /\ (Sooner(s[j], s[i]) => i <= j)
Place(s, i) == Cardinality({j \in DOMAIN s : Precedes(s, j, i)})
SortBySooner(s) == [n \in DOMAIN s |-> s[CHOOSE i \in DOMAIN s : Place(s, i) = n]]

\* One contact of upcoming_birthdays' loop.  A contact is its href, its name
\* and its BDAY, if it has one.
Consider(found, contact, today, days) ==
  LET seen == [found EXCEPT !.scanned = @ + 1]
      bday == UNION {ParseBday(v) : v \in contact.bday}
      entry(b, n) == [href |-> contact.href, name |-> contact.name,
                      days |-> n, turning |-> Turning(b, today)]
      listed == UNION {{entry(b, n) : n \in WithinWindow(b, today, days)} :
                         b \in bday}
  IN  IF contact.bday # {} /\ bday = {}
      THEN [seen EXCEPT !.unparseable = @ + 1]
      ELSE IF listed = {} THEN seen
      ELSE [seen EXCEPT !.birthdays = Append(@, CHOOSE e \in listed : TRUE)]

\* What the loop has found after each contact.
Found(contacts, today, days) ==
  LET found[n \in 0..Len(contacts)] ==
        IF n = 0 THEN [birthdays |-> <<>>, scanned |-> 0, unparseable |-> 0]
        ELSE Consider(found[n - 1], contacts[n], today, days)
  IN  found

\* The tool, from the contacts of its books in the order they come: None for
\* a window it refuses.
UpcomingBirthdays(contacts, today, days) ==
  IF days = 0 \/ days > MaxBirthdayDays THEN {}
  ELSE LET found == Found(contacts, today, days)[Len(contacts)]
       IN  {[found EXCEPT !.birthdays = SortBySooner(@)]}
=============================================================================
