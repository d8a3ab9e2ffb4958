-------------------------- MODULE TempMonitor_proofs --------------------------
(***************************************************************************)
(* CT60TEMP names the days right from 1980 to 16 June 2064, through leap   *)
(* years and centuries and in 16 bits; a stop is proposed only for a       *)
(* reason, and none that is scheduled is missed.                           *)
(***************************************************************************)
EXTENDS TempMonitor, TLAPS

-----------------------------------------------------------------------------
(* The digits of a year: 400, 100, 4, 1.                                   *)
LEMMA Digits ==
  ASSUME NEW e \in Nat, NEW c \in 0 .. 3, NEW q \in 0 .. 24, NEW r \in 0 .. 3,
         NEW y \in Nat, y = 400 * e + 100 * c + 4 * q + r
  PROVE  /\ DaysBefore(y) = 146097 * e + 36524 * c + 1461 * q + 365 * r
         /\ (y + 1) % 4 = 0 <=> r = 3
         /\ (y + 1) % 100 = 0 <=> r = 3 /\ q = 24
         /\ (y + 1) % 400 = 0 <=> r = 3 /\ q = 24 /\ c = 3
<1>1. y \div 4 = 100 * e + 25 * c + q /\ y % 4 = r
  BY SMT
<1>2. (100 * e + 25 * c + q) \div 25 = 4 * e + c /\ (100 * e + 25 * c + q) % 25 = q
  BY SMT
<1>3. (4 * e + c) \div 4 = e /\ (4 * e + c) % 4 = c
  BY SMT
<1>4. DaysBefore(y) = 146097 * e + 36524 * c + 1461 * q + 365 * r
  <2>1. y \div 100 = 4 * e + c /\ y \div 400 = e
    BY SMT
  <2> QED
    BY <1>1, <2>1, SMT DEF DaysBefore
<1>5. (y + 1) % 4 = 0 <=> r = 3
  BY SMT
<1>6. (y + 1) % 100 = 0 <=> r = 3 /\ q = 24
  BY SMT
<1>7. (y + 1) % 400 = 0 <=> r = 3 /\ q = 24 /\ c = 3
  BY SMT
<1> QED
  BY <1>4, <1>5, <1>6, <1>7, SMT

LEMMA YearDays ==
  ASSUME NEW y \in Nat
  PROVE  /\ DaysBefore(y) \in Nat
         /\ DaysBefore(y + 1) = DaysBefore(y) + (IF Leap(y + 1) THEN 366 ELSE 365)
<1> DEFINE e == y \div 400
           c == (y % 400) \div 100
           q == (y % 100) \div 4
           r == y % 4
<1>1. /\ e \in Nat /\ c \in 0 .. 3 /\ q \in 0 .. 24 /\ r \in 0 .. 3
      /\ y = 400 * e + 100 * c + 4 * q + r
  BY SMT
<1> HIDE DEF e, c, q, r
<1>2. /\ DaysBefore(y) = 146097 * e + 36524 * c + 1461 * q + 365 * r
      /\ (y + 1) % 4 = 0 <=> r = 3
      /\ (y + 1) % 100 = 0 <=> r = 3 /\ q = 24
      /\ (y + 1) % 400 = 0 <=> r = 3 /\ q = 24 /\ c = 3
  <2>1. DaysBefore(y) = 146097 * e + 36524 * c + 1461 * q + 365 * r
    BY <1>1, Digits, SMT
  <2>2. (y + 1) % 4 = 0 <=> r = 3
    BY <1>1, Digits, SMT
  <2>3. (y + 1) % 100 = 0 <=> r = 3 /\ q = 24
    BY <1>1, Digits, SMT
  <2>4. (y + 1) % 400 = 0 <=> r = 3 /\ q = 24 /\ c = 3
    BY <1>1, SMT
  <2> QED
    BY <2>1, <2>2, <2>3, <2>4, SMT
<1>3. CASE r < 3
  <2>1. r + 1 \in 0 .. 3 /\ y + 1 = 400 * e + 100 * c + 4 * q + (r + 1)
    BY <1>1, <1>3, SMT
  <2>2. DaysBefore(y + 1) = 146097 * e + 36524 * c + 1461 * q + 365 * (r + 1)
    BY <1>1, <2>1, Digits, SMT
  <2> QED
    BY <1>1, <1>2, <1>3, <2>2, SMT DEF Leap
<1>4. CASE r = 3 /\ q < 24
  <2>1. q + 1 \in 0 .. 24 /\ 0 \in 0 .. 3 /\ y + 1 = 400 * e + 100 * c + 4 * (q + 1) + 0
    BY <1>1, <1>4, SMT
  <2>2. DaysBefore(y + 1) = 146097 * e + 36524 * c + 1461 * (q + 1) + 365 * 0
    BY <1>1, <2>1, Digits, SMT
  <2> QED
    BY <1>1, <1>2, <1>4, <2>2, SMT DEF Leap
<1>5. CASE r = 3 /\ q = 24 /\ c < 3
  <2>1. c + 1 \in 0 .. 3 /\ 0 \in 0 .. 24 /\ 0 \in 0 .. 3 /\ y + 1 = 400 * e + 100 * (c + 1) + 4 * 0 + 0
    BY <1>1, <1>5, SMT
  <2>2. DaysBefore(y + 1) = 146097 * e + 36524 * (c + 1) + 1461 * 0 + 365 * 0
    BY <1>1, <2>1, Digits, SMT
  <2> QED
    BY <1>1, <1>2, <1>5, <2>2, SMT DEF Leap
<1>6. CASE r = 3 /\ q = 24 /\ c = 3
  <2>1. e + 1 \in Nat /\ 0 \in 0 .. 3 /\ 0 \in 0 .. 24 /\ y + 1 = 400 * (e + 1) + 100 * 0 + 4 * 0 + 0
    BY <1>1, <1>6, SMT
  <2>2. DaysBefore(y + 1) = 146097 * (e + 1) + 36524 * 0 + 1461 * 0 + 365 * 0
    BY <2>1, Digits, SMT
  <2> QED
    BY <1>1, <1>2, <1>6, <2>2, SMT DEF Leap
<1>7. DaysBefore(y) \in Nat
  BY <1>1, <1>2, SMT
<1> QED
  BY <1>1, <1>3, <1>4, <1>5, <1>6, <1>7, SMT

-----------------------------------------------------------------------------
(* The dates the clock shows.                                              *)
IsDate(d) ==
  \E y \in Nat, m \in 1 .. 12, k \in 1 .. 31 : d = <<y + 1, m, k>> /\ k <= MonthDays(y + 1, m)

(* The table, month by month.                                              *)
LEMMA MonthTable ==
  /\ doylookup[1] = 0 /\ doylookup[2] = 31 /\ doylookup[3] = 59 /\ doylookup[4] = 90
  /\ doylookup[5] = 120 /\ doylookup[6] = 151 /\ doylookup[7] = 181 /\ doylookup[8] = 212
  /\ doylookup[9] = 243 /\ doylookup[10] = 273 /\ doylookup[11] = 304 /\ doylookup[12] = 334
<1>1. doylookup[1] = 0 /\ doylookup[2] = 31 /\ doylookup[3] = 59 /\ doylookup[4] = 90
  BY SMT DEF doylookup
<1>2. doylookup[5] = 120 /\ doylookup[6] = 151 /\ doylookup[7] = 181 /\ doylookup[8] = 212
  BY SMT DEF doylookup
<1>3. doylookup[9] = 243 /\ doylookup[10] = 273 /\ doylookup[11] = 304 /\ doylookup[12] = 334
  BY SMT DEF doylookup
<1> QED
  BY <1>1, <1>2, <1>3

(* The table counts the days before a month of a year without 29 February. *)
LEMMA MonthStarts ==
  /\ doylookup[1] = 0 /\ doylookup[12] = 334
  /\ \A m \in 1 .. 12 : doylookup[m] \in Nat
  /\ \A m \in 1 .. 11 :
       doylookup[m + 1] = doylookup[m]
                            + (IF m = 2 THEN 28 ELSE IF m \in {4, 6, 9, 11} THEN 30 ELSE 31)
<1>1. \A m \in 1 .. 12 : doylookup[m] \in Nat
  BY MonthTable, SMT
<1>2. \A m \in 1 .. 11 :
         doylookup[m + 1] = doylookup[m]
                              + (IF m = 2 THEN 28 ELSE IF m \in {4, 6, 9, 11} THEN 30 ELSE 31)
  BY MonthTable, SMT
<1> QED
  BY <1>1, <1>2, MonthTable

(* DayOfYear counts them without a table.                                  *)
LEMMA MonthsOfDays ==
  ASSUME NEW m \in 1 .. 12
  PROVE  /\ (275 * m) \div 9 - 2 * ((m + 9) \div 12) - 30 = doylookup[m]
         /\ (275 * m) \div 9 - (m + 9) \div 12 - 30 = doylookup[m] + (IF m > 2 THEN 1 ELSE 0)
<1> DEFINE n == (275 * m) \div 9
           f == (m + 9) \div 12
<1>1. CASE m \in 1 .. 2
  <2>1. f = 0 /\ (m = 1 => n = 30) /\ (m = 2 => n = 61)
    BY <1>1, SMT
  <2> HIDE DEF n, f
  <2> QED
    BY <1>1, <2>1, MonthTable, SMT DEF n, f
<1>2. CASE m \in 3 .. 7
  <2>1. f = 1
    BY <1>2, SMT
  <2>2. /\ m = 3 => n = 91 
        /\ m = 4 => n = 122
        /\ m = 5 => n = 152
        /\ m = 6 => n = 183
        /\ m = 7 => n = 213
    BY SMT
  <2> HIDE DEF n, f
  <2>3. n - 2 * f - 30 = doylookup[m] /\ n - f - 30 = doylookup[m] + 1
    BY <1>2, <2>1, <2>2, MonthTable, SMT
  <2> QED
    BY <1>2, <2>3, SMT DEF n, f
<1>3. CASE m \in 8 .. 12
  <2>1. f = 1
    BY <1>3, SMT
  <2>2. /\ m = 8 => n = 244
        /\ m = 9 => n = 275
        /\ m = 10 => n = 305
        /\ m = 11 => n = 336
        /\ m = 12 => n = 366
    BY SMT
  <2> HIDE DEF n, f
  <2>3. n - 2 * f - 30 = doylookup[m] /\ n - f - 30 = doylookup[m] + 1
    BY <1>3, <2>1, <2>2, MonthTable, SMT
  <2> QED
    BY <1>3, <2>3, SMT DEF n, f
<1> QED
  BY <1>1, <1>2, <1>3, SMT

(* The number of a day, with the code's table.                             *)
LEMMA TableRight ==
  ASSUME NEW y \in Nat, NEW m \in 1 .. 12, NEW k \in Nat
  PROVE  DayNumber(<<y + 1, m, k>>)
           = DaysBefore(y) + doylookup[m] + (IF Leap(y + 1) /\ m > 2 THEN 1 ELSE 0) + k
<1> DEFINE n == (275 * m) \div 9
           f == (m + 9) \div 12
<1>1. n - 2 * f - 30 = doylookup[m] /\ n - f - 30 = doylookup[m] + (IF m > 2 THEN 1 ELSE 0)
  BY MonthsOfDays
<1>2. n \in Int /\ f \in Int /\ DaysBefore(y) \in Int /\ doylookup[m] \in Nat
  BY SMT, MonthStarts DEF DaysBefore
<1>3. DayNumber(<<y + 1, m, k>>)
        = DaysBefore((y + 1) - 1) + (n - (IF Leap(y + 1) THEN 1 ELSE 2) * f + k - 30)
  BY DEF DayNumber, DayOfYear
<1>4. (y + 1) - 1 = y
  BY SMT
<1> HIDE DEF n, f
<1>5. CASE Leap(y + 1)
  BY <1>1, <1>2, <1>3, <1>4, <1>5, SMT
<1>6. CASE ~Leap(y + 1)
  BY <1>1, <1>2, <1>3, <1>4, <1>6, SMT
<1> QED
  BY <1>5, <1>6

(* Midnight: one day more, on a date again.                                *)
LEMMA Midnight ==
  ASSUME NEW d, IsDate(d)
  PROVE  IsDate(NextDate(d)) /\ DayNumber(d) \in Nat /\ DayNumber(NextDate(d)) = DayNumber(d) + 1
<1>1. PICK y \in Nat, m \in 1 .. 12, k \in 1 .. 31 :
         d = <<y + 1, m, k>> /\ k <= MonthDays(y + 1, m)
  BY DEF IsDate
<1>2. d[1] = y + 1 /\ d[2] = m /\ d[3] = k /\ d[1] - 1 = y
  BY <1>1, SMT
<1>3. DayNumber(d) = DaysBefore(y) + doylookup[m] + (IF Leap(y + 1) /\ m > 2 THEN 1 ELSE 0) + k
  BY <1>1, TableRight
<1>4. DaysBefore(y) \in Nat /\ doylookup[m] \in Nat
  BY YearDays, MonthStarts
<1>5. CASE k < MonthDays(y + 1, m)
  <2>1. NextDate(d) = <<y + 1, m, k + 1>>
    BY <1>2, <1>5 DEF NextDate
  <2>2. k + 1 \in 1 .. 31 /\ k + 1 <= MonthDays(y + 1, m)
    BY <1>5, SMT DEF MonthDays
  <2>3. IsDate(NextDate(d))
    BY <2>1, <2>2 DEF IsDate
  <2>4. DayNumber(<<y + 1, m, k + 1>>)
           = DaysBefore(y) + doylookup[m] + (IF Leap(y + 1) /\ m > 2 THEN 1 ELSE 0) + (k + 1)
    BY <2>2, TableRight
  <2> QED
    BY <1>3, <1>4, <2>1, <2>3, <2>4, SMT
<1>6. CASE k = MonthDays(y + 1, m) /\ m < 12
  <2>1. NextDate(d) = <<y + 1, m + 1, 1>>
    BY <1>2, <1>6, SMT DEF NextDate
  <2>2. m + 1 \in 1 .. 12 /\ 1 <= MonthDays(y + 1, m + 1)
    BY <1>6, SMT DEF MonthDays
  <2>3. IsDate(NextDate(d))
    BY <2>1, <2>2, SMT DEF IsDate
  <2>4. DayNumber(<<y + 1, m + 1, 1>>)
           = DaysBefore(y) + doylookup[m + 1] + (IF Leap(y + 1) /\ m + 1 > 2 THEN 1 ELSE 0) + 1
    BY <2>2, TableRight
  <2>5. doylookup[m + 1] = doylookup[m]
                             + (IF m = 2 THEN 28 ELSE IF m \in {4, 6, 9, 11} THEN 30 ELSE 31)
    BY <1>6, MonthStarts, SMT
  <2>6. doylookup[m + 1] + (IF Leap(y + 1) /\ m + 1 > 2 THEN 1 ELSE 0)
           = doylookup[m] + (IF Leap(y + 1) /\ m > 2 THEN 1 ELSE 0) + k
    BY <1>4, <1>6, <2>5, SMT DEF MonthDays
  <2>7. DayNumber(<<y + 1, m + 1, 1>>) = DaysBefore(y) + (doylookup[m] + (IF Leap(y + 1) /\ m > 2 THEN 1 ELSE 0) + k) + 1
    <3> DEFINE next == IF Leap(y + 1) /\ m + 1 > 2 THEN 1 ELSE 0
               this == IF Leap(y + 1) /\ m > 2 THEN 1 ELSE 0
    <3>1. next \in Nat /\ this \in Nat
      OBVIOUS
    <3>2. doylookup[m + 1] \in Nat
      BY <2>2, MonthStarts
    <3>3. /\ DayNumber(<<y + 1, m + 1, 1>>) = DaysBefore(y) + doylookup[m + 1] + next + 1
          /\ doylookup[m + 1] + next = doylookup[m] + this + k
      BY <2>4, <2>6
    <3> SUFFICES DayNumber(<<y + 1, m + 1, 1>>) = DaysBefore(y) + (doylookup[m] + this + k) + 1
      OBVIOUS
    <3> HIDE DEF next, this
    <3> QED
      BY <1>4, <3>1, <3>2, <3>3, SMT
  <2>8. DayNumber(<<y + 1, m + 1, 1>>) = DayNumber(d) + 1
    <3> DEFINE this == IF Leap(y + 1) /\ m > 2 THEN 1 ELSE 0
    <3>1. this \in Nat /\ DayNumber(d) = DaysBefore(y) + doylookup[m] + this + k
      BY <1>3
    <3>2. DayNumber(<<y + 1, m + 1, 1>>) = DaysBefore(y) + (doylookup[m] + this + k) + 1
      BY <2>7
    <3> HIDE DEF this
    <3> QED
      BY <1>4, <3>1, <3>2, SMT
  <2>9. DayNumber(d) \in Nat
    BY <1>3, <1>4, SMT
  <2> QED
    BY <2>1, <2>3, <2>8, <2>9
<1>7. CASE k = MonthDays(y + 1, m) /\ m = 12
  <2>1. NextDate(d) = <<(y + 1) + 1, 1, 1>>
    BY <1>2, <1>7, SMT DEF NextDate
  <2>2. IsDate(<<(y + 1) + 1, 1, 1>>)
    BY SMT DEF IsDate, MonthDays
  <2>3. DayNumber(<<(y + 1) + 1, 1, 1>>) = DaysBefore(y + 1) + doylookup[1] + 1
    <3>1. y + 1 \in Nat /\ 1 \in 1 .. 12 /\ 1 \in Nat /\ ~(1 > 2)
      BY SMT
    <3>2. DaysBefore(y + 1) \in Nat /\ doylookup[1] \in Nat
      BY YearDays, MonthStarts
    <3>3. DayNumber(<<(y + 1) + 1, 1, 1>>)
            = DaysBefore(y + 1) + doylookup[1] + (IF Leap((y + 1) + 1) /\ 1 > 2 THEN 1 ELSE 0) + 1
      BY <3>1, TableRight
    <3> QED
      BY <3>1, <3>2, <3>3, SMT
  <2>4. k = 31
    BY <1>7, SMT DEF MonthDays
  <2> QED
    BY <1>3, <1>4, <1>7, <2>1, <2>2, <2>3, <2>4, YearDays, MonthStarts, SMT
<1> QED
  BY <1>1, <1>5, <1>6, <1>7, SMT DEF MonthDays

-----------------------------------------------------------------------------
(* The day number wrapped to 16 bits.  From 1980 to 16 June 2064 it is     *)
(* less by 11 * 65536: a number of weeks and one day.                      *)
LEMMA WrapShifts ==
  ASSUME NEW n \in Nat, 720896 <= n, n <= 753663
  PROVE  Rem(Int16(n), 7) \in 0 .. 6 /\ (Rem(Int16(n), 7) + 1) % 7 = n % 7
<1>1. (n + 32768) % 65536 = n - 688128
  BY SMT
<1>2. Int16(n) = n - 720896
  BY <1>1, SMT DEF Int16
<1>3. Rem(Int16(n), 7) = (n - 720896) % 7
  BY <1>2, SMT DEF Rem
<1> QED
  BY <1>3, SMT

(* The days of those years have such numbers.                              *)
LEMMA CountedRange ==
  ASSUME NEW d, IsDate(d), d[1] >= 1980, DayNumber(d) <= DayNumber(<<2064, 6, 16>>)
  PROVE  DayNumber(d) \in Nat /\ 720896 <= DayNumber(d) /\ DayNumber(d) <= 753663
<1>1. PICK y \in Nat, m \in 1 .. 12, k \in 1 .. 31 : d = <<y + 1, m, k>>
  BY DEF IsDate
<1>2. DayNumber(d) = DaysBefore(y) + doylookup[m] + (IF Leap(y + 1) /\ m > 2 THEN 1 ELSE 0) + k
  BY <1>1, TableRight
<1>3. DaysBefore(y) \in Nat /\ doylookup[m] \in Nat
  BY YearDays, MonthStarts
<1>4. DaysBefore(y) >= 720896
  <2>1. y >= 1979
    BY <1>1, SMT
  <2>2. y \div 4 >= y \div 100 /\ y \div 4 \in Nat /\ y \div 100 \in Nat /\ y \div 400 \in Nat
    BY SMT
  <2> QED
    BY <2>1, <2>2, SMT DEF DaysBefore
<1>5. DayNumber(<<2064, 6, 16>>) = 753663
  BY SMT DEF DayNumber, DaysBefore, DayOfYear, Leap
<1>6. DayNumber(d) \in Nat /\ DayNumber(d) >= DaysBefore(y)
  BY <1>2, <1>3, SMT
<1>7. DayNumber(d) <= 753663
  BY <1>5
<1> QED
  BY <1>3, <1>4, <1>6, <1>7, SMT

(* The year taken apart as in dayofweek.                                   *)
LEMMA CodeDigits ==
  ASSUME NEW y \in Nat
  PROVE  \E e \in Nat, c \in 0 .. 3, q \in 0 .. 24, r \in 0 .. 3 :
           /\ y = 400 * e + 100 * c + 4 * q + r
           /\ ((y \div 4) \div 25) \div 4 = e /\ ((y \div 4) \div 25) % 4 = c
           /\ (y \div 4) % 25 = q /\ y % 4 = r
<1>1. PICK p \in Nat, r \in 0 .. 3 : y = 4 * p + r /\ y \div 4 = p /\ y % 4 = r
  BY SMT
<1>2. PICK s \in Nat, q \in 0 .. 24 : p = 25 * s + q /\ p \div 25 = s /\ p % 25 = q
  BY SMT
<1>3. PICK e \in Nat, c \in 0 .. 3 : s = 4 * e + c /\ s \div 4 = e /\ s % 4 = c
  BY SMT
<1>4. y = 400 * e + 100 * c + 4 * q + r
  BY <1>1, <1>2, <1>3, SMT
<1> QED
  BY <1>1, <1>2, <1>3, <1>4

(* dayofweek is the day number, wrapped.                                   *)
LEMMA WeekdayOfNumber ==
  ASSUME NEW d, IsDate(d)
  PROVE  dayofweek(d[1], d[2], d[3]) = Rem(Int16(DayNumber(d)), 7)
<1>1. PICK y \in Nat, m \in 1 .. 12, k \in 1 .. 31 : d = <<y + 1, m, k>>
  BY DEF IsDate
<1>2. d[1] - 1 = y /\ d[1] = y + 1 /\ d[2] = m /\ d[3] = k
  BY <1>1, SMT
<1>3. PICK e \in Nat, c \in 0 .. 3, q \in 0 .. 24, r \in 0 .. 3 :
        /\ y = 400 * e + 100 * c + 4 * q + r
        /\ ((y \div 4) \div 25) \div 4 = e /\ ((y \div 4) \div 25) % 4 = c
        /\ (y \div 4) % 25 = q /\ y % 4 = r
  BY CodeDigits
<1> DEFINE doy  == doylookup[m]
           leap == IF isleapyear(y + 1) /\ m > 2 THEN 1 ELSE 0
           doe  == k + doy + leap + e * (400 * 365 + 97) + c * (100 * 365 + 24)
                     + q * (4 * 365 + 1) + r * 365
<1>4. dayofweek(d[1], d[2], d[3]) = Rem(Int16(doe), 7)
  <2> DEFINE quad == (d[1] - 1) \div 4
             cent == quad \div 25
             code == d[3] + doylookup[d[2]] + (IF isleapyear(d[1]) /\ d[2] > 2 THEN 1 ELSE 0)
                       + (cent \div 4) * (400 * 365 + 97) + (cent % 4) * (100 * 365 + 24)
                       + (quad % 25) * (4 * 365 + 1) + ((d[1] - 1) % 4) * 365
  <2>1. dayofweek(d[1], d[2], d[3]) = Rem(Int16(code), 7)
    BY DEF dayofweek
  <2>2. cent \div 4 = e /\ cent % 4 = c /\ quad % 25 = q /\ (d[1] - 1) % 4 = r
    BY <1>2, <1>3, Zenon
  <2> HIDE DEF quad, cent
  <2>3. code = doe
    BY <1>2, <2>2
  <2> QED
    BY <2>1, <2>3
<1>5. doy \in Nat /\ leap \in Nat /\ k \in Nat
  BY MonthStarts
<1>6. DayNumber(d) = DaysBefore(y) + doy + leap + k
  BY <1>1, TableRight DEF isleapyear, Leap
<1>7. DaysBefore(y) = 146097 * e + 36524 * c + 1461 * q + 365 * r
  <2>1. y = 400 * e + 100 * c + 4 * q + r
    BY <1>3, Zenon
  <2> QED
    BY <2>1, Digits, SMT
<1>8. doe = DayNumber(d)
  <2> HIDE DEF doy, leap
  <2> QED
    BY <1>5, <1>6, <1>7, SMT
<1> HIDE DEF doe
<1> QED
  BY <1>4, <1>8

-----------------------------------------------------------------------------
(* The clock is on a date, with its weekday.                               *)
ClockRight ==
  /\ IsDate(date) /\ date[1] >= 1980
  /\ weekday \in 1 .. 7 /\ weekday % 7 = DayNumber(date) % 7

LEMMA StartsRight == Init => ClockRight
<1> SUFFICES ASSUME Init PROVE ClockRight
  OBVIOUS
<1>1. PICK s \in Starts : date = s[1] /\ weekday = s[2]
  BY DEF Init
<1>2. /\ s[1] = <<s[1][1], s[1][2], s[1][3]>>
      /\ s[1][1] \in 1980 .. 2107 /\ s[1][2] \in 1 .. 12 /\ s[1][3] \in 1 .. MonthDays(s[1][1], s[1][2])
      /\ s[2] \in 1 .. 7 /\ s[2] % 7 = DayNumber(s[1]) % 7
  BY StartsAssumption
<1>3. IsDate(s[1])
  <2>1. MonthDays(s[1][1], s[1][2]) \in 28 .. 31
    BY SMT DEF MonthDays
  <2>2. s[1][1] - 1 \in Nat /\ (s[1][1] - 1) + 1 = s[1][1]
    BY <1>2, SMT
  <2>3. s[1][3] \in 1 .. 31 /\ s[1][3] <= MonthDays(s[1][1], s[1][2])
    BY <1>2, <2>1, SMT
  <2> QED
    BY <1>2, <2>2, <2>3 DEF IsDate
<1>4. s[1][1] >= 1980
  BY <1>2, SMT
<1> QED
  BY <1>1, <1>2, <1>3, <1>4 DEF ClockRight

(* However long the program waits, and through midnight, it stays so.      *)
LEMMA PassRight ==
  ASSUME ClockRight, NEW n, Pass(n)
  PROVE  ClockRight'
<1>1. CASE UNCHANGED <<date, weekday>>
  BY <1>1 DEF ClockRight
<1>2. CASE date' = NextDate(date) /\ weekday' = (weekday % 7) + 1
  <2>1. IsDate(date') /\ DayNumber(date) \in Nat /\ DayNumber(date') = DayNumber(date) + 1
    BY <1>2, Midnight DEF ClockRight
  <2>2. date'[1] >= 1980
    <3>1. PICK y \in Nat, m \in 1 .. 12, k \in 1 .. 31 : date = <<y + 1, m, k>>
      BY DEF ClockRight, IsDate
    <3>2. date'[1] = y + 1 \/ date'[1] = (y + 1) + 1
      BY <1>2, <3>1 DEF NextDate
    <3>3. y + 1 >= 1980
      BY <3>1 DEF ClockRight
    <3> QED
      BY <3>2, <3>3, SMT
  <2>3. weekday' \in 1 .. 7 /\ weekday' % 7 = DayNumber(date') % 7
    BY <1>2, <2>1, SMT DEF ClockRight
  <2> QED
    BY <2>1, <2>2, <2>3 DEF ClockRight
<1> QED
  BY <1>1, <1>2 DEF Pass

LEMMA StandsRight ==
  ASSUME ClockRight, UNCHANGED <<date, weekday>>
  PROVE  ClockRight'
BY DEF ClockRight

(* The turn of the loop: behind its top, old_stop is what stop was found   *)
(* to be; at the top it still is, but in the first turn.                   *)
Turning == {"sense", "sensor", "minute", "alarm", "wait", "about"}
StopKept ==
  /\ pc = "start" => old_time = -1
  /\ pc = "top" => old_time = -1 \/ stop = old_stop
  /\ pc \in Turning => stop = old_stop

(* Every step keeps both.                                                  *)
LEMMA ClockStep ==
  ASSUME ClockRight, [Next]_vars
  PROVE  ClockRight'
<1>2. CASE UNCHANGED <<date, weekday>>
  BY <1>2, StandsRight
<1>3. ASSUME NEW kind, MT_form_xalert(kind)
      PROVE  ClockRight'
  BY <1>3, PassRight DEF MT_form_xalert
<1>4. CASE call_app
  BY <1>2, <1>4, PassRight DEF call_app, NoTime, clockVars
<1>5. CASE NoTime
  BY <1>2, <1>5 DEF NoTime, clockVars
<1>6. ASSUME Monitor
      PROVE  ClockRight'
  <2>1. CASE Start
    BY <1>5, <2>1 DEF Start
  <2>2. CASE Top
    BY <1>2, <1>4, <2>2 DEF Top, clockVars
  <2>3. CASE Ask
    BY <1>3, <2>3 DEF Ask
  <2>4. CASE Halt
    BY <1>5, <2>4 DEF Halt
  <2>5. CASE Sense
    BY <1>5, <2>5 DEF Sense
  <2>6. CASE Overheat
    BY <1>3, <2>6 DEF Overheat
  <2>7. CASE Minute
    BY <1>5, <2>7 DEF Minute
  <2>8. CASE Alarm
    BY <1>3, <2>8 DEF Alarm
  <2>9. CASE Wait
    BY <2>9, PassRight DEF Wait
  <2>10. CASE About
    BY <1>3, <2>10 DEF About
  <2> QED
    BY <1>6, <2>1, <2>2, <2>3, <2>4, <2>5, <2>6, <2>7, <2>8, <2>9, <2>10 DEF Monitor
<1>7. CASE Rearm
  BY <1>3, <1>7 DEF Rearm
<1>8. CASE SensorAlert
  BY <1>8, PassRight DEF SensorAlert
<1>9. ASSUME NEW kind, NEW s, Message(kind, s)
      PROVE  ClockRight'
  BY <1>5, <1>9 DEF Message
<1>10. ASSUME NEW k, PressKey(k)
       PROVE  ClockRight'
  BY <1>2, <1>10 DEF PressKey, clockVars
<1>11. ASSUME NEW s, WriteCookie(s)
       PROVE  ClockRight'
  BY <1>2, <1>11 DEF WriteCookie, clockVars
<1>12. CASE UNCHANGED vars
  BY <1>2, <1>12 DEF vars, clockVars
<1> QED
  BY <1>6, <1>7, <1>8, <1>9, <1>10, <1>11, <1>12 DEF Next

LEMMA StopStep ==
  ASSUME StopKept, [Next]_vars
  PROVE  StopKept'
<1>1. CASE UNCHANGED <<pc, old_time, stop, old_stop>>
  BY <1>1 DEF StopKept
<1>2. CASE pc' \notin {"start", "top"} \cup Turning
  BY <1>2 DEF StopKept
<1>3. CASE pc \in Turning /\ pc' # "start" /\ UNCHANGED <<stop, old_stop>>
  BY <1>3 DEF StopKept
<1>4. ASSUME Monitor
      PROVE  StopKept'
  <2>1. CASE Start
    BY <2>1 DEF Start, StopKept, loopVars, Turning
  <2>2. CASE Top
    <3>1. CASE pc' = "ask"
      BY <1>2, <3>1 DEF Turning
    <3>2. CASE pc' = "sense" /\ old_stop' = OldStop(stop')
      BY <3>2 DEF StopKept, OldStop
    <3> QED
      BY <2>2, <3>1, <3>2 DEF Top
  <2>3. CASE Ask
    <3>1. CASE pc' = "halting"
      BY <1>2, <3>1 DEF Turning
    <3>2. CASE pc' = "sense" /\ old_stop' = OldStop(stop)
      BY <2>3, <3>2 DEF Ask, StopKept, OldStop
    <3> QED
      BY <2>3, <3>1, <3>2 DEF Ask
  <2>4. CASE Halt
    BY <1>2, <2>4 DEF Halt, Turning
  <2>5. CASE Sense
    <3>1. pc = "sense" /\ UNCHANGED <<stop, old_stop>>
      BY <2>5 DEF Sense, loopVars
    <3>2. pc' \in {"sensor", "hot", "minute"}
      BY <2>5 DEF Sense
    <3> QED
      BY <1>3, <3>1, <3>2 DEF Turning
  <2>6. CASE Overheat
    BY <1>2, <2>6 DEF Overheat, Turning
  <2>7. CASE Minute
    <3>1. pc = "minute" /\ UNCHANGED <<stop, old_stop>>
      BY <2>7 DEF Minute
    <3>2. pc' \in {"alarm", "wait"}
      BY <2>7 DEF Minute
    <3> QED
      BY <1>3, <3>1, <3>2 DEF Turning
  <2>8. CASE Alarm
    BY <1>3, <2>8 DEF Alarm, loopVars, Turning
  <2>9. CASE Wait
    BY <1>3, <2>9 DEF Wait, EndTurn, Turning
  <2>10. CASE About
    BY <1>3, <2>10 DEF About, EndTurn, Turning
  <2> QED
    BY <1>4, <2>1, <2>2, <2>3, <2>4, <2>5, <2>6, <2>7, <2>8, <2>9, <2>10 DEF Monitor
<1>5. CASE Rearm
  BY <1>1, <1>5 DEF Rearm, loopVars
<1>6. CASE SensorAlert
  BY <1>3, <1>6 DEF SensorAlert, loopVars, Turning
<1>7. ASSUME NEW kind, NEW s, Message(kind, s)
      PROVE  StopKept'
  BY <1>3, <1>7 DEF Message, EndTurn, Turning
<1>8. ASSUME NEW k, PressKey(k)
      PROVE  StopKept'
  BY <1>1, <1>8 DEF PressKey, loopVars
<1>9. ASSUME NEW s, WriteCookie(s)
      PROVE  StopKept'
  BY <1>1, <1>9 DEF WriteCookie, loopVars
<1>10. CASE UNCHANGED vars
  BY <1>1, <1>10 DEF vars, loopVars
<1> QED
  BY <1>4, <1>5, <1>6, <1>7, <1>8, <1>9, <1>10 DEF Next

-----------------------------------------------------------------------------
(* Until 16 June 2064 the number test_stop compares is the weekday.        *)
LEMMA DayIsWeekday ==
  ASSUME ClockRight, Counted
  PROVE  (dayofweek(date[1], date[2], date[3]) + 1) % 65536 = weekday
<1> DEFINE w == Rem(Int16(DayNumber(date)), 7)
<1>1. DayNumber(date) \in Nat /\ 720896 <= DayNumber(date) /\ DayNumber(date) <= 753663
  <2>1. IsDate(date) /\ date[1] >= 1980 /\ DayNumber(date) <= DayNumber(<<2064, 6, 16>>)
    BY DEF ClockRight, Counted
  <2> QED
    BY <2>1, CountedRange, SMT
<1>2. w \in 0 .. 6 /\ (w + 1) % 7 = weekday % 7 /\ weekday \in 1 .. 7
  BY <1>1, WrapShifts DEF ClockRight
<1>3. dayofweek(date[1], date[2], date[3]) = w
  BY WeekdayOfNumber DEF ClockRight
<1> HIDE DEF w
<1>4. w + 1 = weekday
  BY <1>2, SMT
<1> QED
  BY <1>2, <1>3, <1>4, SMT

(* What a scheduled stop needs: test_stop is true of a day the schedule    *)
(* names.                                                                  *)
LEMMA ScheduleNamesDay ==
  ASSUME ClockRight, Sure, test_stop(date, min, set.daystop, set.timestop)
  PROVE  DueOn(weekday)
<1> DEFINE day == (dayofweek(date[1], date[2], date[3]) + 1) % 65536
<1>1. min = set.timestop
  BY DEF test_stop
<1>2. \/ set.daystop \in 1 .. SUNDAY_STOP /\ day = set.daystop
      \/ set.daystop = WORKDAY_STOP  /\ day \notin {SATURDAY_STOP, SUNDAY_STOP}
      \/ set.daystop = WEEKEND_STOP /\ day \in {SATURDAY_STOP, SUNDAY_STOP}
      \/ set.daystop = EVERYDAY_STOP
  BY DEF test_stop
<1>3. weekday \in 1 .. 7
  BY DEF ClockRight
<1>4. day = weekday \/ set.daystop = EVERYDAY_STOP
  BY DayIsWeekday DEF Sure
<1> HIDE DEF day
<1>5. weekday \in Named(set.daystop)
  BY <1>2, <1>3, <1>4, SMT DEF Named, SATURDAY_STOP, SUNDAY_STOP, WORKDAY_STOP, WEEKEND_STOP, EVERYDAY_STOP
<1> QED
  BY <1>1, <1>5 DEF DueOn

(* AskedForReason: from 1980 to 16 June 2064, and with a schedule of every *)
(* day ever after, the program proposes to stop the machine only on a day  *)
(* and in a minute the schedule names, or after a POWER key, or for a      *)
(* media key in the very first turn: from every date, for every schedule,  *)
(* filter and length of dialogs, in the 16 bits of its day number.         *)
THEOREM AskedOnlyForReason == Spec => AskedForReason
<1>1. Init => ClockRight /\ StopKept
  BY StartsRight DEF Init, StopKept, Turning
<1>2. ClockRight /\ StopKept /\ [Next]_vars => (ClockRight /\ StopKept)'
  BY ClockStep, StopStep
<1>3. ASSUME ClockRight, StopKept, [Next]_vars
      PROVE  [pc # "ask" /\ pc' = "ask" /\ Sure => DueOn(weekday) \/ Reason]_vars
  <2> SUFFICES ASSUME Next, pc # "ask", pc' = "ask", Sure
               PROVE  DueOn(weekday) \/ Reason
    BY <1>3
  <2>1. Top
    <3>1. Monitor \/ pc' = pc
      BY DEF Next, Rearm, SensorAlert, Message, EndTurn, PressKey, WriteCookie
    <3>2. Monitor
      BY <3>1
    <3> QED
      BY <3>2 DEF Monitor, Start, Ask, Halt, Sense, Overheat, Minute, Alarm, Wait, About, EndTurn
  <2>2. stop' /\ ~old_stop
    BY <2>1 DEF Top
  <2>3. CASE key = "POWER"
    BY <2>3 DEF Reason
  <2>4. CASE key = "media"
    <3>1. stop' = stop
      BY <2>1, <2>4 DEF Top
    <3>2. old_time = -1
      BY <1>3, <2>1, <2>2, <3>1 DEF Top, StopKept
    <3> QED
      BY <2>4, <3>2 DEF Reason
  <2>5. CASE key \notin {"POWER", "media"}
    <3>1. stop' = test_stop(date, min, set.daystop, set.timestop)
      BY <2>1, <2>5 DEF Top
    <3> QED
      BY <1>3, <2>2, <3>1, ScheduleNamesDay
  <2> QED
    BY <2>3, <2>4, <2>5
<1>4. Spec => [](ClockRight /\ StopKept)
  BY <1>1, <1>2, PTL DEF Spec
<1> QED
  BY <1>3, <1>4, PTL DEF Spec, AskedForReason

-----------------------------------------------------------------------------
(* No scheduled minute goes by unasked: the converse of ScheduleNamesDay,  *)
(* test_stop is true whenever the schedule is due.                         *)
LEMMA DueIsTested ==
  ASSUME ClockRight, Due
  PROVE  test_stop(date, min, set.daystop, set.timestop)
<1> DEFINE day == (dayofweek(date[1], date[2], date[3]) + 1) % 65536
<1>1. min = set.timestop /\ weekday \in Named(set.daystop)
  BY DEF Due, DueOn
<1>2. day = weekday \/ set.daystop = EVERYDAY_STOP
  BY DayIsWeekday DEF Due, Sure
<1> HIDE DEF day
<1>3. \/ set.daystop \in 1 .. SUNDAY_STOP /\ day = set.daystop
      \/ set.daystop = WORKDAY_STOP  /\ day \notin {SATURDAY_STOP, SUNDAY_STOP}
      \/ set.daystop = WEEKEND_STOP /\ day \in {SATURDAY_STOP, SUNDAY_STOP}
      \/ set.daystop = EVERYDAY_STOP
  BY <1>1, <1>2, SMT DEF Named, SATURDAY_STOP, SUNDAY_STOP, WORKDAY_STOP, WEEKEND_STOP, EVERYDAY_STOP
<1> QED
  BY <1>1, <1>3 DEF test_stop, day

(* The clock's minute and slot, the quiet of a run nobody disturbs, and    *)
(* what it guarantees: a turn reaches at most into the minute after the    *)
(* one it read, so early that no dialog left to it can cross into a third; *)
(* and what it found due it asked about in that minute.                    *)
MinuteTyped == min \in 0 .. Minutes - 1 /\ slot \in 0 .. MinuteSlots - 1

Undisturbed ==
  /\ key = "none" /\ pc \notin {"sensor", "about"} /\ cookie \in Setting
  /\ pc # "start" /\ ~machine.app /\ machine.xbios =>
       set.daystop = cookie.daystop /\ set.timestop = cookie.timestop

OneMinuteOn ==
  /\ pc = "ask" => min = time
  /\ pc \in {"sense", "minute", "alarm"} /\ min # time => slot < AskSlots
  /\ pc = "wait" /\ min # time => slot < AskSlots + AlarmSlots

AskedOfDue ==
  /\ pc \in {"ask", "sense", "minute", "alarm", "wait"} /\ min = time /\ Due => asked
  /\ pc = "start" => ~old_stop
  /\ pc = "ask" => time = set.timestop /\ asked
  /\ pc \in {"top", "sense", "minute", "alarm", "wait"} /\ old_stop =>
       time = set.timestop /\ (min = time => asked)

Scheduled == ~disturbed => Undisturbed /\ OneMinuteOn /\ AskedOfDue

(* One slot count too many, by less than a minute's: the remainder.        *)
LEMMA OneMinuteLess ==
  ASSUME NEW M \in Nat, M > 0, NEW x \in Int, x >= M, x < M + M
  PROVE  x % M = x - M
<1> DEFINE q == x \div M
           r == x % M
<1>1. q \in Int /\ r \in Int /\ 0 <= r /\ r < M /\ x = M * q + r
  BY SMT
<1> HIDE DEF q, r
<1>2. q < 2
  BY <1>1, SMT
<1>3. q > 0
  BY <1>1, SMT
<1>4. q = 1
  BY <1>1, <1>2, <1>3, SMT
<1>5. M * q = M
  BY <1>4, SMT
<1> QED
  BY <1>1, <1>5, SMT DEF r

(* A wait of at most a minute's slots: the minute stays, with the day and  *)
(* what was asked in it, or the next one has lasted only for the slots *)
(* left over.                                                              *)
LEMMA PassSlots ==
  ASSUME MinuteTyped, NEW n \in 0 .. MinuteSlots, Pass(n)
  PROVE  /\ MinuteTyped'
         /\ min' # min => slot' = slot + n - MinuteSlots
         /\ min' = min => /\ slot' <= slot + n /\ date' = date /\ weekday' = weekday
                          /\ (asked' <=> asked)
<1>1. /\ Minutes \in Nat /\ Minutes > 1 /\ MinuteSlots \in Nat /\ MinuteSlots > 0
      /\ min \in 0 .. Minutes - 1 /\ slot \in 0 .. MinuteSlots - 1
  BY TempAssumption, SMT DEF MinuteTyped
<1>2. (min + 1) % Minutes \in 0 .. Minutes - 1 /\ (min + 1) % Minutes # min
  BY <1>1, SMT
<1>3. CASE slot + n >= MinuteSlots /\ LastMinute
  <2>1. slot' = MinuteSlots - 1 /\ UNCHANGED <<min, date, weekday, asked>>
    BY <1>3 DEF Pass
  <2> QED
    BY <1>1, <1>3, <2>1, SMT DEF MinuteTyped
<1>4. CASE slot + n >= MinuteSlots /\ ~LastMinute
  <2>1. slot' = (slot + n) % MinuteSlots /\ min' = (min + 1) % Minutes
    BY <1>4 DEF Pass
  <2>2. (slot + n) % MinuteSlots = slot + n - MinuteSlots
    <3>1. /\ slot + n \in Int /\ slot + n >= MinuteSlots
          /\ slot + n < MinuteSlots + MinuteSlots
      BY <1>1, <1>4, SMT
    <3> QED
      BY <1>1, <3>1, OneMinuteLess
  <2> QED
    BY <1>1, <1>2, <1>4, <2>1, <2>2, SMT DEF MinuteTyped
<1>5. CASE ~(slot + n >= MinuteSlots)
  <2>1. slot' = (slot + n) % MinuteSlots /\ UNCHANGED <<min, date, weekday>> /\ (asked' <=> asked)
    BY <1>5 DEF Pass
  <2>2. (slot + n) % MinuteSlots = slot + n
    BY <1>1, <1>5, SMT
  <2> QED
    BY <1>1, <1>5, <2>1, <2>2, SMT DEF MinuteTyped
<1> QED
  BY <1>3, <1>4, <1>5

(* How much a dialog of the undisturbed loop may last.                     *)
LEMMA DialogSlots ==
  /\ AskSlots \in Nat /\ AlarmSlots \in Nat /\ MinuteSlots \in Nat /\ MinuteSlots > 0
  /\ AskSlots + AlarmSlots < MinuteSlots
  /\ MT_form_xalert("ask") => \E n \in 0 .. AskSlots : Pass(n)
  /\ MT_form_xalert("alarm") => \E n \in 0 .. AlarmSlots : Pass(n)
  /\ \A kind : MT_form_xalert(kind) => \E n \in 0 .. MinuteSlots : Pass(n)
<1>1. /\ AskSlots \in 0 .. MinuteSlots - 1 /\ AlarmSlots \in 0 .. MinuteSlots - 1
      /\ HotSlots \in 0 .. MinuteSlots - 1 /\ MinuteSlots \in Nat /\ MinuteSlots > 0
      /\ AskSlots + AlarmSlots < MinuteSlots
  BY TempAssumption
<1>2. \A kind : TimeOut(kind) \in {AskSlots, AlarmSlots, HotSlots}
  BY DEF TimeOut
<1>3. \A kind : \A n \in 0 .. TimeOut(kind) : n \in 0 .. MinuteSlots
  BY <1>1, <1>2, SMT
<1>4. TimeOut("ask") = AskSlots /\ TimeOut("alarm") = AlarmSlots
  BY DEF TimeOut
<1> QED
  BY <1>1, <1>3, <1>4 DEF MT_form_xalert

(* What is due stays so while the clock shows the same minute of the day.  *)
LEMMA DueStays ==
  ASSUME min' = min, date' = date, weekday' = weekday, set' = set
  PROVE  Due' <=> Due
BY DEF Due, DueOn, Sure, Counted

(* Every step keeps the clock in its day.                                  *)
LEMMA MinuteStep ==
  ASSUME MinuteTyped, [Next]_vars
  PROVE  MinuteTyped'
<1>1. CASE UNCHANGED <<min, slot>>
  BY <1>1 DEF MinuteTyped
<1>2. CASE NoTime
  BY <1>1, <1>2 DEF NoTime, clockVars
<1>3. ASSUME NEW kind, MT_form_xalert(kind)
      PROVE  MinuteTyped'
  BY <1>3, DialogSlots, PassSlots
<1>4. ASSUME NEW n \in 0 .. 1, Pass(n)
      PROVE  MinuteTyped'
  <2>1. n \in 0 .. MinuteSlots
    BY DialogSlots
  <2> QED
    BY <1>4, <2>1, PassSlots
<1>5. CASE Top
  BY <1>1, <1>2, <1>4, <1>5 DEF Top, call_app, clockVars
<1>6. CASE SensorAlert
  <2>1. PICK n \in 0 .. MinuteSlots - 1 : Pass(n)
    BY <1>6 DEF SensorAlert
  <2>2. n \in 0 .. MinuteSlots
    BY <2>1, DialogSlots
  <2> QED
    BY <2>1, <2>2, PassSlots
<1>7. CASE Start \/ Halt \/ Sense \/ Minute
  BY <1>2, <1>7 DEF Start, Halt, Sense, Minute
<1>8. CASE Ask \/ Overheat \/ Alarm \/ About \/ Rearm
  BY <1>3, <1>8 DEF Ask, Overheat, Alarm, About, Rearm
<1>9. CASE Wait
  BY <1>4, <1>9 DEF Wait
<1>10. ASSUME NEW kind, NEW s, Message(kind, s)
       PROVE  MinuteTyped'
  BY <1>2, <1>10 DEF Message
<1>11. ASSUME NEW k, PressKey(k)
       PROVE  MinuteTyped'
  BY <1>1, <1>11 DEF PressKey, clockVars
<1>12. ASSUME NEW s, WriteCookie(s)
       PROVE  MinuteTyped'
  BY <1>1, <1>12 DEF WriteCookie, clockVars
<1>13. CASE UNCHANGED vars
  BY <1>1, <1>13 DEF vars, clockVars
<1> QED
  BY <1>5, <1>6, <1>7, <1>8, <1>9, <1>10, <1>11, <1>12, <1>13 DEF Next, Monitor

(* The steps of the undisturbed loop keep it.  Start: the settings are     *)
(* those of the cookie, and nothing was asked.                             *)
LEMMA StartKeeps ==
  ASSUME Scheduled, Start
  PROVE  Scheduled'
<1> SUFFICES ASSUME ~disturbed'
             PROVE  (Undisturbed /\ OneMinuteOn /\ AskedOfDue)'
  BY DEF Scheduled
<1>1. Undisturbed /\ AskedOfDue
  BY DEF Start, Scheduled
<1>2. pc = "start" /\ pc' \in {"top", "ended", "nocard"} /\ UNCHANGED <<machine, cookie, key, old_stop>>
  BY DEF Start, loopVars
<1>3. ~machine.app /\ machine.xbios =>
        set'.daystop = cookie.daystop /\ set'.timestop = cookie.timestop
  <2>1. ASSUME ~machine.app, machine.xbios
        PROVE  set' = [cookie EXCEPT !.trigger = IF @ = 0 THEN DefaultTrigger ELSE @]
    BY <2>1 DEF Start
  <2>2. cookie \in Setting
    BY <1>1 DEF Undisturbed
  <2> QED
    BY <2>1, <2>2 DEF Setting
<1>4. Undisturbed'
  BY <1>1, <1>2, <1>3 DEF Undisturbed
<1> QED
  BY <1>1, <1>2, <1>4 DEF AskedOfDue, OneMinuteOn

(* test_stop is false outside its minute.                                  *)
LEMMA MinuteIsTested ==
  ASSUME NEW d, NEW m, NEW daystop, NEW timestop, test_stop(d, m, daystop, timestop)
  PROVE  m = timestop
BY SMT DEF test_stop

(* Top: what is due now, and was not in this same minute, is asked.        *)
LEMMA TopKeeps ==
  ASSUME Scheduled, ClockRight, MinuteTyped, Top
  PROVE  Scheduled'
<1> SUFFICES ASSUME ~disturbed'
             PROVE  (Undisturbed /\ OneMinuteOn /\ AskedOfDue)'
  BY DEF Scheduled
<1>1. Undisturbed /\ AskedOfDue
  BY DEF Top, Scheduled
<1>2. /\ pc = "top" /\ key' = "none" /\ time' = min
      /\ UNCHANGED <<machine, set, cookie>>
  BY DEF Top, setVars
<1>3. /\ stop' = test_stop(date, min, set.daystop, set.timestop)
      /\ UNCHANGED clockVars /\ asked' = (asked \/ pc' = "ask")
  BY <1>1 DEF Top, Undisturbed
<1>4. UNCHANGED <<min, date, weekday>>
  BY <1>3 DEF clockVars
<1>5. Due => stop'
  BY <1>3, DueIsTested
<1>6. stop' => min = set.timestop
  BY <1>3, MinuteIsTested
<1>7. /\ pc' \in {"ask", "sense"}
      /\ pc' = "ask" <=> stop' /\ ~old_stop
      /\ pc' = "sense" => old_stop' = stop'
  BY DEF Top, OldStop
<1>8. stop' => asked'
  <2>1. CASE old_stop
    <3>1. time = set.timestop /\ (min = time => asked)
      BY <1>1, <1>2, <2>1, Zenon DEF AskedOfDue
    <3>2. stop' => asked
      BY <1>6, <3>1, Zenon
    <3> QED
      BY <1>3, <3>2, Zenon
  <2>2. CASE ~old_stop
    BY <1>3, <1>7, <2>2, Zenon
  <2> QED
    BY <2>1, <2>2
<1>9. Undisturbed'
  BY <1>1, <1>2, <1>7 DEF Undisturbed
<1>10. OneMinuteOn'
  BY <1>2, <1>4, <1>7 DEF OneMinuteOn
<1>11. AskedOfDue'
  <2>1. Due' => asked'
    BY <1>2, <1>4, <1>5, <1>8, DueStays
  <2>2. pc' = "ask" => time' = set'.timestop /\ asked'
    BY <1>2, <1>6, <1>7, <1>8
  <2>3. pc' = "sense" /\ old_stop' => time' = set'.timestop /\ asked'
    BY <1>2, <1>6, <1>7, <1>8
  <2> QED
    BY <1>7, <2>1, <2>2, <2>3 DEF AskedOfDue
<1> QED
  BY <1>9, <1>10, <1>11

(* The dialog of the question: it begins in the minute the turn read.      *)
LEMMA AskKeeps ==
  ASSUME Scheduled, MinuteTyped, Ask
  PROVE  Scheduled'
<1> SUFFICES ASSUME ~disturbed'
             PROVE  (Undisturbed /\ OneMinuteOn /\ AskedOfDue)'
  BY DEF Scheduled
<1>1. Undisturbed /\ OneMinuteOn /\ AskedOfDue
  BY DEF Ask, Scheduled
<1>2. /\ pc = "ask" /\ pc' \in {"halting", "sense"}
      /\ UNCHANGED <<machine, set, cookie, key, time>>
  BY DEF Ask, setVars
<1>3. min = time /\ time = set.timestop /\ asked
  BY <1>1, <1>2 DEF OneMinuteOn, AskedOfDue
<1>4. PICK n \in 0 .. AskSlots : Pass(n)
  BY DialogSlots DEF Ask
<1>5. n \in 0 .. MinuteSlots
  BY DialogSlots
<1>6. /\ MinuteTyped'
      /\ min' # min => slot' = slot + n - MinuteSlots
      /\ min' = min => date' = date /\ weekday' = weekday /\ (asked' <=> asked)
  BY <1>4, <1>5, PassSlots
<1>7. min' # min => slot' < AskSlots
  <2>1. slot <= MinuteSlots - 1 /\ slot \in Int /\ n <= AskSlots /\ n \in Int
    BY <1>4, DialogSlots DEF MinuteTyped
  <2> QED
    BY <1>6, <2>1, DialogSlots
<1>8. Undisturbed'
  BY <1>1, <1>2 DEF Undisturbed
<1>9. OneMinuteOn'
  BY <1>2, <1>3, <1>7 DEF OneMinuteOn
<1>10. AskedOfDue'
  BY <1>2, <1>3, <1>6 DEF AskedOfDue
<1> QED
  BY <1>8, <1>9, <1>10

(* The steps in which no time passes and stop is not looked at.            *)
LEMMA StandKeeps ==
  ASSUME Scheduled, MinuteTyped, Sense \/ Minute \/ Halt
  PROVE  Scheduled'
<1> SUFFICES ASSUME ~disturbed'
             PROVE  (Undisturbed /\ OneMinuteOn /\ AskedOfDue)'
  BY DEF Scheduled
<1>1. ~disturbed /\ pc' # "sensor"
  <2>1. CASE Sense
    BY <2>1, Zenon DEF Sense
  <2>2. CASE Minute
    <3>1. disturbed' = disturbed /\ pc' \in {"alarm", "wait"}
      BY <2>2 DEF Minute
    <3> QED
      BY <3>1
  <2>3. CASE Halt
    <3>1. disturbed' = disturbed /\ pc' = "halted"
      BY <2>3 DEF Halt
    <3> QED
      BY <3>1
  <2> QED
    BY <2>1, <2>2, <2>3
<1>2. Undisturbed /\ OneMinuteOn /\ AskedOfDue
  BY <1>1 DEF Scheduled
<1>3. /\ UNCHANGED <<machine, set, cookie, key, time, old_stop>>
      /\ UNCHANGED <<min, slot, date, weekday, asked>>
  BY DEF Sense, Minute, Halt, NoTime, setVars, loopVars, clockVars
<1>4. Due' <=> Due
  BY <1>3, DueStays
<1>5. \/ pc = "sense" /\ pc' \in {"hot", "minute"}
      \/ pc = "minute" /\ pc' \in {"alarm", "wait"}
      \/ pc = "halting" /\ pc' = "halted"
  BY <1>1 DEF Sense, Minute, Halt
<1>6. Undisturbed'
  BY <1>2, <1>3, <1>5 DEF Undisturbed
<1>7. OneMinuteOn'
  <2>1. slot < AskSlots => slot < AskSlots + AlarmSlots
    BY DialogSlots DEF MinuteTyped
  <2> QED
    BY <1>2, <1>3, <1>5, <2>1 DEF OneMinuteOn
<1>8. AskedOfDue'
  BY <1>2, <1>3, <1>4, <1>5 DEF AskedOfDue
<1> QED
  BY <1>6, <1>7, <1>8

(* The alarm: a minute begun in this turn is not over at its end.          *)
LEMMA AlarmKeeps ==
  ASSUME Scheduled, MinuteTyped, Alarm
  PROVE  Scheduled'
<1> SUFFICES ASSUME ~disturbed'
             PROVE  (Undisturbed /\ OneMinuteOn /\ AskedOfDue)'
  BY DEF Scheduled
<1>1. Undisturbed /\ OneMinuteOn /\ AskedOfDue
  BY DEF Alarm, Scheduled
<1>2. /\ pc = "alarm" /\ pc' = "wait"
      /\ UNCHANGED <<machine, set, cookie, key, time, old_stop>>
  BY DEF Alarm, setVars, loopVars
<1>3. PICK n \in 0 .. AlarmSlots : Pass(n)
  BY <1>2, DialogSlots DEF Alarm
<1>4. n \in 0 .. MinuteSlots
  BY DialogSlots
<1>5. /\ MinuteTyped'
      /\ min' # min => slot' = slot + n - MinuteSlots
      /\ min' = min => /\ slot' <= slot + n /\ date' = date /\ weekday' = weekday
                        /\ (asked' <=> asked)
  BY <1>3, <1>4, PassSlots
<1>6. /\ slot \in Int /\ slot' \in Int /\ slot <= MinuteSlots - 1 /\ slot' >= 0
      /\ n \in Int /\ n >= 0 /\ n <= AlarmSlots
  BY <1>3, <1>5, DialogSlots DEF MinuteTyped
<1>7. min # time => slot < AskSlots
  BY <1>1, <1>2 DEF OneMinuteOn
<1>8. min' # min => min = time /\ slot' < AskSlots + AlarmSlots
  BY <1>5, <1>6, <1>7, DialogSlots
<1>9. min' # time => slot' < AskSlots + AlarmSlots
  BY <1>5, <1>6, <1>7, <1>8, DialogSlots
<1>10. Undisturbed'
  BY <1>1, <1>2 DEF Undisturbed
<1>11. OneMinuteOn'
  BY <1>2, <1>9 DEF OneMinuteOn
<1>12. AskedOfDue'
  <2>1. ASSUME min' = time
        PROVE  min' = min /\ (Due' <=> Due) /\ (asked' <=> asked)
    BY <1>2, <1>5, <1>8, <2>1, DueStays
  <2>2. pc' = "wait" /\ set' = set /\ time' = time /\ old_stop' = old_stop
    BY <1>2
  <2>3. old_stop => time = set.timestop /\ (min = time => asked)
    BY <1>1, <1>2, Zenon DEF AskedOfDue
  <2>4. min = time /\ Due => asked
    BY <1>1, <1>2, Zenon DEF AskedOfDue
  <2>5. min' = time' /\ Due' => asked'
    BY <2>1, <2>2, <2>4
  <2>6. old_stop' => time' = set'.timestop /\ (min' = time' => asked')
    BY <2>1, <2>2, <2>3
  <2> QED
    BY <2>2, <2>5, <2>6 DEF AskedOfDue
<1> QED
  BY <1>10, <1>11, <1>12

(* The event call that ends the turn: the accessory takes the settings of  *)
(* the cookie again, which are the ones it has.                            *)
LEMMA WaitKeeps ==
  ASSUME Scheduled, MinuteTyped, Wait
  PROVE  Scheduled'
<1> SUFFICES ASSUME ~disturbed'
             PROVE  (Undisturbed /\ OneMinuteOn /\ AskedOfDue)'
  BY DEF Scheduled
<1>1. Undisturbed /\ OneMinuteOn /\ AskedOfDue
  BY DEF Wait, Scheduled
<1>2. /\ pc = "wait" /\ pc' \in {"top", "ended"}
      /\ UNCHANGED <<machine, cookie, key, time, old_stop>>
  BY DEF Wait, EndTurn
<1>3. set'.daystop = set.daystop /\ set'.timestop = set.timestop
  BY <1>1, <1>2 DEF Wait, FollowCookie, Undisturbed
<1>4. PICK n \in 0 .. 1 : Pass(n)
  BY DEF Wait
<1>5. n \in 0 .. MinuteSlots
  BY DialogSlots
<1>6. min' = min => (asked' <=> asked)
  BY <1>4, <1>5, PassSlots
<1>7. min' # min => min = time
  <2>1. min # time => slot < AskSlots + AlarmSlots
    BY <1>1, <1>2 DEF OneMinuteOn
  <2>2. MinuteTyped' /\ (min' # min => slot' = slot + n - MinuteSlots)
    BY <1>4, <1>5, PassSlots
  <2>3. slot \in Int /\ slot' \in Int /\ slot' >= 0 /\ n \in Int /\ n <= 1
    BY <2>2, <1>4, DialogSlots DEF MinuteTyped
  <2> QED
    BY <2>1, <2>2, <2>3, DialogSlots
<1>8. Undisturbed'
  <2>1. ~machine.app /\ machine.xbios =>
          set.daystop = cookie.daystop /\ set.timestop = cookie.timestop
    BY <1>1, <1>2 DEF Undisturbed
  <2>2. key = "none" /\ cookie \in Setting
    BY <1>1 DEF Undisturbed
  <2> QED
    BY <1>2, <1>3, <2>1, <2>2 DEF Undisturbed
<1>9. OneMinuteOn'
  BY <1>2 DEF OneMinuteOn
<1>10. AskedOfDue'
  <2>1. old_stop => time = set.timestop /\ (min = time => asked)
    BY <1>1, <1>2, Zenon DEF AskedOfDue
  <2>2. old_stop' => time' = set'.timestop /\ (min' = time' => asked')
    BY <1>2, <1>3, <1>6, <1>7, <2>1
  <2> QED
    BY <1>2, <2>2 DEF AskedOfDue
<1> QED
  BY <1>8, <1>9, <1>10

(* Every step keeps it: what comes from the outside disturbs the run.      *)
LEMMA ScheduledStep ==
  ASSUME Scheduled, ClockRight, MinuteTyped, [Next]_vars
  PROVE  Scheduled'
<1>1. CASE disturbed'
  BY <1>1 DEF Scheduled
<1>2. CASE Overheat
  <2> SUFFICES ASSUME ~disturbed'
               PROVE  (Undisturbed /\ OneMinuteOn /\ AskedOfDue)'
    BY DEF Scheduled
  <2>1. Undisturbed
    BY <1>2 DEF Overheat, Scheduled
  <2>2. pc = "hot" /\ pc' = "halting" /\ UNCHANGED <<machine, set, cookie, key>>
    BY <1>2 DEF Overheat, setVars
  <2>3. Undisturbed'
    BY <2>1, <2>2 DEF Undisturbed
  <2> QED
    BY <2>2, <2>3 DEF OneMinuteOn, AskedOfDue
<1>3. CASE SensorAlert \/ About
  <2>1. disturbed
    BY <1>3 DEF SensorAlert, About, Scheduled, Undisturbed
  <2> QED
    BY <1>1, <1>3, <2>1 DEF SensorAlert, About
<1>4. CASE Rearm
  BY <1>1, <1>4 DEF Rearm
<1>5. ASSUME NEW kind, NEW s, Message(kind, s)
      PROVE  Scheduled'
  BY <1>1, <1>5 DEF Message
<1>6. ASSUME NEW k, PressKey(k)
      PROVE  Scheduled'
  BY <1>1, <1>6 DEF PressKey
<1>7. ASSUME NEW s, WriteCookie(s)
      PROVE  Scheduled'
  BY <1>1, <1>7 DEF WriteCookie
<1>8. CASE UNCHANGED vars
  <2>1. /\ UNCHANGED <<machine, set, cookie, key, time, old_stop, disturbed, pc>>
        /\ UNCHANGED <<min, slot, date, weekday, asked>>
    BY <1>8 DEF vars, clockVars, setVars, loopVars
  <2>2. Due' <=> Due
    BY <2>1, DueStays
  <2> QED
    BY <2>1, <2>2 DEF Scheduled, Undisturbed, OneMinuteOn, AskedOfDue
<1>9. CASE Monitor
  BY <1>2, <1>3, <1>9, StartKeeps, TopKeeps, AskKeeps, StandKeeps, AlarmKeeps, WaitKeeps
     DEF Monitor
<1> QED
  BY <1>3, <1>4, <1>5, <1>6, <1>7, <1>8, <1>9 DEF Next

(* ScheduledAsked: as long as nobody presses a key, sends a message or     *)
(* leaves a dialog open, no minute of a scheduled stop goes by without the *)
(* question (a schedule of single days until 16 June 2064), through        *)
(* midnight and the settings an accessory takes over, from every date, for *)
(* every schedule and all lengths of the dialogs that leave a turn shorter *)
(* than a minute.                                                          *)
THEOREM NoStopMissed == Spec => ScheduledAsked
<1> DEFINE I == ClockRight /\ MinuteTyped /\ Scheduled
<1>1. Init => I
  <2> SUFFICES ASSUME Init
               PROVE  MinuteTyped /\ Scheduled
    BY StartsRight
  <2>1. MinuteTyped
    <3>1. min \in 0 .. Minutes - 1
      BY StartsAssumption DEF Init
    <3> QED
      BY <3>1, DialogSlots DEF Init, MinuteTyped
  <2>2. cookie \in Setting
    BY TempAssumption DEF Init
  <2> QED
    BY <2>1, <2>2 DEF Init, Scheduled, Undisturbed, OneMinuteOn, AskedOfDue
<1>2. I /\ [Next]_vars => I'
  BY ClockStep, MinuteStep, ScheduledStep
<1>3. ASSUME I, [Next]_vars
      PROVE  [min' # min /\ Due /\ pc \notin {"start", "hot", "halting"} \cup Stopped =>
                asked \/ disturbed]_vars
  <2> SUFFICES ASSUME Next, min' # min, Due, ~disturbed,
                      pc \notin {"start", "hot", "halting"} \cup Stopped
               PROVE  asked
    BY <1>3
  <2>1. Undisturbed /\ OneMinuteOn /\ AskedOfDue
    BY <1>3 DEF Scheduled
  <2>2. CASE pc = "ask"
    BY <2>1, <2>2 DEF AskedOfDue
  <2>3. ASSUME min = time, pc \in {"alarm", "wait"}
        PROVE  asked
    BY <2>1, <2>3, Zenon DEF AskedOfDue
  <2>4. ASSUME pc = "alarm", MT_form_xalert("alarm")
        PROVE  asked
    <3>1. PICK n \in 0 .. AlarmSlots : Pass(n)
      BY <2>4, DialogSlots
    <3>2. n \in 0 .. MinuteSlots
      BY DialogSlots
    <3>3. MinuteTyped' /\ slot' = slot + n - MinuteSlots
      BY <1>3, <3>1, <3>2, PassSlots
    <3>4. slot \in Int /\ slot' \in Int /\ slot' >= 0 /\ n \in Int /\ n <= AlarmSlots
      BY <1>3, <3>1, <3>3, DialogSlots DEF MinuteTyped
    <3>5. ~(slot < AskSlots)
      BY <3>3, <3>4, DialogSlots
    <3> QED
      BY <2>1, <2>3, <2>4, <3>5 DEF OneMinuteOn
  <2>5. CASE Wait
    <3>1. PICK n \in 0 .. 1 : Pass(n)
      BY <2>5 DEF Wait
    <3>2. n \in 0 .. MinuteSlots
      BY DialogSlots
    <3>3. MinuteTyped' /\ slot' = slot + n - MinuteSlots
      BY <1>3, <3>1, <3>2, PassSlots
    <3>4. slot \in Int /\ slot' \in Int /\ slot' >= 0 /\ n \in Int /\ n <= 1
      BY <1>3, <3>1, <3>3, DialogSlots DEF MinuteTyped
    <3>5. ~(slot < AskSlots + AlarmSlots)
      BY <3>3, <3>4, DialogSlots
    <3>6. pc = "wait"
      BY <2>5 DEF Wait
    <3> QED
      BY <2>1, <2>3, <3>5, <3>6 DEF OneMinuteOn
  <2>6. CASE Alarm
    BY <2>4, <2>6 DEF Alarm
  <2>7. CASE Rearm
    <3>1. MT_form_xalert(pc) /\ pc \in {"ask", "hot", "alarm", "about"}
      BY <2>7 DEF Rearm
    <3>2. pc \in {"ask", "alarm"}
      BY <2>1, <3>1 DEF Undisturbed
    <3> QED
      BY <2>2, <2>4, <3>1, <3>2
  <2>8. CASE Top
    <3>1. key = "none"
      BY <2>1 DEF Undisturbed
    <3>2. UNCHANGED clockVars
      BY <2>8, <3>1 DEF Top
    <3> QED
      BY <3>2 DEF clockVars
  <2>9. CASE Start \/ Halt \/ Sense \/ Minute
    BY <2>9 DEF Start, Halt, Sense, Minute, NoTime, clockVars
  <2>10. CASE SensorAlert \/ About
    BY <2>1, <2>10 DEF SensorAlert, About, Undisturbed
  <2>11. CASE Overheat
    BY <2>11 DEF Overheat
  <2>12. CASE Ask
    BY <2>2, <2>12 DEF Ask
  <2>13. ASSUME NEW kind, NEW s, Message(kind, s)
         PROVE  asked
    BY <2>13 DEF Message, NoTime, clockVars
  <2>14. ASSUME NEW k, PressKey(k)
         PROVE  asked
    BY <2>14 DEF PressKey, clockVars
  <2>15. ASSUME NEW s, WriteCookie(s)
         PROVE  asked
    BY <2>15 DEF WriteCookie, clockVars
  <2> QED
    BY <2>5, <2>6, <2>7, <2>8, <2>9, <2>10, <2>11, <2>12, <2>13, <2>14, <2>15 DEF Next, Monitor
<1> HIDE DEF I
<1>4. Spec => []I
  BY <1>1, <1>2, PTL DEF Spec
<1> QED
  BY <1>3, <1>4, PTL DEF Spec, ScheduledAsked
=============================================================================
