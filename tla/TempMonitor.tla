----------------------------- MODULE TempMonitor -----------------------------
(***************************************************************************)
(* CT60TEMP, the temperature monitor (accessory or application): one loop  *)
(* that reads the clock, the Eiffel keys and the sensor once a turn, asks  *)
(* before a scheduled stop, stops an overheating 68060, warns above the    *)
(* trigger and serves messages while it waits.                             *)
(*                                                                         *)
(* Time passes in slots, only while the program waits: in the event call   *)
(* of a turn and in dialogs, which the user may answer before they time    *)
(* out.  The beeps, the curves and the load average are left out.          *)
(***************************************************************************)
EXTENDS Integers, Sequences, SequencesExt

CONSTANTS
  Systems,      \* "suptime": the kernel knows the load, or nobody asks (TOS); "sampled"
  Machines,     \* start conditions: [app, cpu_060, xbios, aes4]
  Settings,     \* what the panel may ask for: [trigger, daystop, timestop]
  Starts,       \* what the clock may show first: <<<<year, month, day>>, day of the week, minute>>
  Readings,     \* what the sensor may answer, -1 for bad values
  FilterLength, \* 8: readings averaged
  Minutes,      \* minutes of a day
  MinuteSlots,  \* slots of a minute; a slot is at least one turn of the loop
  AskSlots, AlarmSlots, HotSlots,  \* time-outs of the dialogs, rounded up
  MaxDays,      \* bound on the days the clock runs
  MaxEvents     \* bound on keys, messages and changes of the cookie

MAX_TEMP == 90
HOT      == MAX_TEMP - 5
DefaultTrigger == (MAX_TEMP * 3) \div 4

NO_STOP       == 0
SATURDAY_STOP == 6
SUNDAY_STOP   == 7
WORKDAY_STOP  == 8
WEEKEND_STOP  == 9
EVERYDAY_STOP == 10

Setting == [trigger : Nat, daystop : NO_STOP .. EVERYDAY_STOP, timestop : 0 .. Minutes - 1]

ASSUME TempAssumption ==
  /\ Systems \subseteq {"suptime", "sampled"}
  /\ Settings \subseteq Setting /\ Settings # {}
  /\ Readings \subseteq -1 .. 255
  /\ FilterLength \in Nat \ {0} /\ Minutes \in Nat \ {0, 1} /\ MinuteSlots \in Nat \ {0}
  /\ {AskSlots, AlarmSlots, HotSlots} \subseteq 0 .. MinuteSlots - 1
  /\ AskSlots + AlarmSlots < MinuteSlots \* 30 s, 10 s, and the second of a turn
  /\ MaxDays \in Nat /\ MaxEvents \in Nat

-----------------------------------------------------------------------------
(* The calendar of the clock chip: the days of a month, Gregorian leap     *)
(* years.  DayNumber counts the days from 1 January of year 1, a Monday.   *)
Leap(y) == y % 4 = 0 /\ (y % 100 # 0 \/ y % 400 = 0)
MonthDays(y, m) ==
  IF m = 2 THEN (IF Leap(y) THEN 29 ELSE 28) ELSE IF m \in {4, 6, 9, 11} THEN 30 ELSE 31
NextDate(d) ==
  IF d[3] < MonthDays(d[1], d[2]) THEN <<d[1], d[2], d[3] + 1>>
  ELSE IF d[2] < 12 THEN <<d[1], d[2] + 1, 1>> ELSE <<d[1] + 1, 1, 1>>
DaysBefore(years) == 365 * years + years \div 4 - years \div 100 + years \div 400
DayOfYear(d) ==
  (275 * d[2]) \div 9 - (IF Leap(d[1]) THEN 1 ELSE 2) * ((d[2] + 9) \div 12) + d[3] - 30
DayNumber(d) == DaysBefore(d[1] - 1) + DayOfYear(d)

(* The program's day of the week, in the int of Pure C: 16 bits, and a     *)
(* remainder with the sign of the dividend.                                *)
\* mutant of Int16: the int of a 32-bit compiler
Int32(n) == n
Int16(n) == ((n + 32768) % 65536) - 32768
Rem(a, b) == IF a >= 0 THEN a % b ELSE -((-a) % b)

doylookup == <<0, 31, 59, 90, 120, 151, 181, 212, 243, 273, 304, 334>>

isleapyear(year) == year % 4 = 0 /\ (year % 100 # 0 \/ year % 400 = 0)

dayofweek(year, mon, mday) ==
  LET rest == year - 1
      quad == rest \div 4
      cent == quad \div 25
      era  == cent \div 4
      doe  == mday + doylookup[mon] + (IF isleapyear(year) /\ mon > 2 THEN 1 ELSE 0)
              + era * (400 * 365 + 97) + (cent % 4) * (100 * 365 + 24)
              + (quad % 25) * (4 * 365 + 1) + (rest % 4) * 365
  IN Rem(Int16(doe), 7)

(* The clock starts on a date it can hold, with the day of the week it     *)
(* really is, and in a minute of the day.                                  *)
ASSUME StartsAssumption ==
  \A s \in Starts :
    /\ s[1] = <<s[1][1], s[1][2], s[1][3]>>
    /\ s[1][1] \in 1980 .. 2107 /\ s[1][2] \in 1 .. 12 /\ s[1][3] \in 1 .. MonthDays(s[1][1], s[1][2])
    /\ s[2] \in 1 .. 7 /\ s[2] % 7 = DayNumber(s[1]) % 7
    /\ s[3] \in 0 .. Minutes - 1

test_stop(date, min, daystop, timestop) ==
  LET day == (dayofweek(date[1], date[2], date[3]) + 1) % 65536
  IN /\ min = timestop
     /\ \/ daystop \in 1 .. SUNDAY_STOP /\ day = daystop
        \/ daystop = WORKDAY_STOP /\ day \notin {SATURDAY_STOP, SUNDAY_STOP}
        \/ daystop = WEEKEND_STOP /\ day \in {SATURDAY_STOP, SUNDAY_STOP}
        \/ daystop = EVERYDAY_STOP

VARIABLES
  machine, system,           \* where the program runs
  date, min, slot, weekday, days, \* the clock chip; the true day of the week
  cookie, set, flag_msg,     \* settings of the CT60 cookie, of the program, linked?
  key, events,               \* the Eiffel media key pending; bound on the outside
  pc, time, old_time,        \* the minute this turn and the last recorded one
  stop, old_stop, end,
  old_temp, raw, error_flag, \* the filter, the last reading
  ticked, sampling,          \* ticks # run_ticks; loops > 1
  asked, disturbed           \* history: asked in this minute; a key, a message or an open dialog

clockVars == <<date, min, slot, weekday, days>>
setVars   == <<cookie, set, flag_msg>>
tempVars  == <<old_temp, raw, error_flag>>
loopVars  == <<time, old_time, stop, old_stop, end, ticked, sampling>>
vars == <<machine, system, clockVars, setVars, key, events, pc, loopVars, tempVars, asked,
          disturbed>>

Stopped == {"halted", "ended", "nocard"}
Temp    == IF raw < 0 THEN 0
           ELSE FoldLeft(LAMBDA s, t : s + t, 0, old_temp) \div FilterLength

TypeOK ==
  /\ machine \in Machines /\ system \in Systems
  /\ min \in 0 .. Minutes - 1 /\ slot \in 0 .. MinuteSlots - 1
  /\ weekday \in 1 .. 7 /\ days \in 0 .. MaxDays
  /\ cookie \in Settings /\ set \in Setting /\ flag_msg \in BOOLEAN
  /\ key \in {"none", "POWER", "media"} /\ events \in 0 .. MaxEvents
  /\ pc \in {"start", "top", "ask", "sense", "sensor", "minute", "alarm", "wait", "about",
             "hot", "halting"} \cup Stopped
  /\ time \in 0 .. Minutes - 1 /\ old_time \in -1 .. Minutes - 1
  /\ {stop, old_stop, end, error_flag, ticked, sampling, asked, disturbed} \subseteq BOOLEAN
  /\ old_temp \in Seq(Readings \cup {0}) /\ Len(old_temp) = FilterLength
  /\ raw \in Readings \cup {0}

(* The machine is switched on; stop is a local nobody initialises.         *)
Init ==
  /\ machine \in Machines /\ system \in Systems
  /\ \E s \in Starts : date = s[1] /\ weekday = s[2] /\ min = s[3]
  /\ slot = 0 /\ days = 0
  /\ cookie \in Settings /\ set = [trigger |-> 0, daystop |-> NO_STOP, timestop |-> 0]
  /\ flag_msg = FALSE /\ key = "none" /\ events = 0
  /\ pc = "start" /\ time = 0 /\ old_time = -1
  /\ stop \in BOOLEAN /\ old_stop = FALSE /\ end = FALSE
  /\ old_temp = [i \in 1 .. FilterLength |-> 0] /\ raw = 0 /\ error_flag = FALSE
  /\ ticked = FALSE /\ sampling = FALSE /\ asked = FALSE /\ disturbed = FALSE

-----------------------------------------------------------------------------
(* Time: n slots pass while the program waits.  The chip stops at the end  *)
(* of the last day only to bound the runs.                                 *)
LastMinute == days = MaxDays /\ min = Minutes - 1
Pass(n) ==
  LET over == slot + n >= MinuteSlots
  IN IF over /\ LastMinute
     THEN slot' = MinuteSlots - 1 /\ UNCHANGED <<date, min, weekday, days, asked>>
     ELSE /\ slot' = (slot + n) % MinuteSlots
          /\ min' = IF over THEN (min + 1) % Minutes ELSE min
          /\ asked' = (asked /\ ~over)
          /\ IF over /\ min = Minutes - 1
             THEN date' = NextDate(date) /\ weekday' = (weekday % 7) + 1 /\ days' = days + 1
             ELSE UNCHANGED <<date, weekday, days>>
NoTime == UNCHANGED <<clockVars, asked>>

(* MT_form_xalert: a dialog ends with a button, or with the first of them  *)
(* after its time-out; any other key or click arms the time-out anew.      *)
TimeOut(dialog) ==
  CASE dialog = "ask" -> AskSlots [] dialog = "hot" -> HotSlots [] OTHER -> AlarmSlots
MT_form_xalert(dialog) == \E n \in 0 .. TimeOut(dialog) : Pass(n)
Rearm ==
  /\ pc \in {"ask", "hot", "alarm", "about"} /\ events < MaxEvents /\ events' = events + 1
  /\ MT_form_xalert(pc) /\ disturbed' = TRUE
  /\ UNCHANGED <<machine, system, setVars, key, pc, loopVars, tempVars>>

(* call_app: an application shows a box for a second, then starts what an  *)
(* environment variable names, unless it runs; an accessory does nothing.  *)
call_app == IF machine.app THEN \E n \in 0 .. 1 : Pass(n) ELSE NoTime

(* The start of main: arguments of the application, or the CT60 cookie.    *)
Start ==
  /\ pc = "start"
  /\ \E s \in Settings :
       LET arg == IF machine.app THEN s
                  ELSE IF machine.xbios THEN cookie
                  ELSE [trigger |-> 0, daystop |-> NO_STOP, timestop |-> 0]
       IN set' = [arg EXCEPT !.trigger = IF @ = 0 THEN DefaultTrigger ELSE @]
  /\ pc' = IF machine.app
           THEN IF (~machine.xbios /\ ~machine.cpu_060) \/ ~machine.aes4 THEN "ended" ELSE "top"
           ELSE IF ~machine.cpu_060 THEN "nocard" ELSE "top"
  /\ NoTime
  /\ UNCHANGED <<machine, system, cookie, flag_msg, key, events, loopVars, tempVars, disturbed>>

\* mutant of OldStop: once asked, never again
OldStopSticky(s) == old_stop \/ s
OldStop(s) == s

(* The top of the loop: clock, keys, scheduled stop.  A media key shows an *)
(* alert, and leaves stop as the turn before left it.                      *)
Top ==
  /\ pc = "top"
  /\ time' = min
  /\ stop' = CASE key = "POWER" -> TRUE
               [] key = "media" -> stop
               [] OTHER -> test_stop(date, min, set.daystop, set.timestop)
  /\ key' = "none"
  /\ IF stop' /\ ~old_stop
     THEN pc' = "ask" /\ UNCHANGED old_stop
     ELSE pc' = "sense" /\ old_stop' = OldStop(stop')
  /\ IF key = "media" THEN call_app
     ELSE asked' = (asked \/ pc' = "ask") /\ UNCHANGED clockVars
  /\ UNCHANGED <<machine, system, setVars, events, old_time, end, ticked, sampling, tempVars,
                 disturbed>>

(* The question of thirty seconds: Cancel, or OK and its time-out.         *)
Ask ==
  /\ pc = "ask"
  /\ MT_form_xalert("ask")
  /\ \/ pc' = "halting" /\ UNCHANGED old_stop
     \/ pc' = "sense" /\ old_stop' = OldStop(stop)
  /\ UNCHANGED <<machine, system, setVars, key, events, time, old_time, stop, end, ticked,
                 sampling, tempVars, disturbed>>

(* The other programs are told, ten beeps, the last box, stop_60.          *)
Halt ==
  /\ pc = "halting" /\ pc' = "halted"
  /\ NoTime
  /\ UNCHANGED <<machine, system, setVars, key, events, loopVars, tempVars, disturbed>>

(* read_temp: the average of the last readings, all alike at first.        *)
Filtered(t) ==
  Append(Tail(IF old_temp[1] = 0 THEN [i \in 1 .. FilterLength |-> t] ELSE old_temp), t)

TooHot == Temp' > HOT /\ ticked

Sense ==
  /\ pc = "sense"
  /\ raw' \in Readings
  /\ old_temp' = IF raw' >= 0 THEN Filtered(raw') ELSE old_temp
  /\ error_flag' = (error_flag \/ raw' < 0)
  /\ pc' = IF raw' < 0 /\ ~error_flag THEN "sensor" ELSE IF TooHot THEN "hot" ELSE "minute"
  /\ disturbed' = (disturbed \/ pc' = "sensor")
  /\ NoTime
  /\ UNCHANGED <<machine, system, setVars, key, events, loopVars>>

(* The alert of the bad sensor waits for the user, however long.           *)
SensorAlert ==
  /\ pc = "sensor" /\ pc' = "minute"
  /\ \E n \in 0 .. MinuteSlots - 1 : Pass(n)
  /\ UNCHANGED <<machine, system, setVars, key, events, loopVars, tempVars, disturbed>>

(* Overheating: an alert of five seconds, then the stop.                   *)
Overheat ==
  /\ pc = "hot" /\ pc' = "halting" /\ end' = (end \/ machine.app)
  /\ MT_form_xalert("hot")
  /\ UNCHANGED <<machine, system, setVars, key, events, time, old_time, stop, old_stop, ticked,
                 sampling, tempVars, disturbed>>

\* mutant of Refreshed: clock() is never read again
NotRefreshed(on) == ticked
Refreshed(on) == ticked \/ on

(* Once a minute: the curves, how the load is measured, the alarm.         *)
Minute ==
  /\ pc = "minute"
  /\ old_time' = time
  /\ sampling' = IF time # old_time THEN system = "sampled" ELSE sampling
  /\ pc' = IF time # old_time /\ Temp > set.trigger /\ Temp <= MAX_TEMP /\ ticked
           THEN "alarm" ELSE "wait"
  /\ ticked' = Refreshed(sampling')
  /\ NoTime
  /\ UNCHANGED <<machine, system, setVars, key, events, time, stop, old_stop, end, tempVars,
                 disturbed>>

Alarm ==
  /\ pc = "alarm" /\ pc' = "wait"
  /\ MT_form_xalert(pc)
  /\ UNCHANGED <<machine, system, setVars, key, events, loopVars, tempVars, disturbed>>

(* The event calls of a turn: one, or fifty short ones when sampling.      *)
EndTurn   == pc' = IF end' THEN "ended" ELSE "top"
FollowCookie ==
  set' = IF ~flag_msg /\ ~machine.app /\ machine.xbios THEN cookie ELSE set

Wait ==
  /\ pc = "wait"
  /\ FollowCookie /\ UNCHANGED end /\ EndTurn
  /\ \E n \in 0 .. 1 : Pass(n)
  /\ UNCHANGED <<machine, system, cookie, flag_msg, key, events, time, old_time, stop, old_stop,
                 ticked, sampling, tempVars, disturbed>>

(* A message: the box of AC_OPEN, AP_TERM, the settings of the panel.      *)
Message(kind, s) ==
  /\ pc = "wait" /\ events < MaxEvents /\ events' = events + 1
  /\ end' = (end \/ kind = "AP_TERM")
  /\ IF kind = "MSG_CT60_TEMP"
     THEN flag_msg' = TRUE /\ set' = s ELSE UNCHANGED <<flag_msg, set>>
  /\ IF kind = "AC_OPEN" THEN pc' = "about" ELSE EndTurn \/ (sampling /\ pc' = "wait")
  /\ disturbed' = TRUE
  /\ NoTime
  /\ UNCHANGED <<machine, system, cookie, key, time, old_time, stop, old_stop, ticked, sampling,
                 tempVars>>

About ==
  /\ pc = "about" /\ UNCHANGED end
  /\ EndTurn \/ (sampling /\ pc' = "wait")
  /\ MT_form_xalert(pc)
  /\ UNCHANGED <<machine, system, setVars, key, events, time, old_time, stop, old_stop, ticked,
                 sampling, tempVars, disturbed>>

(* The outside: Eiffel's interrupt leaves a key, the panel the cookie.     *)
PressKey(k) ==
  /\ pc \notin {"start"} \cup Stopped /\ events < MaxEvents /\ events' = events + 1
  /\ key' = k /\ disturbed' = TRUE
  /\ UNCHANGED <<machine, system, clockVars, setVars, pc, loopVars, tempVars, asked>>

WriteCookie(s) ==
  /\ pc \notin Stopped /\ machine.xbios /\ s # cookie
  /\ events < MaxEvents /\ events' = events + 1
  /\ cookie' = s /\ disturbed' = TRUE
  /\ UNCHANGED <<machine, system, clockVars, set, flag_msg, key, pc, loopVars, tempVars, asked>>

Monitor ==
  \/ Start \/ Top \/ Ask \/ Halt \/ Sense \/ Overheat \/ Minute \/ Alarm \/ Wait \/ About

Next ==
  \/ Monitor
  \/ Rearm
  \/ SensorAlert
  \/ \E kind \in {"AC_OPEN", "AP_TERM"} : Message(kind, set)
  \/ \E s \in Settings : Message("MSG_CT60_TEMP", s)
  \/ \E k \in {"POWER", "media"} : PressKey(k)
  \/ \E s \in Settings : WriteCookie(s)

Spec     == Init /\ [][Next]_vars
FairSpec == Spec /\ WF_vars(Monitor)

-----------------------------------------------------------------------------
(* Properties.                                                             *)

(* The days a schedule names, and whether it is due on day w.              *)
Named(daystop) ==
  CASE daystop \in 1 .. SUNDAY_STOP -> {daystop}
    [] daystop = WORKDAY_STOP  -> 1 .. 5
    [] daystop = WEEKEND_STOP  -> {6, 7}
    [] daystop = EVERYDAY_STOP -> 1 .. 7
    [] OTHER -> {}
DueOn(w) == min = set.timestop /\ w \in Named(set.daystop)

(* From 1980 to 16 June 2064 the day number wraps to a 16-bit int between  *)
(* 0 and 32767, and 11 * 65536 days are whole weeks and one day, the one   *)
(* test_stop adds again; a schedule of every day needs no number.          *)
Counted == DayNumber(date) <= DayNumber(<<2064, 6, 16>>)
Sure == Counted \/ set.daystop = EVERYDAY_STOP
Due  == Sure /\ DueOn(weekday)

(* Until then the stop is proposed on a day and in a minute the schedule   *)
(* names (Monday is 1), through leap years and centuries, or on the POWER  *)
(* key; only the first turn may do so for no reason, when a media key      *)
(* finds stop without a value.                                             *)
Reason == key = "POWER" \/ (key = "media" /\ old_time = -1)
AskedForReason == [][pc # "ask" /\ pc' = "ask" /\ Sure => DueOn(weekday) \/ Reason]_vars

(* The same on every date the clock holds.                                 *)
AskedOnNamedDay == [][pc # "ask" /\ pc' = "ask" => DueOn(weekday) \/ Reason]_vars

(* No scheduled minute goes by unasked: no dialog the program opens on its *)
(* own lasts over a whole minute, and a refusal yesterday is not one today.*)
ScheduledAsked ==
  [][min' # min /\ Due /\ pc \notin {"start", "hot", "halting"} \cup Stopped =>
       asked \/ disturbed]_vars

(* A 68060 that stays too hot is stopped, where the load is sampled and    *)
(* nobody is asked about the sensor.                                       *)
OverheatStops ==
  <>[](system = "sampled" /\ Temp > HOT /\ raw >= 0 /\ pc # "sensor" /\ pc # "start")
    => <>(pc \in {"halted", "ended"})

(* The same on every system.                                               *)
OverheatStopsAlways ==
  <>[](Temp > HOT /\ raw >= 0 /\ pc # "sensor" /\ pc # "start")
    => <>(pc \in {"halted", "ended"})
=============================================================================
