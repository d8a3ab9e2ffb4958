------------------------------ MODULE TempLink ------------------------------
(***************************************************************************)
(* The panel and its temperature service: CT60CONF.CPX asks CT60TEMP, or a *)
(* thread it starts itself under MagiC, once a second while a page of      *)
(* measures is open.  The question carries the settings of the alarm and   *)
(* of the daily stop, the answer a pointer to the hour the service has     *)
(* recorded, which the panel copies from a memory both may touch.          *)
(*                                                                         *)
(* TempMonitor has the calendar, the ticks and the filter of the service;  *)
(* here a turn may find any temperature.  An entry of a curve is the       *)
(* minute it was recorded in, 0 for none; 0 may also stand for what an     *)
(* ended service has left in its memory.                                   *)
(***************************************************************************)
EXTENDS Integers, Sequences

CONSTANTS
  Settings,    \* settings of the alarm and the stop: [trigger, daystop, timestop]
  Services,    \* "app", "acc", "thread", "none": what cpx_init can find or start
  Hour,        \* 61: entries of a curve
  Patience,    \* 10: turns of the timer an answer may take
  PipeSize,    \* messages the AES keeps for a program
  Today,       \* the day of the week, 1 on a Monday
  MaxMinutes,  \* bound on the clock
  MaxStarts,   \* bound on starts of the service
  MaxActs      \* bound on what the user does

NONE == -1
PAGES == {"CPULOAD", "TEMP", "other"}
Polling == {"CPULOAD", "TEMP"}

\* a question may carry the new day with the old hour
Part(f) == {s[f] : s \in Settings}
Setting == [trigger : Part("trigger"), daystop : Part("daystop"), timestop : Part("timestop")]

ASSUME LinkAssumption ==
  /\ Settings # {} /\ Settings \subseteq [trigger : Nat, daystop : 0 .. 10, timestop : Nat]
  /\ Services \subseteq {"app", "acc", "thread", "none"}
  /\ Today \in 1 .. 7
  /\ Hour \in Nat \ {0} /\ Patience \in Nat /\ PipeSize \in Nat \ {0}
  /\ MaxStarts \in Nat \ {0}
  /\ MaxMinutes \in Nat /\ MaxActs \in Nat

VARIABLES
  minute,                    \* the clock, 1 when the machine is switched on
  \* the panel
  loaded, open, selection,   \* cpx_init has run; between cpx_call and cpx_close; the page
  header, field, params,     \* settings: saved, shown, last seen by cpx_timer
  old_daystop,               \* static of cpx_timer
  link,                      \* [temp_id, time_out_thread, to]: to is the service's message pipe
  thread, inbox,             \* the service is the panel's thread; the panel's message pipe
  tab_temp, old_time,        \* the panel's curve and the minute it was last filled in
  copied, source,            \* cpx_hook's copy: entries done (Hour: none going on), whose
  \* the service
  service, running, starts,  \* its kind; starts is also its number
  set, pc, hour, shifted, recorded, \* its settings, step, curve, entries moved, old_time
  time,                      \* the minute of this turn
  old_stop,                  \* the stop was due on the last turn
  acts,                      \* the user's acts so far
  stale                      \* history: the last copy read the memory of a service that has ended

panelVars == <<loaded, open, selection, header, field, params, old_daystop, link, thread, inbox,
               tab_temp, old_time, copied, source, stale>>
serviceVars == <<service, running, starts, set, pc, hour, shifted, recorded, time, old_stop>>
vars == <<minute, acts, panelVars, serviceVars>>

\* what cpx_timer keeps of the settings it has read
Times(s) == [trigger |-> s.trigger, timestop |-> s.timestop]

Empty == [i \in 1 .. Hour |-> 0]
Stopped == pc = "off"          \* the service has stopped the processor
Idle  == copied = Hour /\ ~Stopped \* the panel is in none of its functions
Found == IF running THEN starts ELSE NONE

TypeOK ==
  /\ minute \in 1 .. MaxMinutes + 1 /\ acts \in 0 .. MaxActs
  /\ loaded \in BOOLEAN /\ open \in BOOLEAN /\ thread \in BOOLEAN
  /\ running \in BOOLEAN /\ stale \in BOOLEAN /\ old_stop \in BOOLEAN
  /\ selection \in PAGES
  /\ header \in Settings /\ field \in Settings /\ set \in Setting
  /\ link.temp_id \in {NONE} \cup 1 .. MaxStarts
  /\ link.time_out_thread \in NONE .. Patience
  /\ Len(link.to) <= PipeSize /\ Len(inbox) <= PipeSize
  /\ tab_temp \in [1 .. Hour -> 0 .. MaxMinutes + 1] /\ hour \in [1 .. Hour -> 0 .. MaxMinutes + 1]
  /\ copied \in 0 .. Hour /\ shifted \in 0 .. Hour
  /\ pc \in {"turn", "alert", "temp", "sensor", "shift", "alarm", "wait", "off"}
  /\ service \in Services /\ starts \in 0 .. MaxStarts

Init ==
  /\ minute = 1 /\ acts = 0
  /\ loaded = FALSE /\ open = FALSE /\ selection = "TEMP"
  /\ header \in Settings /\ field = header
  /\ params = Times(header) /\ old_daystop = 0
  /\ link = [temp_id |-> NONE, time_out_thread |-> NONE, to |-> <<>>]
  /\ thread = FALSE /\ inbox = <<>>
  /\ tab_temp = Empty /\ old_time = 0 /\ copied = Hour /\ source = NONE /\ stale = FALSE
  /\ service \in Services
  /\ running = (service = "acc") /\ starts = IF running THEN 1 ELSE 0
  /\ set \in (IF running THEN Settings ELSE {header})
  /\ pc = "turn" /\ time = 1 /\ old_stop = FALSE
  /\ hour = Empty /\ shifted = 0 /\ recorded = 0

-----------------------------------------------------------------------------
(* The panel asks.                                                         *)
Question(f, p) == [trigger |-> p.trigger, daystop |-> f.daystop, timestop |-> p.timestop]

(* send_ask_temp: nothing while an answer is due; CT60TEMP is looked up    *)
(* each time, and a failure to find it is for good.                        *)
send_ask_temp(l, question) ==
  LET id == IF thread THEN l.temp_id ELSE Found
  IN  IF l.time_out_thread # NONE THEN l
      ELSE IF id = NONE \/ id # Found \/ Len(l.to) = PipeSize THEN [l EXCEPT !.temp_id = id]
      ELSE [temp_id |-> id, time_out_thread |-> 0, to |-> Append(l.to, question)]

Ask(l, question) == IF l.temp_id = NONE THEN l ELSE send_ask_temp(l, question)

\* mutant of Waited: an answer that did not come is waited for all the same
WaitedForEver(l) ==
  IF l.time_out_thread \in 0 .. Patience - 1
  THEN [l EXCEPT !.time_out_thread = @ + 1] ELSE l

\* the end of cpx_timer: after some turns an alert, and nothing is due any more
Waited(l) ==
  IF l.time_out_thread = NONE THEN l
  ELSE [l EXCEPT !.time_out_thread = IF @ + 1 > Patience THEN NONE ELSE @ + 1]

\* mutant of Filled: the new reading goes to the other end
FilledInFront(curve) == [i \in 1 .. Hour |-> IF i = 1 THEN minute ELSE curve[i - 1]]
\* fill_tab_temp: the curve moves by one entry and takes the reading of this minute
Filled(curve) == [i \in 1 .. Hour |-> IF i < Hour THEN curve[i + 1] ELSE minute]

(* cpx_timer: the question of a page of measures (cpx_call counts as one), *)
(* the trace of the minute, the fields read again, and a question if they  *)
(* have changed; last the wait.                                            *)
Changed(f, p) == p.trigger # f.trigger \/ p.timestop # f.timestop \/ f.daystop # old_daystop

TimerLink(polls, l, f, p) ==
  LET asked == IF polls THEN Ask(l, Question(f, p)) ELSE l
  IN  Waited(IF Changed(f, p) THEN Ask(asked, f) ELSE asked)

TimerRest(f) ==
  /\ params' = [trigger |-> f.trigger, timestop |-> f.timestop]
  /\ old_daystop' = f.daystop
  /\ IF minute # old_time
     THEN tab_temp' = Filled(tab_temp) /\ old_time' = minute
     ELSE UNCHANGED <<tab_temp, old_time>>

(* start_temp: CT60TEMP if it runs, else started, else the thread; the     *)
(* number of a CT60TEMP it has started itself is returned, not kept: the   *)
(* panel goes on as if there were none.                                    *)
start_temp == CASE service = "acc" -> Found [] service = "thread" -> 1 [] OTHER -> NONE

(* start_ct60temp or SHW_THR_CREATE: the settings are its parameters.      *)
Launch ==
  \/ service \in {"app", "thread"} /\ running' = TRUE /\ starts' = 1 /\ set' = header
  \/ service \notin {"app", "thread"} /\ UNCHANGED <<running, starts, set>>

CpxInit ==
  /\ ~loaded /\ loaded' = TRUE
  /\ thread' = (service = "thread")
  /\ link' = [link EXCEPT !.temp_id = start_temp] /\ Launch
  /\ UNCHANGED <<minute, acts, open, selection, header, field, params, old_daystop, inbox, tab_temp,
                 old_time, copied, source, stale, service, pc, hour, shifted, recorded, time, old_stop>>

(* A dialog of the service has the keyboard and the mouse until it ends.   *)
Asked == running /\ pc \in {"alert", "sensor", "alarm"}

(* cpx_call: the saved settings, one turn of the timer, one question more. *)
CpxCall ==
  /\ loaded /\ ~open /\ ~Asked /\ open' = TRUE
  /\ field' = header /\ selection' = "TEMP"
  /\ link' = Ask(TimerLink(TRUE, link, header, Times(header)), header)
  /\ TimerRest(header)
  /\ UNCHANGED <<minute, acts, loaded, header, thread, inbox, copied, source, stale, serviceVars>>

CpxTimer ==
  /\ open /\ Idle
  /\ link' = TimerLink(selection \in Polling, link, field, params)
  /\ TimerRest(field)
  /\ UNCHANGED <<minute, acts, loaded, open, selection, header, field, thread, inbox, copied, source,
                 stale, serviceVars>>

\* one of the things the user does, a window over the panel included
Act == acts < MaxActs /\ ~Asked /\ acts' = acts + 1

(* cpx_hook: an answer of the service it knows ends the wait, and the      *)
(* curve is copied entry by entry; a redraw asks on the temperature page.  *)
Hook ==
  /\ open /\ Idle /\ inbox # <<>>
  /\ inbox' = Tail(inbox)
  /\ IF Head(inbox) = link.temp_id
     THEN /\ link' = [link EXCEPT !.time_out_thread = NONE]
          /\ copied' = 0 /\ source' = Head(inbox) /\ stale' = FALSE
     ELSE UNCHANGED <<link, copied, source, stale>>
  /\ UNCHANGED <<minute, acts, loaded, open, selection, header, field, params, old_daystop, thread,
                 tab_temp, old_time, serviceVars>>

Redraw ==
  /\ open /\ Idle /\ selection = "TEMP" /\ Act
  /\ link' = Ask(link, Question(field, params))
  /\ UNCHANGED <<minute, loaded, open, selection, header, field, params, old_daystop, thread, inbox,
                 tab_temp, old_time, copied, source, stale, serviceVars>>

Copy ==
  /\ copied < Hour /\ ~Stopped
  /\ copied' = copied + 1 /\ source' = IF copied' = Hour THEN NONE ELSE source
  /\ IF running /\ source = starts
     THEN tab_temp' = [tab_temp EXCEPT ![copied + 1] = hour[copied + 1]] /\ UNCHANGED stale
     ELSE /\ \E x \in {0, minute} : tab_temp' = [tab_temp EXCEPT ![copied + 1] = x]
          /\ stale' = TRUE
  /\ UNCHANGED <<minute, acts, loaded, open, selection, header, field, params, old_daystop, link, thread,
                 inbox, old_time, serviceVars>>

(* What the user does: another page, another setting, Save, Load, the end. *)
panelRest == <<minute, loaded, params, old_daystop, link, thread, inbox, tab_temp, old_time, copied,
               source, stale, serviceVars>>
Select(page) ==
  /\ open /\ Idle /\ Act /\ selection' = page
  /\ UNCHANGED <<open, header, field, panelRest>>
Edit(s) ==
  /\ open /\ Idle /\ Act /\ field' = s
  /\ UNCHANGED <<open, selection, header, panelRest>>
Save ==
  /\ open /\ Idle /\ Act /\ header' = field
  /\ UNCHANGED <<open, selection, field, panelRest>>
Load ==
  /\ open /\ Idle /\ Act
  /\ field' = header /\ params' = Times(header)
  /\ UNCHANGED <<minute, loaded, open, selection, header, old_daystop, link, thread, inbox,
                 tab_temp, old_time, copied, source, stale, serviceVars>>
Close ==
  /\ open /\ Idle /\ Act /\ open' = FALSE
  /\ UNCHANGED <<selection, header, field, panelRest>>

(* XControl hands messages to the panel that is open, and to no other.     *)
Discard ==
  /\ ~open /\ inbox # <<>> /\ inbox' = Tail(inbox)
  /\ UNCHANGED <<minute, acts, loaded, open, selection, header, field, params, old_daystop, link, thread,
                 tab_temp, old_time, copied, source, stale, serviceVars>>

-----------------------------------------------------------------------------
(* The service: the loop of temp_thread and of CT60TEMP.                   *)
serviceRest == <<minute, acts, panelVars, service, running, starts>>

(* The daily stop, at its minute of the days its setting names.            *)
WORKDAY_STOP  == 8
WEEKEND_STOP  == 9
EVERYDAY_STOP == 10
test_stop(s) ==
  /\ s.timestop = minute
  /\ \/ s.daystop = Today \/ s.daystop = EVERYDAY_STOP
     \/ s.daystop = WORKDAY_STOP /\ Today \notin {6, 7}
     \/ s.daystop = WEEKEND_STOP /\ Today \in {6, 7}

(* The top of a turn: the stop of the settings, or the POWER key, asks     *)
(* once.  The answer, or none in half a minute, stops the computer.        *)
Turn ==
  /\ running /\ pc = "turn"
  /\ time' = minute
  /\ \/ old_stop' = test_stop(set) /\ UNCHANGED acts
     \/ old_stop' = TRUE /\ Act
  /\ pc' = IF old_stop' /\ ~old_stop THEN "alert" ELSE "temp"
  /\ UNCHANGED <<minute, panelVars, service, running, starts, set, hour, shifted, recorded>>
Alert ==
  /\ running /\ pc = "alert" /\ pc' \in {"temp", "off"}
  /\ UNCHANGED <<serviceRest, set, hour, shifted, recorded, time, old_stop>>

(* The temperature: a sensor that is bad is told, in a dialog without a    *)
(* time-out; an overheated 68060 is stopped.  Then a new minute's record.  *)
(* (That the sensor is told only once, error_flag, is left out.)           *)
Record == IF time # recorded THEN "shift" ELSE "wait"
read_temp ==
  /\ running /\ pc = "temp"
  /\ pc' \in {Record, "sensor", "off"}
  /\ UNCHANGED <<serviceRest, set, hour, shifted, recorded, time, old_stop>>
SensorAlert ==
  /\ running /\ pc = "sensor" /\ pc' = Record
  /\ UNCHANGED <<serviceRest, set, hour, shifted, recorded, time, old_stop>>

(* The curve of the hour, entry by entry, then the alarm above the trigger.*)
Shift ==
  /\ running /\ pc = "shift"
  /\ IF shifted < Hour - 1
     THEN /\ hour' = [hour EXCEPT ![shifted + 1] = hour[shifted + 2]]
          /\ shifted' = shifted + 1 /\ UNCHANGED <<pc, recorded>>
     ELSE /\ hour' = [hour EXCEPT ![Hour] = time]
          /\ shifted' = 0 /\ recorded' = time /\ pc' \in {"alarm", "wait"}
  /\ UNCHANGED <<serviceRest, set, time, old_stop>>
Alarm ==
  /\ running /\ pc = "alarm" /\ pc' = "wait"
  /\ UNCHANGED <<serviceRest, set, hour, shifted, recorded, time, old_stop>>

(* The wait of a turn: a question brings settings and takes an answer,     *)
(* which is lost when the panel's pipe is full.                            *)
Serve ==
  /\ running /\ pc = "wait" /\ pc' = "turn"
  /\ IF link.to = <<>> THEN UNCHANGED <<link, set, inbox>>
     ELSE /\ set' = Head(link.to) /\ link' = [link EXCEPT !.to = Tail(@)]
          /\ inbox' = IF Len(inbox) < PipeSize THEN Append(inbox, starts) ELSE inbox
  /\ UNCHANGED <<minute, acts, loaded, open, selection, header, field, params, old_daystop, thread,
                 tab_temp, old_time, copied, source, stale, service, running, starts, hour, shifted,
                 recorded, time, old_stop>>

(* CT60TEMP ends on AP_TERM and gives its memory back; the user starts it  *)
(* again, with settings on its command line or without.                    *)
Terminate ==
  /\ running /\ service \in {"app", "acc"} /\ pc = "wait" /\ Act
  /\ running' = FALSE /\ link' = [link EXCEPT !.to = <<>>]
  /\ UNCHANGED <<minute, loaded, open, selection, header, field, params, old_daystop, thread, inbox,
                 tab_temp, old_time, copied, source, stale, service, starts, set, pc, hour, shifted,
                 recorded, time, old_stop>>
Restart(s) ==
  /\ loaded /\ ~running /\ service # "thread" /\ starts < MaxStarts /\ Act
  /\ running' = TRUE /\ starts' = starts + 1 /\ set' = s
  /\ pc' = "turn" /\ hour' = Empty /\ shifted' = 0 /\ recorded' = 0
  /\ old_stop' = FALSE
  /\ UNCHANGED <<minute, panelVars, service, time>>

NextMinute ==
  /\ minute <= MaxMinutes /\ minute' = minute + 1
  /\ UNCHANGED <<acts, panelVars, serviceVars>>

-----------------------------------------------------------------------------
Service == Turn \/ Alert \/ read_temp \/ Shift \/ Alarm \/ Serve
User    == \/ Redraw \/ Save \/ Load \/ Close
           \/ \E page \in PAGES : Select(page)
           \/ \E s \in Settings : Edit(s)

Next ==
  /\ ~Stopped
  /\ \/ CpxInit \/ CpxCall \/ CpxTimer \/ Hook \/ Copy \/ Discard
     \/ User
     \/ Service \/ SensorAlert \/ Terminate \/ NextMinute
     \/ \E s \in Settings : Restart(s)

Spec     == Init /\ [][Next]_vars
FairSpec == /\ Spec
            /\ WF_vars(CpxTimer) /\ WF_vars(Hook) /\ WF_vars(Copy) /\ WF_vars(Service)

-----------------------------------------------------------------------------
(* Properties.                                                             *)

(* The curve the panel draws never runs back in time: two programs move it *)
(* by an entry a minute, and the panel may copy it while the service is at *)
(* that.  (Not when the service has ended with that answer unread.)         *)
CurveInOrder ==
  Idle /\ ~stale => \A i, j \in 1 .. Hour : i < j => tab_temp[i] <= tab_temp[j]

(* While a page of measures stays open the service comes to use what the   *)
(* panel shows, whatever questions and answers were lost before: to a full *)
(* pipe, a closed panel or a service that ended.                           *)
Listening == open /\ selection \in Polling /\ running /\ link.temp_id = starts /\ pc \notin {"sensor", "off"}
SettingsArrive ==
  \A s \in Settings : <>[](Listening /\ field = s) => <>[](set = s)
=============================================================================
