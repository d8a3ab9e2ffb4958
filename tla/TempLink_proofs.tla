---------------------------- MODULE TempLink_proofs ----------------------------
(***************************************************************************)
(* The curve that CT60CONF.CPX copies from the memory of the service is in *)
(* order for every length of curve and pipe, every patience and any number *)
(* of starts, whichever of the two is in the middle of moving it.          *)
(***************************************************************************)
EXTENDS TempLink, TLAPS

Numbers == {NONE} \cup 1 .. MaxStarts
Links   == [temp_id : Numbers, time_out_thread : NONE .. Patience, to : Seq(Setting)]

Flags ==
  /\ loaded \in BOOLEAN /\ open \in BOOLEAN /\ thread \in BOOLEAN
  /\ running \in BOOLEAN /\ stale \in BOOLEAN /\ old_stop \in BOOLEAN
  /\ selection \in PAGES /\ service \in Services
  /\ pc \in {"turn", "alert", "temp", "sensor", "shift", "alarm", "wait", "off"}
Counts ==
  /\ minute \in 1 .. MaxMinutes + 1 /\ time \in 1 .. minute
  /\ acts \in 0 .. MaxActs
  /\ starts \in 0 .. MaxStarts /\ (running => starts >= 1)
  /\ copied \in 0 .. Hour /\ shifted \in 0 .. Hour
Kept ==
  /\ header \in Settings /\ field \in Settings /\ set \in Setting
  /\ params \in [trigger : Part("trigger"), timestop : Part("timestop")]
Pipes ==
  /\ link \in Links /\ Len(link.to) <= PipeSize
  /\ inbox \in Seq(1 .. MaxStarts) /\ Len(inbox) <= PipeSize
  /\ source \in Numbers
Curves ==
  /\ tab_temp \in [1 .. Hour -> 0 .. MaxMinutes + 1]
  /\ hour \in [1 .. Hour -> 0 .. MaxMinutes + 1]

Types == Flags /\ Counts /\ Kept /\ Pipes /\ Curves

(* The service's curve is in order at every step of its shift.             *)
HourInOrder ==
  /\ \A i, j \in 1 .. Hour : i < j => hour[i] <= hour[j]
  /\ \A i \in 1 .. Hour : hour[i] <= time

(* An answer is from a service started by now: a new one is never taken    *)
(* for one that has ended.                                                 *)
Sources ==
  /\ source <= starts
  /\ \A k \in 1 .. Len(inbox) : inbox[k] <= starts

(* A panel that is not loaded, or not open, is in no copy.                 *)
Copying ==
  /\ ~loaded => ~open /\ (service = "acc" \/ starts = 0)
  /\ ~open => copied = Hour

(* What is copied is in order, and older than what is still to be copied.  *)
CopyInOrder ==
  /\ \A i \in 1 .. Hour : tab_temp[i] <= minute
  /\ ~stale => \A i, j \in 1 .. copied : i < j => tab_temp[i] <= tab_temp[j]
  /\ ~stale /\ copied < Hour /\ running /\ source = starts =>
       \A i \in 1 .. copied, j \in copied + 1 .. Hour : tab_temp[i] <= hour[j]

IInv == Types /\ HourInOrder /\ Sources /\ Copying /\ CopyInOrder


-----------------------------------------------------------------------------
LEMMA Bounds ==
  /\ Hour \in Nat \ {0} /\ Patience \in Nat /\ PipeSize \in Nat \ {0}
  /\ MaxStarts \in Nat \ {0} /\ MaxMinutes \in Nat /\ MaxActs \in Nat
BY LinkAssumption

LEMMA TypesSuffice == Types => TypeOK
BY DEF Types, Flags, Counts, Kept, Pipes, Curves, TypeOK, Links, Numbers

LEMMA SettingsAreSettings == Settings \subseteq Setting
BY LinkAssumption DEF Setting, Part

LEMMA LinkFields ==
  ASSUME NEW l \in Links
  PROVE  /\ \A q \in Seq(Setting) : LET k == [l EXCEPT !.to = q] IN k \in Links /\ k.to = q
         /\ \A t \in NONE .. Patience :
              LET k == [l EXCEPT !.time_out_thread = t] IN k \in Links /\ k.to = l.to
         /\ \A id \in Numbers : LET k == [l EXCEPT !.temp_id = id] IN k \in Links /\ k.to = l.to
BY DEF Links

LEMMA EmptyPipe == <<>> \in Seq(Setting) /\ Len(<<>>) <= PipeSize
BY Bounds

(* A question keeps the link well formed and its pipe within its size.     *)
LEMMA AskTyped ==
  ASSUME Types, NEW l \in Links, Len(l.to) <= PipeSize, NEW q \in Setting
  PROVE  Ask(l, q) \in Links /\ Len(Ask(l, q).to) <= PipeSize
<1>1. Found \in Numbers
  BY Bounds DEF Found, Numbers, Types, Counts, Flags
<1>2. 0 \in NONE .. Patience
  BY LinkAssumption DEF NONE
<1>3. /\ Append(l.to, q) \in Seq(Setting)
      /\ Len(l.to) # PipeSize => Len(Append(l.to, q)) <= PipeSize
  BY LinkAssumption DEF Links
<1> QED
  BY <1>1, <1>2, <1>3 DEF Ask, send_ask_temp, Links

LEMMA WaitedTyped ==
  ASSUME NEW l \in Links, Len(l.to) <= PipeSize
  PROVE  Waited(l) \in Links /\ Len(Waited(l).to) <= PipeSize
BY LinkAssumption DEF Waited, Links, NONE

LEMMA TimerTyped ==
  ASSUME Types, NEW f \in Settings, NEW polls \in BOOLEAN,
         NEW p \in [trigger : Part("trigger"), timestop : Part("timestop")]
  PROVE  /\ TimerLink(polls, link, f, p) \in Links
         /\ Len(TimerLink(polls, link, f, p).to) <= PipeSize
<1> DEFINE asked == IF polls THEN Ask(link, Question(f, p)) ELSE link
           again == IF Changed(f, p) THEN Ask(asked, f) ELSE asked
<1>1. Question(f, p) \in Setting /\ f \in Setting
  BY SettingsAreSettings DEF Question, Setting, Part
<1>2. asked \in Links /\ Len(asked.to) <= PipeSize
  BY <1>1, AskTyped DEF Types, Pipes
<1>3. again \in Links /\ Len(again.to) <= PipeSize
  BY <1>1, <1>2, AskTyped
<1>4. TimerLink(polls, link, f, p) = Waited(again)
  BY DEF TimerLink
<1> QED
  BY <1>3, <1>4, WaitedTyped

(* A reading moves a curve and keeps it in order.                          *)
LEMMA FilledTyped ==
  ASSUME Types, CopyInOrder
  PROVE  /\ Filled(tab_temp) \in [1 .. Hour -> 0 .. MaxMinutes + 1]
         /\ \A i \in 1 .. Hour : Filled(tab_temp)[i] <= minute
         /\ ~stale /\ copied = Hour =>
              \A i, j \in 1 .. Hour : i < j => Filled(tab_temp)[i] <= Filled(tab_temp)[j]
<1>1. minute \in 0 .. MaxMinutes + 1 /\ tab_temp \in [1 .. Hour -> 0 .. MaxMinutes + 1]
  BY Bounds DEF Types, Counts, Curves
<1>2. Filled(tab_temp) \in [1 .. Hour -> 0 .. MaxMinutes + 1]
  BY <1>1, Bounds DEF Filled
<1>3. \A i \in 1 .. Hour :
        Filled(tab_temp)[i] = IF i < Hour THEN tab_temp[i + 1] ELSE minute
  BY DEF Filled
<1>4. \A i \in 1 .. Hour : i < Hour => i + 1 \in 1 .. Hour
  BY Bounds
<1>5. \A i \in 1 .. Hour : tab_temp[i] <= minute
  BY DEF CopyInOrder
<1>6. \A i \in 1 .. Hour : Filled(tab_temp)[i] <= minute
  BY <1>1, <1>3, <1>4, <1>5, Bounds
<1>7. ASSUME ~stale, copied = Hour, NEW i \in 1 .. Hour, NEW j \in 1 .. Hour, i < j
      PROVE  Filled(tab_temp)[i] <= Filled(tab_temp)[j]
  <2>1. i < Hour /\ Filled(tab_temp)[i] = tab_temp[i + 1]
    BY <1>3, <1>7, Bounds
  <2>2. CASE j = Hour
    BY <1>3, <1>4, <1>5, <2>1, <2>2
  <2>3. CASE j < Hour
    BY <1>3, <1>4, <1>7, <2>1, <2>3, Bounds DEF CopyInOrder
  <2> QED
    BY <2>2, <2>3, Bounds
<1> QED
  BY <1>2, <1>6, <1>7

-----------------------------------------------------------------------------
LEMMA InitIInv == ASSUME Init PROVE IInv
<1>1. Types
  <2>1. Kept
    BY SettingsAreSettings DEF Init, Kept, Times, Part
  <2>2. Pipes
    BY Bounds DEF Init, Pipes, Links, Numbers, NONE
  <2>3. Curves
    BY Bounds DEF Init, Empty, Curves
  <2>4. Counts
    BY Bounds DEF Init, Counts
  <2>5. Flags
    <3>1. /\ loaded \in BOOLEAN /\ open \in BOOLEAN /\ thread \in BOOLEAN
          /\ running \in BOOLEAN /\ stale \in BOOLEAN /\ old_stop \in BOOLEAN
      BY Zenon DEF Init
    <3>2. /\ selection \in PAGES /\ service \in Services
          /\ pc \in {"turn", "alert", "temp", "sensor", "shift", "alarm", "wait", "off"}
      BY DEF Init, PAGES
    <3> QED
      BY <3>1, <3>2 DEF Flags
  <2> QED
    BY <2>1, <2>2, <2>3, <2>4, <2>5 DEF Types
<1>2. HourInOrder /\ CopyInOrder
  BY Bounds DEF Init, Empty, HourInOrder, CopyInOrder, NONE
<1>3. Sources
  BY Bounds DEF Init, Sources, NONE
<1>4. Copying
  BY Zenon DEF Init, Copying
<1> QED
  BY <1>1, <1>2, <1>3, <1>4 DEF IInv
-----------------------------------------------------------------------------
(* Each action keeps the types.                                            *)
LEMMA PanelTypes ==
  ASSUME IInv, CpxInit \/ CpxCall \/ CpxTimer \/ Hook \/ Copy \/ Discard
  PROVE  Types'
<1> USE Bounds DEF IInv, Types
<1>1. CASE CpxInit
  <2>1. Flags'
    BY <1>1 DEF Flags, CpxInit, Launch
  <2>2. Counts'
    BY <1>1 DEF Counts, CpxInit, Launch
  <2>3. Kept'
    BY <1>1, SettingsAreSettings DEF Kept, CpxInit, Launch
  <2>4. Pipes'
    <3>1. start_temp \in Numbers
      BY DEF start_temp, Found, Numbers, Counts, Flags
    <3>2. link' \in Links /\ link'.to = link.to
      BY <1>1, <3>1, LinkFields DEF Pipes, CpxInit
    <3> QED
      BY <1>1, <3>2 DEF Pipes, CpxInit
  <2>5. Curves'
    BY <1>1 DEF Curves, CpxInit
  <2> QED
    BY <2>1, <2>2, <2>3, <2>4, <2>5
<1>2. CASE CpxCall
  <2>1. Flags'
    BY <1>2 DEF Flags, CpxCall, TimerRest, PAGES, serviceVars
  <2>2. Counts'
    BY <1>2 DEF Counts, CpxCall, serviceVars
  <2>3. Kept'
    BY <1>2 DEF Kept, CpxCall, TimerRest, Part, serviceVars
  <2>4. Pipes'
    <3>1. Times(header) \in [trigger : Part("trigger"), timestop : Part("timestop")]
      BY DEF Kept, Times, Part
    <3>2. TimerLink(TRUE, link, header, Times(header)) \in Links
          /\ Len(TimerLink(TRUE, link, header, Times(header)).to) <= PipeSize
      BY <3>1, TimerTyped DEF Kept
    <3> QED
      BY <1>2, <3>2, AskTyped, SettingsAreSettings DEF Pipes, Kept, CpxCall, serviceVars
  <2>5. Curves'
    BY <1>2, FilledTyped DEF Curves, CpxCall, TimerRest, serviceVars
  <2> QED
    BY <2>1, <2>2, <2>3, <2>4, <2>5
<1>3. CASE CpxTimer
  <2>1. Flags'
    BY <1>3 DEF Flags, CpxTimer, serviceVars
  <2>2. Counts'
    BY <1>3 DEF Counts, CpxTimer, serviceVars
  <2>3. Kept'
    BY <1>3 DEF Kept, CpxTimer, TimerRest, Part, serviceVars
  <2>4. Pipes'
    <3>1. (selection \in Polling) \in BOOLEAN
      BY DEF Polling
    <3>2. link' \in Links /\ Len(link'.to) <= PipeSize
      BY <1>3, <3>1, TimerTyped, Zenon DEF Kept, CpxTimer
    <3> QED
      BY <1>3, <3>2 DEF Pipes, CpxTimer, serviceVars
  <2>5. Curves'
    BY <1>3, FilledTyped DEF Curves, CpxTimer, TimerRest, serviceVars
  <2> QED
    BY <2>1, <2>2, <2>3, <2>4, <2>5
<1>4. CASE Hook
  <2>1. Flags'
    BY <1>4 DEF Flags, Hook, serviceVars
  <2>2. Counts'
    BY <1>4 DEF Counts, Hook, serviceVars
  <2>3. Kept'
    BY <1>4 DEF Kept, Hook, serviceVars
  <2>4. Pipes'
    <3>1. /\ Head(inbox) \in 1 .. MaxStarts /\ Tail(inbox) \in Seq(1 .. MaxStarts)
          /\ Len(Tail(inbox)) <= PipeSize
      BY <1>4 DEF Pipes, Hook
    <3>2. NONE \in NONE .. Patience
      BY DEF NONE
    <3>3. link' \in Links /\ link'.to = link.to
      <4>1. CASE link' = [link EXCEPT !.time_out_thread = NONE]
        BY <3>2, <4>1, LinkFields DEF Pipes
      <4>2. CASE link' = link
        BY <4>2 DEF Pipes
      <4> QED
        BY <1>4, <4>1, <4>2, Zenon DEF Hook
    <3> QED
      BY <1>4, <3>1, <3>3 DEF Pipes, Hook, Numbers, serviceVars
  <2>5. Curves'
    BY <1>4 DEF Curves, Hook, serviceVars
  <2> QED
    BY <2>1, <2>2, <2>3, <2>4, <2>5
<1>5. CASE Copy
  <2>1. Flags'
    BY <1>5 DEF Flags, Copy, serviceVars
  <2>2. Counts'
    BY <1>5 DEF Counts, Copy, serviceVars
  <2>3. Kept'
    BY <1>5 DEF Kept, Copy, serviceVars
  <2>4. Pipes'
    BY <1>5 DEF Pipes, Copy, Numbers, serviceVars
  <2>5. Curves'
    <3>1. minute \in 0 .. MaxMinutes + 1 /\ 0 \in 0 .. MaxMinutes + 1
      BY DEF Counts
    <3>2. copied + 1 \in 1 .. Hour
      BY <1>5 DEF Copy, Counts
    <3>3. PICK x \in 0 .. MaxMinutes + 1 : tab_temp' = [tab_temp EXCEPT ![copied + 1] = x]
      BY <1>5, <3>1, <3>2 DEF Copy, Curves
    <3> QED
      BY <1>5, <3>3 DEF Curves, Copy, serviceVars
  <2> QED
    BY <2>1, <2>2, <2>3, <2>4, <2>5
<1>6. CASE Discard
  <2>1. Flags'
    BY <1>6 DEF Flags, Discard, serviceVars
  <2>2. Counts'
    BY <1>6 DEF Counts, Discard, serviceVars
  <2>3. Kept'
    BY <1>6 DEF Kept, Discard, serviceVars
  <2>4. Pipes'
    BY <1>6 DEF Pipes, Discard, serviceVars
  <2>5. Curves'
    BY <1>6 DEF Curves, Discard, serviceVars
  <2> QED
    BY <2>1, <2>2, <2>3, <2>4, <2>5
<1> QED
  BY <1>1, <1>2, <1>3, <1>4, <1>5, <1>6

LEMMA ServiceTypes ==
  ASSUME IInv, Service \/ SensorAlert \/ Terminate \/ NextMinute \/ \E s \in Settings : Restart(s)
  PROVE  Types'
<1> USE Bounds DEF IInv, Types
<1>1. CASE Turn
  <2>1. Flags'
    <3>1. old_stop' \in BOOLEAN
      BY <1>1, Zenon DEF Turn, test_stop
    <3>2. pc' \in {"alert", "temp"}
      BY <1>1, Zenon DEF Turn
    <3> QED
      BY <1>1, <3>1, <3>2 DEF Flags, Turn, panelVars
  <2>2. Counts'
    BY <1>1 DEF Counts, Turn, Act, panelVars
  <2>3. Kept'
    BY <1>1 DEF Kept, Turn, Act, panelVars
  <2>4. Pipes'
    BY <1>1 DEF Pipes, Turn, Act, panelVars
  <2>5. Curves'
    BY <1>1 DEF Curves, Turn, Act, panelVars
  <2> QED
    BY <2>1, <2>2, <2>3, <2>4, <2>5
<1>2. CASE Alert
  BY <1>2 DEF Alert, serviceRest, panelVars, Flags, Counts, Kept, Pipes, Curves
<1>3. CASE read_temp
  BY <1>3 DEF read_temp, Record, serviceRest, panelVars, Flags, Counts, Kept, Pipes, Curves
<1>4. CASE SensorAlert
  BY <1>4 DEF SensorAlert, Record, serviceRest, panelVars, Flags, Counts, Kept, Pipes, Curves
<1>5. CASE Shift
  <2>1. Flags'
    BY <1>5 DEF Flags, Shift, serviceRest, panelVars
  <2>2. Counts'
    BY <1>5 DEF Counts, Shift, serviceRest, panelVars
  <2>3. Kept'
    BY <1>5 DEF Kept, Shift, serviceRest, panelVars
  <2>4. Pipes'
    BY <1>5 DEF Pipes, Shift, serviceRest, panelVars
  <2>5. Curves'
    <3>1. time \in 0 .. MaxMinutes + 1 /\ Hour \in 1 .. Hour
      BY DEF Counts
    <3>2. shifted < Hour - 1 => shifted + 1 \in 1 .. Hour /\ shifted + 2 \in 1 .. Hour
      BY DEF Counts
    <3>3. hour' \in [1 .. Hour -> 0 .. MaxMinutes + 1]
      BY <1>5, <3>1, <3>2 DEF Curves, Shift
    <3> QED
      BY <1>5, <3>3 DEF Curves, Shift, serviceRest, panelVars
  <2> QED
    BY <2>1, <2>2, <2>3, <2>4, <2>5
<1>6. CASE Alarm
  BY <1>6 DEF Alarm, serviceRest, panelVars, Flags, Counts, Kept, Pipes, Curves
<1>7. CASE Serve
  <2>1. Flags'
    BY <1>7 DEF Flags, Serve
  <2>2. Counts'
    BY <1>7 DEF Counts, Serve
  <2>3. Kept'
    BY <1>7 DEF Kept, Pipes, Links, Serve
  <2>4. Pipes'
    <3>1. link.to # <<>> => Tail(link.to) \in Seq(Setting) /\ Len(Tail(link.to)) <= PipeSize
      BY DEF Pipes, Links
    <3>2. Len(inbox) < PipeSize => Append(inbox, starts) \in Seq(1 .. MaxStarts)
      BY <1>7 DEF Serve, Pipes, Counts
    <3>3. link' \in Links /\ Len(link'.to) <= PipeSize
      <4>1. CASE link.to # <<>> /\ link' = [link EXCEPT !.to = Tail(@)]
        BY <3>1, <4>1, LinkFields DEF Pipes
      <4>2. CASE link' = link
        BY <4>2 DEF Pipes
      <4> QED
        BY <1>7, <4>1, <4>2, Zenon DEF Serve
    <3>4. inbox' \in Seq(1 .. MaxStarts) /\ Len(inbox') <= PipeSize
      <4>1. CASE inbox' = Append(inbox, starts) /\ Len(inbox) < PipeSize
        BY <3>2, <4>1 DEF Pipes
      <4>2. CASE inbox' = inbox
        BY <4>2 DEF Pipes
      <4> QED
        BY <1>7, <4>1, <4>2, Zenon DEF Serve
    <3> QED
      BY <1>7, <3>3, <3>4 DEF Pipes, Serve
  <2>5. Curves'
    BY <1>7 DEF Curves, Serve
  <2> QED
    BY <2>1, <2>2, <2>3, <2>4, <2>5
<1>8. CASE Terminate
  <2>1. Flags'
    BY <1>8 DEF Flags, Terminate, Act
  <2>2. Counts'
    BY <1>8 DEF Counts, Terminate, Act
  <2>3. Kept'
    BY <1>8 DEF Kept, Terminate, Act
  <2>4. Pipes'
    <3>1. link' \in Links /\ link'.to = <<>>
      BY <1>8, EmptyPipe, LinkFields DEF Pipes, Terminate
    <3> QED
      BY <1>8, <3>1, EmptyPipe DEF Pipes, Terminate
  <2>5. Curves'
    BY <1>8 DEF Curves, Terminate, Act
  <2> QED
    BY <2>1, <2>2, <2>3, <2>4, <2>5
<1>9. CASE NextMinute
  BY <1>9 DEF NextMinute, panelVars, serviceVars, Flags, Counts, Kept, Pipes, Curves
<1>10. ASSUME NEW s \in Settings, Restart(s) PROVE Types'
  <2>1. Flags'
    BY <1>10 DEF Flags, Restart, Act, panelVars, Empty
  <2>2. Counts'
    BY <1>10 DEF Counts, Restart, Act, panelVars, Empty
  <2>3. Kept'
    BY <1>10, SettingsAreSettings DEF Kept, Restart, Act, panelVars, Empty
  <2>4. Pipes'
    BY <1>10 DEF Pipes, Restart, Act, panelVars, Empty
  <2>5. Curves'
    BY <1>10 DEF Curves, Restart, Act, panelVars, Empty
  <2> QED
    BY <2>1, <2>2, <2>3, <2>4, <2>5
<1> QED
  BY <1>1, <1>2, <1>3, <1>4, <1>5, <1>6, <1>7, <1>8, <1>9, <1>10 DEF Service

LEMMA UserTypes ==
  ASSUME IInv, User
  PROVE  Types'
<1> USE Bounds DEF IInv, Types
<1>1. CASE Redraw
  <2>1. Flags'
    BY <1>1 DEF Flags, Redraw, Act, serviceVars
  <2>2. Counts'
    BY <1>1 DEF Counts, Redraw, Act, serviceVars
  <2>3. Kept'
    BY <1>1 DEF Kept, Redraw, Act, serviceVars
  <2>4. Pipes'
    <3>1. Question(field, params) \in Setting
      BY SettingsAreSettings DEF Kept, Question, Setting, Part
    <3> QED
      BY <1>1, <3>1, AskTyped DEF Pipes, Redraw, Act, serviceVars
  <2>5. Curves'
    BY <1>1 DEF Curves, Redraw, Act, serviceVars
  <2> QED
    BY <2>1, <2>2, <2>3, <2>4, <2>5
<1>2. CASE Save
  BY <1>2 DEF Act, Save, panelRest, serviceVars, Flags, Counts, Kept, Pipes, Curves
<1>3. CASE Load
  BY <1>3 DEF Act, Load, serviceVars, Times, Part, Flags, Counts, Kept, Pipes, Curves
<1>4. CASE Close
  <2>1. Flags'
    BY <1>4 DEF Flags, Close, Act, panelRest, serviceVars
  <2>2. Counts'
    BY <1>4 DEF Counts, Close, Act, panelRest, serviceVars
  <2>3. Kept'
    BY <1>4 DEF Kept, Close, Act, panelRest, serviceVars
  <2>4. Pipes'
    BY <1>4 DEF Pipes, Close, Act, panelRest, serviceVars
  <2>5. Curves'
    BY <1>4 DEF Curves, Close, Act, panelRest, serviceVars
  <2> QED
    BY <2>1, <2>2, <2>3, <2>4, <2>5
<1>5. ASSUME NEW page \in PAGES, Select(page) PROVE Types'
  BY <1>5 DEF Act, Select, panelRest, serviceVars, Flags, Counts, Kept, Pipes, Curves
<1>6. ASSUME NEW s \in Settings, Edit(s) PROVE Types'
  BY <1>6 DEF Act, Edit, panelRest, serviceVars, Flags, Counts, Kept, Pipes, Curves
<1> QED
  BY <1>1, <1>2, <1>3, <1>4, <1>5, <1>6 DEF User

LEMMA TypesKept == ASSUME IInv, [Next]_vars PROVE Types'
<1>1. ASSUME UNCHANGED vars PROVE Types'
  BY <1>1 DEF IInv, Types, Flags, Counts, Kept, Pipes, Curves, vars, panelVars, serviceVars
<1> QED
  BY <1>1, PanelTypes, ServiceTypes, UserTypes, Zenon DEF Next

-----------------------------------------------------------------------------
(* The order of the service's curve, and of what the panel has copied.     *)
LEMMA HourKept ==
  ASSUME IInv, [Next]_vars
  PROVE  /\ HourInOrder'
         /\ starts' = starts => \A i \in 1 .. Hour : hour[i] <= hour'[i]
<1> DEFINE Grown == starts' = starts => \A i \in 1 .. Hour : hour[i] <= hour'[i]
<1> USE Bounds
<1>1. /\ \A i \in 1 .. Hour : hour[i] \in Nat
      /\ time \in Nat /\ minute \in Nat /\ time <= minute
      /\ shifted \in 0 .. Hour
  BY DEF IInv, Types, Counts, Curves
<1>2. CASE UNCHANGED <<hour, time>>
  BY <1>1, <1>2 DEF IInv, HourInOrder
<1>3. CASE Turn
  <2>1. time' = minute /\ hour' = hour
    BY <1>3 DEF Turn
  <2> QED
    BY <1>1, <2>1 DEF IInv, HourInOrder
<1>4. CASE Shift
  <2>1. time' = time
    BY <1>4 DEF Shift, serviceRest
  <2>2. CASE shifted < Hour - 1
    <3>1. hour' = [hour EXCEPT ![shifted + 1] = hour[shifted + 2]]
      BY <1>4, <2>2 DEF Shift
    <3>2. \A i \in 1 .. Hour : hour'[i] = IF i = shifted + 1 THEN hour[i + 1] ELSE hour[i]
      BY <1>1, <3>1 DEF IInv, Types, Curves
    <3>3. shifted + 1 \in 1 .. Hour /\ shifted + 2 \in 1 .. Hour
      BY <1>1, <2>2
    <3> QED
      BY <1>1, <2>1, <3>2, <3>3 DEF IInv, HourInOrder
  <2>3. CASE ~(shifted < Hour - 1)
    <3>1. \A i \in 1 .. Hour : hour'[i] = IF i = Hour THEN time ELSE hour[i]
      BY <1>4, <2>3 DEF Shift, IInv, Types, Curves
    <3> QED
      BY <1>1, <2>1, <3>1 DEF IInv, HourInOrder
  <2> QED
    BY <2>2, <2>3
<1>5. ASSUME NEW s \in Settings, Restart(s)
      PROVE  HourInOrder' /\ Grown
  <2>1. hour' = Empty /\ time' = time /\ starts' # starts
    BY <1>5 DEF Restart, IInv, Types, Counts
  <2> QED
    BY <1>1, <2>1 DEF HourInOrder, Empty
<1>6. \/ UNCHANGED <<hour, time>> \/ Turn \/ Shift \/ \E s \in Settings : Restart(s)
  <2>1. CASE CpxInit \/ CpxCall \/ CpxTimer \/ Hook \/ Copy \/ Discard
    BY <2>1 DEF CpxInit, CpxCall, CpxTimer, Hook, Copy, Discard, serviceVars
  <2>2. CASE User
    BY <2>2 DEF User, Redraw, Select, Edit, Save, Load, Close, panelRest, serviceVars
  <2>3. CASE Alert \/ read_temp \/ Alarm \/ SensorAlert
    BY <2>3 DEF Alert, read_temp, Alarm, SensorAlert, serviceRest
  <2>4. CASE Serve \/ Terminate \/ NextMinute
    BY <2>4 DEF Serve, Terminate, NextMinute, serviceVars
  <2> QED
    BY <2>1, <2>2, <2>3, <2>4, Zenon DEF Next, Service, vars, serviceVars
<1> QED
  BY <1>2, <1>3, <1>4, <1>5, <1>6

LEMMA SourcesKept == ASSUME IInv, [Next]_vars PROVE Sources'
<1> USE Bounds
<1>1. /\ starts \in Nat /\ inbox \in Seq(1 .. MaxStarts)
      /\ source \in Int /\ source <= starts /\ \A k \in 1 .. Len(inbox) : inbox[k] <= starts
  BY DEF IInv, Types, Counts, Pipes, Numbers, NONE, Sources
<1>2. inbox # <<>> =>
        /\ Head(inbox) <= starts
        /\ \A k \in 1 .. Len(Tail(inbox)) : Tail(inbox)[k] <= starts
  BY <1>1
<1>3. CASE UNCHANGED <<source, starts, inbox>>
  BY <1>1, <1>3 DEF Sources
<1>4. CASE CpxInit
  <2>1. UNCHANGED <<source, inbox>>
    BY <1>4 DEF CpxInit
  <2>2. starts' >= starts /\ starts' \in Nat
    <3>1. starts' = starts \/ (starts' = 1 /\ service \in {"app", "thread"})
      BY <1>4, Zenon DEF CpxInit, Launch
    <3>2. service \in {"app", "thread"} => starts = 0
      BY <1>4 DEF CpxInit, IInv, Copying
    <3> QED
      BY <1>1, <3>1, <3>2
  <2> QED
    BY <1>1, <2>1, <2>2 DEF Sources
<1>5. CASE Hook
  BY <1>1, <1>2, <1>5 DEF Hook, Sources, serviceVars
<1>6. CASE Copy
  BY <1>1, <1>6 DEF Copy, Sources, serviceVars, NONE
<1>7. CASE Discard
  BY <1>1, <1>2, <1>7 DEF Discard, Sources, serviceVars
<1>8. CASE Serve
  <2>1. UNCHANGED <<source, starts>> /\ inbox' \in {inbox, Append(inbox, starts)}
    BY <1>8 DEF Serve
  <2> QED
    BY <1>1, <2>1 DEF Sources
<1>9. ASSUME NEW s \in Settings, Restart(s) PROVE Sources'
  <2>1. starts' = starts + 1 /\ UNCHANGED <<source, inbox>>
    BY <1>9 DEF Restart, panelVars
  <2> QED
    BY <1>1, <2>1 DEF Sources
<1>10. \/ UNCHANGED <<source, starts, inbox>>
       \/ CpxInit \/ Hook \/ Copy \/ Discard \/ Serve \/ \E s \in Settings : Restart(s)
  <2>1. CASE CpxCall \/ CpxTimer
    BY <2>1 DEF CpxCall, CpxTimer, serviceVars
  <2>2. CASE User
    BY <2>2 DEF User, Redraw, Select, Edit, Save, Load, Close, panelRest, serviceVars
  <2>3. CASE Turn \/ Alert \/ read_temp \/ Shift \/ Alarm \/ SensorAlert
    BY <2>3 DEF Turn, Alert, read_temp, Shift, Alarm, SensorAlert, serviceRest, panelVars
  <2>4. CASE Terminate \/ NextMinute
    BY <2>4 DEF Terminate, NextMinute, panelVars, serviceVars
  <2> QED
    BY <2>1, <2>2, <2>3, <2>4, Zenon DEF Next, Service, vars, panelVars, serviceVars
<1> QED
  BY <1>3, <1>4, <1>5, <1>6, <1>7, <1>8, <1>9, <1>10

LEMMA CopyingKept == ASSUME IInv, [Next]_vars PROVE Copying'
<1>1. Copying
  BY DEF IInv
<1>2. CASE UNCHANGED <<loaded, open, copied, service, starts>>
  BY <1>1, <1>2 DEF Copying
<1>3. CASE CpxInit
  BY <1>1, <1>3 DEF Copying, CpxInit
<1>4. CASE CpxCall
  BY <1>1, <1>4 DEF Copying, CpxCall, serviceVars
<1>5. CASE Hook
  BY <1>1, <1>5 DEF Copying, Hook
<1>6. CASE Copy
  <2>1. open /\ loaded
    BY <1>1, <1>6, Bounds DEF Copying, Copy
  <2> QED
    BY <1>6, <2>1 DEF Copying, Copy
<1>7. CASE Close
  BY <1>1, <1>7 DEF Copying, Close, Idle, panelRest, serviceVars
<1>8. ASSUME NEW s \in Settings, Restart(s) PROVE Copying'
  BY <1>1, <1>8 DEF Copying, Restart, panelVars
<1>9. \/ UNCHANGED <<loaded, open, copied, service, starts>>
      \/ CpxInit \/ CpxCall \/ Hook \/ Copy \/ Close \/ \E s \in Settings : Restart(s)
  <2>1. CASE CpxTimer \/ Discard
    BY <2>1 DEF CpxTimer, Discard, serviceVars
  <2>2. CASE User
    BY <2>2 DEF User, Redraw, Select, Edit, Save, Load, panelRest, serviceVars
  <2>3. CASE Service \/ SensorAlert
    BY <2>3 DEF Service, Turn, Alert, read_temp, Shift, Alarm, Serve, SensorAlert, serviceRest, panelVars
  <2>4. CASE Terminate \/ NextMinute
    BY <2>4 DEF Terminate, NextMinute, panelVars, serviceVars
  <2> QED
    BY <2>1, <2>2, <2>3, <2>4, Zenon DEF Next, vars, panelVars, serviceVars
<1> QED
  BY <1>2, <1>3, <1>4, <1>5, <1>6, <1>7, <1>8, <1>9

LEMMA CopyKept == ASSUME IInv, [Next]_vars PROVE CopyInOrder'
<1> USE Bounds
<1>1. /\ minute \in Nat /\ minute' \in Nat /\ minute <= minute' /\ time <= minute
      /\ starts \in Nat /\ source \in Int /\ copied \in 0 .. Hour
      /\ tab_temp \in [1 .. Hour -> Nat] /\ hour \in [1 .. Hour -> Nat] /\ hour' \in [1 .. Hour -> Nat]
  <2>1. Types /\ Types'
    BY TypesKept DEF IInv
  <2>2. minute' = minute \/ minute' = minute + 1
    BY DEF Next, NextMinute, CpxInit, CpxCall, CpxTimer, Hook, Copy, Discard, User, Redraw, Select, Edit,
           Save, Load, Close, panelRest, Service, Turn, Alert, read_temp, Shift, Alarm, Serve,
           SensorAlert, Terminate, Restart, serviceRest, vars
  <2>3. minute \in Nat /\ minute' \in Nat /\ minute <= minute' /\ time <= minute
    BY <2>1, <2>2 DEF Types, Counts
  <2>4. starts \in Nat /\ copied \in 0 .. Hour /\ source \in Int
    BY <2>1 DEF Types, Counts, Pipes, Numbers, NONE
  <2>5. tab_temp \in [1 .. Hour -> Nat] /\ hour \in [1 .. Hour -> Nat] /\ hour' \in [1 .. Hour -> Nat]
    BY <2>1 DEF Types, Curves
  <2> QED
    BY <2>3, <2>4, <2>5
<1>2. /\ HourInOrder
      /\ starts' = starts => \A i \in 1 .. Hour : hour[i] <= hour'[i]
  BY HourKept DEF IInv
<1>3. CopyInOrder /\ Copying
  BY DEF IInv
<1>4. ASSUME UNCHANGED <<tab_temp, copied, source, stale>>,
             copied < Hour /\ source = starts' /\ running' => starts' = starts /\ running
      PROVE  CopyInOrder'
  <2>1. \A i \in 1 .. Hour : tab_temp'[i] <= minute'
    BY <1>1, <1>3, <1>4 DEF CopyInOrder
  <2>2. ~stale' => \A i, j \in 1 .. copied' : i < j => tab_temp'[i] <= tab_temp'[j]
    BY <1>3, <1>4 DEF CopyInOrder
  <2>3. ASSUME ~stale', copied' < Hour /\ running' /\ source' = starts',
               NEW i \in 1 .. copied', NEW j \in copied' + 1 .. Hour
        PROVE  tab_temp'[i] <= hour'[j]
    <3>1. starts' = starts /\ running /\ source = starts /\ i \in 1 .. copied /\ j \in copied + 1 .. Hour
      BY <1>4, <2>3
    <3>2. tab_temp[i] <= hour[j]
      BY <1>3, <1>4, <2>3, <3>1 DEF CopyInOrder
    <3>3. i \in 1 .. Hour /\ j \in 1 .. Hour
      BY <1>1, <3>1
    <3>4. hour[j] <= hour'[j]
      BY <1>2, <3>1, <3>3
    <3>5. tab_temp[i] \in Nat /\ hour[j] \in Nat /\ hour'[j] \in Nat /\ tab_temp' = tab_temp
      BY <1>1, <1>4, <3>3
    <3> QED
      BY <3>2, <3>4, <3>5
  <2> QED
    BY <2>1, <2>2, <2>3 DEF CopyInOrder
<1>5. ASSUME copied = Hour, tab_temp' \in {tab_temp, Filled(tab_temp)},
             UNCHANGED <<minute, copied, source, stale>>
      PROVE  CopyInOrder'
  <2>1. CASE tab_temp' = tab_temp
    BY <1>1, <1>3, <1>5, <2>1 DEF CopyInOrder
  <2>2. CASE tab_temp' = Filled(tab_temp)
    <3>1. /\ \A i \in 1 .. Hour : tab_temp'[i] <= minute
          /\ ~stale => \A i, j \in 1 .. Hour : i < j => tab_temp'[i] <= tab_temp'[j]
      BY <1>3, <1>5, <2>2, FilledTyped DEF IInv
    <3>2. UNCHANGED <<minute, copied, source, stale>> /\ copied = Hour
      BY <1>5
    <3> QED
      BY <1>1, <3>1, <3>2 DEF CopyInOrder
  <2> QED
    BY <1>5, <2>1, <2>2
<1>6. CASE CpxCall \/ CpxTimer
  BY <1>3, <1>5, <1>6 DEF CpxCall, CpxTimer, TimerRest, Copying, Idle
<1>7. CASE Hook
  <2>1. UNCHANGED <<tab_temp, minute, running, starts>>
    BY <1>7 DEF Hook, serviceVars
  <2>2. CASE UNCHANGED <<copied, source, stale>>
    BY <1>4, <2>1, <2>2
  <2>3. CASE copied' = 0 /\ source' = Head(inbox)
    <3>1. \A i \in 1 .. Hour : tab_temp[i] <= minute
      BY <1>3 DEF CopyInOrder
    <3> QED
      BY <2>1, <2>3, <3>1 DEF CopyInOrder
  <2> QED
    BY <1>7, <2>2, <2>3 DEF Hook
<1>8. CASE Copy
  <2>1. UNCHANGED <<hour, minute, starts, running>> /\ copied' = copied + 1 /\ copied < Hour
    BY <1>8 DEF Copy, serviceVars
  <2>2. CASE running /\ source = starts
    <3>1. \A i \in 1 .. Hour : tab_temp'[i] = IF i = copied + 1 THEN hour[i] ELSE tab_temp[i]
      BY <1>1, <1>8, <2>2 DEF Copy
    <3>2. stale' = stale
      BY <1>8, <2>2 DEF Copy
    <3>3. \A i \in 1 .. Hour : tab_temp'[i] <= minute'
      <4>1. \A i \in 1 .. Hour : hour[i] <= minute
        BY <1>1, <1>2 DEF HourInOrder, IInv, Types, Counts
      <4>2. \A i \in 1 .. Hour : tab_temp[i] <= minute
        BY <1>3 DEF CopyInOrder
      <4> QED
        BY <2>1, <3>1, <4>1, <4>2
    <3>4. ASSUME ~stale PROVE \A i \in 1 .. copied, j \in copied + 1 .. Hour : tab_temp[i] <= hour[j]
      BY <1>3, <2>1, <2>2, <3>4 DEF CopyInOrder
    <3>5. ASSUME ~stale, NEW i \in 1 .. copied + 1, NEW j \in 1 .. copied + 1, i < j
          PROVE  tab_temp'[i] <= tab_temp'[j]
      <4>1. i \in 1 .. copied /\ i \in 1 .. Hour /\ j \in 1 .. Hour /\ copied + 1 \in copied + 1 .. Hour
        BY <1>1, <2>1, <3>5
      <4>2. CASE j = copied + 1
        BY <3>1, <3>4, <3>5, <4>1, <4>2
      <4>3. CASE j \in 1 .. copied
        BY <1>1, <1>3, <3>1, <3>5, <4>1, <4>3 DEF CopyInOrder
      <4> QED
        BY <1>1, <3>5, <4>2, <4>3
    <3>6. ASSUME ~stale, NEW i \in 1 .. copied + 1, NEW j \in copied + 2 .. Hour
          PROVE  tab_temp'[i] <= hour[j]
      <4>1. i \in 1 .. Hour /\ j \in 1 .. Hour /\ j \in copied + 1 .. Hour
        BY <1>1, <2>1, <3>6
      <4>2. CASE i = copied + 1
        BY <1>1, <1>2, <3>1, <3>6, <4>1, <4>2 DEF HourInOrder
      <4>3. CASE i \in 1 .. copied
        BY <1>1, <3>1, <3>4, <3>6, <4>1, <4>3
      <4> QED
        BY <1>1, <3>6, <4>2, <4>3
    <3> QED
      BY <1>1, <2>1, <3>2, <3>3, <3>5, <3>6 DEF CopyInOrder
  <2>3. CASE ~(running /\ source = starts)
    <3>1. PICK x \in {0, minute} : tab_temp' = [tab_temp EXCEPT ![copied + 1] = x]
      BY <1>8, <2>3 DEF Copy
    <3>2. stale'
      BY <1>8, <2>3 DEF Copy
    <3> QED
      BY <1>1, <1>3, <2>1, <3>1, <3>2 DEF CopyInOrder
  <2> QED
    BY <2>2, <2>3
<1>9. CASE CpxInit
  BY <1>1, <1>3, <1>4, <1>9 DEF CpxInit, Copying
<1>10. ASSUME NEW s \in Settings, Restart(s) PROVE CopyInOrder'
  <2>1. starts' = starts + 1 /\ source <= starts
    BY <1>10 DEF Restart, IInv, Sources
  <2> QED
    BY <1>1, <1>4, <1>10, <2>1 DEF Restart, panelVars
<1>11. CASE Discard
  BY <1>4, <1>11 DEF Discard, serviceVars
<1>12. CASE User
  BY <1>4, <1>12 DEF User, Redraw, Select, Edit, Save, Load, Close, panelRest, serviceVars
<1>13. CASE Service \/ SensorAlert
  BY <1>4, <1>13 DEF Service, Turn, Alert, read_temp, Shift, Alarm, Serve, SensorAlert, serviceRest, panelVars
<1>14. CASE Terminate \/ NextMinute
  BY <1>4, <1>14 DEF Terminate, NextMinute, panelVars, serviceVars
<1>15. CASE UNCHANGED vars
  BY <1>4, <1>15 DEF vars, panelVars, serviceVars
<1> QED
  BY <1>6, <1>7, <1>8, <1>9, <1>10, <1>11, <1>12, <1>13, <1>14, <1>15, Zenon DEF Next

-----------------------------------------------------------------------------
(* Theorem TypeCorrect: each step of panel, service and user keeps the     *)
(* types of their state: no pipe of the AES grows past its size, and the   *)
(* wait for an answer past its patience (cpx_timer, temp_thread).          *)
THEOREM TypeCorrect == Spec => []TypeOK
<1>1. Init => IInv
  BY InitIInv
<1>2. IInv /\ [Next]_vars => IInv'
  BY TypesKept, HourKept, SourcesKept, CopyingKept, CopyKept DEF IInv
<1>3. IInv => TypeOK
  BY TypesSuffice DEF IInv
<1> QED
  BY <1>1, <1>2, <1>3, PTL DEF Spec

(* Theorem CurveNeverRunsBack: the curve of the panel is in order whenever *)
(* it is drawn, although cpx_hook copies it entry by entry from a memory   *)
(* temp_thread is shifting and cpx_timer moves it too.                     *)
THEOREM CurveNeverRunsBack == Spec => []CurveInOrder
<1>1. Init => IInv
  BY InitIInv
<1>2. IInv /\ [Next]_vars => IInv'
  BY TypesKept, HourKept, SourcesKept, CopyingKept, CopyKept DEF IInv
<1>3. IInv => CurveInOrder
  BY DEF IInv, CopyInOrder, CurveInOrder, Idle
<1> QED
  BY <1>1, <1>2, <1>3, PTL DEF Spec
=============================================================================
