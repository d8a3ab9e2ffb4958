-------------------------- MODULE JtagChain_proofs --------------------------
(***************************************************************************)
(* The driver knows where the chips are: for every register length, chain, *)
(* set of calls and number of retries.                                     *)
(***************************************************************************)
EXTENDS JtagChain, SequenceTheorems, TLAPS

(* The states the chips can be in after n clocks with TMS high, from any   *)
(* state: after five, only Test-Logic-Reset.                               *)
AfterHigh ==
  <<TapState,
    {RESET, SELECTDR, SELECTIR, EXIT1DR, UPDATEDR, EXIT2DR, EXIT1IR, UPDATEIR, EXIT2IR},
    {RESET, SELECTDR, SELECTIR, UPDATEDR, UPDATEIR},
    {RESET, SELECTDR, SELECTIR},
    {RESET, SELECTIR},
    {RESET}>>

Shifting == {SHIFTIR, SHIFTDR}
Moving == pc \in {"enter", "reset", "move"}

Types ==
  /\ tap \in TapState /\ tap_state \in TapState /\ goal \in TapState
  /\ tms \in Bit
  /\ pc \in {"sync", "test", "idle", "enter", "reset", "move", "shift", "head", "bits",
             "extra", "settle", "wait", "again"}
  /\ then \in {"idle", "shift", "wait", "extra", "settle"}
  /\ left \in Nat /\ bits_left \in Nat /\ total \in Nat
  /\ call.start \in {RUNTEST} \cup Shifting
  /\ call.bits \in Seq(Bit)
  /\ call.bits # <<>> => call.start \in Shifting

(* The two reset sequences, each with the clocks it still has to give. *)
Resetting ==
  /\ pc = "sync" => left \in 0 .. 5 /\ tap \in AfterHigh[6 - left]
  /\ pc = "test" => tap = RUNTEST
  /\ pc = "reset" => left \in 1 .. 5 /\ goal = RESET /\ tap \in AfterHigh[7 - left]

(* What the driver and the chips hold in common outside of them. *)
Common ==
  /\ pc \notin {"sync", "reset", "bits"} =>
       tap = tap_state \/ (tap_state = RESET /\ tap = RUNTEST)
  /\ pc \notin {"sync", "reset"} /\ tap \in {RUNTEST} \cup Shifting => tms = 0

(* What ChangeTapState was called for. *)
Purpose ==
  /\ Moving /\ then = "shift" => goal = call.start /\ call.start \in Shifting
  /\ Moving /\ then = "wait" => goal = RUNTEST
  /\ Moving /\ then = "extra" => goal = PAUSEDR
  /\ Moving /\ then = "settle" => goal \in {RUNTEST, SHIFTDR}
  /\ Moving /\ then \in {"shift", "extra", "settle"} => call.bits # <<>>

(* The shift, with the bits it still has to clock. *)
InShift ==
  /\ pc \in {"shift", "head"} => tap = call.start /\ tap_state = call.start
  /\ pc \in {"shift", "head", "bits", "extra"} \/ mismatch => call.bits # <<>>
  /\ pc = "head" => 0 < bits_left /\ bits_left <= total
  /\ pc = "bits" =>
       /\ bits_left <= total
       /\ tap_state = call.start
       /\ tap = IF total = 0 THEN call.start + 1 ELSE call.start
       /\ tms = IF total = 0 THEN 1 ELSE 0
  /\ pc = "wait" => tap = RUNTEST

JInv == Types /\ Resetting /\ Common /\ Purpose /\ InShift
-----------------------------------------------------------------------------
USE DEF RESET, RUNTEST, SELECTDR, CAPTUREDR, SHIFTDR, EXIT1DR, PAUSEDR, EXIT2DR,
        UPDATEDR, SELECTIR, CAPTUREIR, SHIFTIR, EXIT1IR, PAUSEIR, EXIT2IR, UPDATEIR

(* The controller's diagram, one state at a time. *)
LEMMA Diagram ==
  ASSUME NEW s \in TapState
  PROVE  /\ s = 0 => TapNext(s, 0) = 1 /\ TapNext(s, 1) = 0
         /\ s = 1 => TapNext(s, 0) = 1 /\ TapNext(s, 1) = 2
         /\ s = 2 => TapNext(s, 0) = 3 /\ TapNext(s, 1) = 9
         /\ s = 3 => TapNext(s, 0) = 4 /\ TapNext(s, 1) = 5
         /\ s = 4 => TapNext(s, 0) = 4 /\ TapNext(s, 1) = 5
         /\ s = 5 => TapNext(s, 0) = 6 /\ TapNext(s, 1) = 8
         /\ s = 6 => TapNext(s, 0) = 6 /\ TapNext(s, 1) = 7
         /\ s = 7 => TapNext(s, 0) = 4 /\ TapNext(s, 1) = 8
         /\ s = 8 => TapNext(s, 0) = 1 /\ TapNext(s, 1) = 2
         /\ s = 9 => TapNext(s, 0) = 10 /\ TapNext(s, 1) = 0
         /\ s = 10 => TapNext(s, 0) = 11 /\ TapNext(s, 1) = 12
         /\ s = 11 => TapNext(s, 0) = 11 /\ TapNext(s, 1) = 12
         /\ s = 12 => TapNext(s, 0) = 13 /\ TapNext(s, 1) = 15
         /\ s = 13 => TapNext(s, 0) = 13 /\ TapNext(s, 1) = 14
         /\ s = 14 => TapNext(s, 0) = 11 /\ TapNext(s, 1) = 15
         /\ s = 15 => TapNext(s, 0) = 1 /\ TapNext(s, 1) = 2
<1>1. /\ TapLow[1] = 1 /\ TapLow[2] = 1 /\ TapLow[3] = 3 /\ TapLow[4] = 4
      /\ TapLow[5] = 4 /\ TapLow[6] = 6 /\ TapLow[7] = 6 /\ TapLow[8] = 4
      /\ TapLow[9] = 1 /\ TapLow[10] = 10 /\ TapLow[11] = 11 /\ TapLow[12] = 11
      /\ TapLow[13] = 13 /\ TapLow[14] = 13 /\ TapLow[15] = 11 /\ TapLow[16] = 1
  BY DEF TapLow
<1>2. /\ TapHigh[1] = 0 /\ TapHigh[2] = 2 /\ TapHigh[3] = 9 /\ TapHigh[4] = 5
      /\ TapHigh[5] = 5 /\ TapHigh[6] = 8 /\ TapHigh[7] = 7 /\ TapHigh[8] = 8
      /\ TapHigh[9] = 2 /\ TapHigh[10] = 0 /\ TapHigh[11] = 12 /\ TapHigh[12] = 12
      /\ TapHigh[13] = 15 /\ TapHigh[14] = 14 /\ TapHigh[15] = 15 /\ TapHigh[16] = 2
  BY DEF TapHigh
<1>. QED  BY <1>1, <1>2 DEF TapNext

(* The diagram stays within the sixteen states, and only a clock with TMS  *)
(* low enters or keeps Run-Test/Idle or a shift state.                     *)
LEMMA DiagramType ==
  ASSUME NEW s \in TapState, NEW t \in Bit
  PROVE  /\ TapNext(s, t) \in TapState
         /\ TapNext(s, t) \in {RUNTEST} \cup Shifting => t = 0
BY Diagram DEF TapState, Bit, Shifting

(* A clock with TMS high brings the chips one step nearer to the reset. *)
LEMMA NearerReset ==
  ASSUME NEW k \in 1 .. 5, NEW s \in AfterHigh[k]
  PROVE  s \in TapState /\ TapNext(s, 1) \in AfterHigh[k + 1]
<1>1. CASE k = 1  BY <1>1, Diagram DEF AfterHigh, TapState
<1>2. CASE k = 2  BY <1>2, Diagram DEF AfterHigh, TapState
<1>3. CASE k = 3  BY <1>3, Diagram DEF AfterHigh, TapState
<1>4. CASE k = 4  BY <1>4, Diagram DEF AfterHigh, TapState
<1>5. CASE k = 5  BY <1>5, Diagram DEF AfterHigh, TapState
<1>. QED  BY <1>1, <1>2, <1>3, <1>4, <1>5

(* What ChangeTapState notes is what the clock it gives does. *)
LEMMA NotedIsDone ==
  ASSUME NEW s \in TapState, NEW g \in TapState
  PROVE  /\ Tms(s, g) \in Bit
         /\ Noted(s, g) = TapNext(s, Tms(s, g))
         /\ Tms(RESET, g) = 0 /\ Noted(RESET, g) = RUNTEST
<1>1. NotedLow = TapLow  BY DEF NotedLow, TapLow
<1>2. NotedHigh = TapHigh  BY DEF NotedHigh, TapHigh
<1>3. Tms(s, g) \in Bit /\ Noted(s, g) = TapNext(s, Tms(s, g))
  BY <1>1, <1>2 DEF Tms, Noted, TapNext, Bit
<1>4. LowGoals[1] = TapState /\ NotedLow[1] = RUNTEST  BY DEF LowGoals, NotedLow
<1>. QED  BY <1>3, <1>4 DEF Tms, Noted

(* Of a clock, what it does to the controllers' state. *)
LEMMA PulseMoves ==
  ASSUME NEW t, NEW b, Pulse(t, b)
  PROVE  tap' = TapNext(tap, t) /\ tms' = t
BY DEF Pulse

(* Without a clock the controllers stay where they are. *)
LEMMA NoPulseRests == NoPulse => UNCHANGED <<tap, tms>>
BY DEF NoPulse, chipVars

(* The invariant holds whatever state the chips are found in. *)
LEMMA JInit == Init => JInv
<1>. SUFFICES ASSUME Init PROVE JInv  OBVIOUS
<1>1. AfterHigh[1] = TapState  BY DEF AfterHigh
<1>2. Types
  BY DEF Init, Types, Shifting, TapState, Bit
<1>3. Resetting /\ Common /\ Purpose /\ InShift
  BY <1>1 DEF Init, Resetting, Common, Purpose, InShift, Moving
<1>. QED  BY <1>2, <1>3 DEF JInv

(* Every clock and every step of the driver keeps it. *)
LEMMA JNext == JtagAssumption /\ JInv /\ [Next]_vars => JInv'
<1>. SUFFICES ASSUME JtagAssumption, JInv, [Next]_vars PROVE JInv'  OBVIOUS
<1>. USE NoPulseRests
     DEF JInv, Types, Resetting, Common, Purpose, InShift, Moving, Shifting, Bit,
         moveVars, shiftVars
<1>1. CASE SyncReset
  <2>1. left \in 1 .. 5 /\ tap \in AfterHigh[6 - left] /\ tap' = TapNext(tap, 1) /\ tms' = 1
    BY <1>1, PulseMoves DEF SyncReset
  <2>2. left' \in 0 .. 5 /\ tap' \in AfterHigh[6 - left'] /\ tap' \in TapState
    BY <1>1, <2>1, NearerReset, DiagramType DEF SyncReset
  <2>. QED  BY <1>1, <2>1, <2>2 DEF SyncReset
<1>2. CASE SyncIdle
  BY <1>2, PulseMoves, Diagram DEF SyncIdle, AfterHigh, TapState
<1>3. CASE TestDevice
  BY <1>3 DEF TestDevice, TapState
<1>4. CASE EnterReset
  BY <1>4, PulseMoves, NearerReset DEF EnterReset, AfterHigh, TapState
<1>5. CASE ResetPulse
  <2>1. tap \in AfterHigh[7 - left] /\ left \in 1 .. 5 /\ tap' = TapNext(tap, 1) /\ tms' = 1
    BY <1>5, PulseMoves DEF ResetPulse
  <2>2. tap \in TapState /\ (left > 1 => tap' \in AfterHigh[7 - (left - 1)])
    BY <2>1, NearerReset
  <2>3. left = 1 => tap' = RESET
    BY <2>1, <2>2, Diagram DEF AfterHigh
  <2>4. CASE left = 1
    <3>1. /\ tap' = RESET /\ tap_state' = RESET /\ pc' = then /\ left' = 0 /\ tms' = 1
          /\ then = "idle"
      BY <1>5, <2>1, <2>3, <2>4 DEF ResetPulse
    <3>. QED  BY <1>5, <3>1 DEF ResetPulse, TapState
  <2>5. CASE left > 1
    <3>1. /\ tap' \in AfterHigh[7 - left'] /\ left' \in 1 .. 5 /\ UNCHANGED <<tap_state, pc>>
          /\ tap' \in TapState
      BY <1>5, <2>1, <2>2, <2>5, DiagramType DEF ResetPulse
    <3>. QED  BY <1>5, <2>1, <3>1 DEF ResetPulse
  <2>. QED  BY <2>1, <2>4, <2>5
<1>6. CASE EnterIllegal
  BY <1>6 DEF EnterIllegal, Illegal, TapState
<1>7. CASE Enter
  <2>1. CASE goal = tap_state /\ goal \in {PAUSEDR, PAUSEIR}
    <3>1. tap = goal /\ tap' = goal + 1 /\ tap_state' = goal + 1 /\ tms' = 1
      BY <1>7, <2>1, PulseMoves, Diagram DEF Enter, TapState
    <3>. QED  BY <1>7, <2>1, <3>1 DEF Enter, TapState
  <2>2. CASE ~(goal = tap_state /\ goal \in {PAUSEDR, PAUSEIR})
    BY <1>7, <2>2 DEF Enter
  <2>. QED  BY <2>1, <2>2
<1>8. CASE Move
  <2>1. tap' = TapNext(tap, Tms(tap_state, goal)) /\ tms' = Tms(tap_state, goal)
    BY <1>8, PulseMoves DEF Move
  <2>2. Tms(tap_state, goal) \in Bit /\ tap_state' = TapNext(tap_state, Tms(tap_state, goal))
    BY <1>8, NotedIsDone DEF Move
  <2>3. tap = tap_state \/ (tap_state = RESET /\ tap = RUNTEST)
    BY <1>8 DEF Move
  <2>4. CASE tap = tap_state
    <3>1. tap' = tap_state' /\ tap' \in TapState /\ (tap' \in {RUNTEST} \cup Shifting => tms' = 0)
      BY <2>1, <2>2, <2>4, DiagramType
    <3>. QED
      BY <1>8, <2>1, <2>2, <3>1 DEF Move
  <2>5. CASE tap_state = RESET /\ tap = RUNTEST
    <3>1. Tms(tap_state, goal) = 0 /\ tap_state' = RUNTEST
      BY <1>8, <2>5, NotedIsDone DEF Move
    <3>2. tap' = RUNTEST /\ tms' = 0
      BY <2>1, <2>5, <3>1, Diagram DEF TapState
    <3>. QED
      BY <1>8, <2>5, <3>1, <3>2 DEF Move, TapState
  <2>. QED  BY <2>3, <2>4, <2>5
<1>9. CASE Arrived
  <2>1. /\ tap_state = goal /\ goal # RESET => tap = goal
        /\ pc' = then /\ UNCHANGED <<tap, tms, tap_state, goal, then, left>>
        /\ UNCHANGED <<call, bits_left, total, mismatch>>
    BY <1>9 DEF Arrived
  <2>2. Types' /\ Resetting' /\ Common' /\ Purpose'  BY <1>9, <2>1 DEF Arrived
  <2>3. InShift'  BY <1>9, <2>1 DEF Arrived
  <2>. QED  BY <2>2, <2>3
<1>10. CASE BeginShift
  <2>1. Header(call.start) \in Nat /\ Trailer(call.start) \in Nat
    BY DEF Header, Trailer, JtagAssumption
  <2>2. Len(call.bits) \in Nat /\ Len(call.bits) > 0
    BY <1>10 DEF BeginShift
  <2>. QED
    BY <1>10, <2>1, <2>2 DEF BeginShift, chipVars
<1>11. CASE HeaderBit
  <2>1. call.start \in Shifting /\ tap = call.start /\ tms = 0
    BY <1>11 DEF HeaderBit
  <2>2. TapNext(tap, 0) = tap
    BY <2>1, Diagram DEF TapState
  <2>3. tap' = tap /\ tms' = tms
    BY <1>11, <2>1, <2>2, PulseMoves DEF HeaderBit
  <2>. QED
    BY <1>11, <2>1, <2>3 DEF HeaderBit
<1>12. CASE DataBit
  <2>1. call.start \in Shifting /\ tap = call.start /\ tms = 0 /\ total > 0
    BY <1>12 DEF DataBit
  <2>2. LastTms \in Bit /\ LastTms = IF total = 1 THEN 1 ELSE 0
    BY <2>1 DEF LastTms
  <2>3. tap' = TapNext(tap, LastTms) /\ tms' = LastTms
    BY <1>12, PulseMoves DEF DataBit
  <2>4. tap' = (IF total = 1 THEN call.start + 1 ELSE call.start) /\ tap' \in TapState
    BY <2>1, <2>2, <2>3, Diagram DEF TapState
  <2>. QED
    BY <1>12, <2>1, <2>2, <2>3, <2>4 DEF DataBit
<1>13. CASE TrailerBit
  <2>1. call.start \in Shifting /\ tap = call.start /\ tms = 0 /\ total > 0
    BY <1>13 DEF TrailerBit
  <2>2. LastTms \in Bit /\ LastTms = IF total = 1 THEN 1 ELSE 0
    BY <2>1 DEF LastTms
  <2>3. tap' = TapNext(tap, LastTms) /\ tms' = LastTms
    BY <1>13, PulseMoves DEF TrailerBit
  <2>4. tap' = (IF total = 1 THEN call.start + 1 ELSE call.start) /\ tap' \in TapState
    BY <2>1, <2>2, <2>3, Diagram DEF TapState
  <2>. QED
    BY <1>13, <2>1, <2>2, <2>3, <2>4 DEF TrailerBit
<1>14. CASE EndShift
  <2>1. /\ call.start \in Shifting /\ call.bits # <<>>
        /\ tap = call.start + 1 /\ tap_state' = tap /\ tap \in TapState /\ tms = 1
        /\ tap \notin {RUNTEST} \cup Shifting
    BY <1>14 DEF EndShift, TapState
  <2>2. /\ pc' = "enter" /\ UNCHANGED <<tap, tms, left, call, bits_left, total>>
        /\ \/ then' = "extra" /\ goal' = PAUSEDR
           \/ then' = "settle" /\ goal' = RUNTEST
    BY <1>14 DEF EndShift, ChangeTapState
  <2>3. Types'  BY <2>1, <2>2 DEF TapState
  <2>4. Resetting' /\ Common' /\ Purpose' /\ InShift'  BY <2>1, <2>2
  <2>. QED  BY <2>3, <2>4
<1>15. CASE ExtraBit
  BY <1>15 DEF ExtraBit, ChangeTapState, TapState
<1>16. CASE Settle
  <2>1. CASE call.run
    BY <1>16, <2>1 DEF Settle, ChangeTapState, TapState
  <2>2. CASE ~call.run
    BY <1>16, <2>2 DEF Settle
  <2>. QED  BY <2>1, <2>2
<1>17. CASE Wait
  <2>1. UNCHANGED <<tap, tms>>
    BY <1>17, PulseMoves, Diagram DEF Wait, TapState
  <2>. QED  BY <1>17, <2>1 DEF Wait
<1>18. CASE Again
  <2>1. call.bits # <<>> /\ call.start \in Shifting
    BY <1>18 DEF Again
  <2>. QED  BY <1>18, <2>1 DEF Again, ChangeTapState, TapState
<1>19. CASE Return
  BY <1>19 DEF Return, TapState
<1>20. ASSUME NEW c \in Shifts, CallShift(c) PROVE JInv'
  <2>1. /\ c.start \in {RUNTEST} \cup Shifting /\ c.bits \in Seq(Bit)
        /\ c.bits # <<>> => c.start \in Shifting
    BY DEF JtagAssumption
  <2>2. CASE c.bits # <<>>
    BY <1>20, <2>1, <2>2 DEF CallShift, chipVars, ChangeTapState, TapState
  <2>3. CASE c.bits = <<>> /\ c.run
    BY <1>20, <2>1, <2>3 DEF CallShift, chipVars, ChangeTapState, TapState
  <2>4. CASE c.bits = <<>> /\ ~c.run
    BY <1>20, <2>1, <2>4 DEF CallShift, chipVars, ChangeTapState, TapState
  <2>. QED  BY <2>2, <2>3, <2>4
<1>21. ASSUME NEW m \in Goals, CallMove(m[2]) PROVE JInv'
  <2>1. m[2] \in TapState  BY JtagAssumption DEF JtagAssumption
  <2>. QED  BY <1>21, <2>1 DEF CallMove, chipVars, ChangeTapState, TapState
<1>22. CASE UNCHANGED vars
  BY <1>22 DEF vars, chipVars, TapState
<1>. QED
  BY <1>1, <1>2, <1>3, <1>4, <1>5, <1>6, <1>7, <1>8, <1>9, <1>10, <1>11, <1>12, <1>13,
     <1>14, <1>15, <1>16, <1>17, <1>18, <1>19, <1>20, <1>21, <1>22 DEF Next, Driver, Caller

(* The inductive invariant: the two reset sequences (Resetting), what the  *)
(* two sides hold in common (Common), why ChangeTapState was called        *)
(* (Purpose) and how far a shift is (InShift).                             *)
THEOREM JInvariant == Spec => []JInv
<1>1. JtagAssumption  BY JtagAssumption
<1>. QED  BY <1>1, JInit, JNext, PTL DEF Spec

(* Whatever state the chips were in when the session began, whatever is    *)
(* shifted, retried or waited for, the driver's note of the controllers'   *)
(* state is the state they are in.                                         *)
THEOREM DriverAgrees == Spec => []Agrees
<1>1. JInv => Agrees
  BY DEF JInv, Types, Common, InShift, Agrees
<1>. QED  BY <1>1, JInvariant, PTL

(* Every data bit is clocked in the shift state of its call, and every     *)
(* clock of a wait in Run-Test/Idle.                                       *)
THEOREM ClocksInPlace == Spec => []ClockedInPlace
<1>1. JInv => ClockedInPlace
  BY DEF JInv, Types, Common, InShift, ClockedInPlace
<1>. QED  BY <1>1, JInvariant, PTL

-----------------------------------------------------------------------------
(***************************************************************************)
(* What JtagShift shifts lands in its target and nowhere else: the bits a  *)
(* shift has sent lie in the chain one behind the other, whatever the      *)
(* lengths of the registers, the place of the target and the retries.      *)
(***************************************************************************)

USE DEF RESET, RUNTEST, SELECTDR, CAPTUREDR, SHIFTDR, EXIT1DR, PAUSEDR, EXIT2DR,
        UPDATEDR, SELECTIR, CAPTUREIR, SHIFTIR, EXIT1IR, PAUSEIR, EXIT2IR, UPDATEIR

-----------------------------------------------------------------------------
(* The chain of a session, and its places, counted from TDI on. *)
RegLen(d) == IF call.start = SHIFTIR THEN IrLen ELSE IF d = device THEN DrLen ELSE 1
Offset(d) == IF d = Chain[1] THEN 0 ELSE RegLen(Chain[1])
Place(d, j) == Offset(d) + j
Size == Header(call.start) + Len(call.bits) + Trailer(call.start)

(* The bits a shift sends, in their order, and how many it has sent. *)
Stream(k) ==
  IF k <= Header(call.start) THEN Fill(call.start)
  ELSE IF k <= Header(call.start) + Len(call.bits) THEN call.bits[k - Header(call.start)]
  ELSE 1
Sent == IF pc = "head" THEN Header(call.start) - left ELSE Size - total

(* What the shifts of an instruction and of data should leave behind. *)
Loaded(d) == IF d = device THEN [i \in 1 .. IrLen |-> instr[IrLen + 1 - i]] ELSE Bypass
Data == [i \in 1 .. DrLen |-> call.bits[DrLen + 1 - i]]
Fresh == \A d \in Devices : reg[d] = IF d = device THEN answer[d] ELSE <<0>>

IrStates == {SHIFTIR, EXIT1IR, PAUSEIR, EXIT2IR, UPDATEIR}
(* Where the chips are from an instruction on: never through the reset or  *)
(* another instruction. *)
DrStates == {RUNTEST, SELECTDR, CAPTUREDR, SHIFTDR, EXIT1DR, PAUSEDR, EXIT2DR, UPDATEDR,
             UPDATEIR}

(* The bits of a call are out, and it is on its way to return. *)
After == \/ Moving /\ then \in {"extra", "settle", "wait"}
         \/ pc \in {"extra", "settle", "wait", "again", "idle"}
(* The driver means to shift again by way of Pause-DR. *)
Extra == mismatch /\ call.run /\ repeat < MaxRepeat

(* The call, its instruction, and the registers of the instruction path. *)
Calls ==
  /\ answer \in [Devices -> [1 .. DrLen -> Bit]]
  /\ call.start = SHIFTIR => instr = call.bits /\ Len(call.bits) = IrLen
  /\ call.start = SHIFTDR => instr \notin {<<>>, Bypass} /\ Len(call.bits) = DrLen
  /\ instr # <<>> => instr \in [1 .. IrLen -> Bit]
  /\ pc \in {"sync", "test"} => instr = <<>> /\ call.start = RUNTEST
  /\ Moving /\ then = "idle" => instr = <<>>
  /\ tap \in IrStates => \A d \in Devices : reg[d] \in [1 .. IrLen -> Bit]

(* A call ends where it can be begun, and only a retry takes the long way. *)
Sites ==
  /\ pc = "again" \/ (pc = "idle" /\ instr # <<>>) \/ (pc = "settle" /\ ~Extra)
       => tap = RUNTEST
  /\ Moving /\ then = "settle" /\ goal # RUNTEST => Extra
  /\ (Moving /\ then = "extra") \/ pc = "extra" => Extra

(* The instruction is in the chips, or leaves the shift state to get there. *)
Sending == instr # <<>> /\ (call.start = SHIFTIR => After)
Holding ==
  IF tap = EXIT1IR THEN \A d \in Devices : reg[d] = Loaded(d)
  ELSE tap \in DrStates /\ \A d \in Devices : ir[d] = Loaded(d)
Held == Sending => Holding

(* The bits sent lie in the chain one behind the other, the last at TDI;   *)
(* behind them what the target had to say goes out. *)
AtPlace(v, p, s) ==
  IF p <= s THEN v = Stream(s + 1 - p)
  ELSE call.start = SHIFTDR /\ p - s - Offset(device) \in 1 .. DrLen
         => v = answer[device][p - s - Offset(device)]
Lies(r, s) ==
  \A d \in Devices : /\ r[d] \in [1 .. RegLen(d) -> Bit]
                     /\ \A j \in 1 .. RegLen(d) : AtPlace(r[d][j], Place(d, j), s)
Lying == pc \in {"head", "bits"} => Lies(reg, Sent)
Counting ==
  /\ pc = "head" =>
       /\ left <= Header(call.start) /\ bits_left = Len(call.bits)
       /\ total = Len(call.bits) + Trailer(call.start) /\ captured = <<>>
  /\ pc = "bits" =>
       /\ bits_left <= Len(call.bits) /\ total <= bits_left + Trailer(call.start)
       /\ bits_left > 0 => total = bits_left + Trailer(call.start)
       /\ captured \in Seq(Bit) /\ Len(captured) = Len(call.bits) - bits_left
       /\ call.start = SHIFTDR =>
            \A i \in 1 .. Len(captured) : captured[i] = answer[device][DrLen + 1 - i]
  /\ pc \in {"head", "bits"} /\ call.start = SHIFTDR => updates = 0

(* A data shift begins with what the chips captured. *)
Starting ==
  /\ call.start = SHIFTDR /\ Moving /\ then = "shift" =>
       tap \in {RUNTEST, SELECTDR, CAPTUREDR, SHIFTDR} /\ (tap = SHIFTDR => Fresh)
  /\ call.start = SHIFTDR /\ pc = "shift" => Fresh

(* A data shift that is not to be tried again is applied once. *)
Said == captured = [i \in 1 .. DrLen |-> answer[device][DrLen + 1 - i]]
Landing == \/ tap = EXIT1DR /\ reg[device] = Data /\ updates = 0
           \/ tap \in {UPDATEDR, RUNTEST} /\ latch[device] = Data /\ updates = 1
Applied ==
  call.start = SHIFTDR /\ After =>
    Said /\ (pc = "idle" => ~Extra) /\ (~Extra => Landing)

(* The inductive invariant of the shifts' contents, on top of JInv. *)
DInv == Calls /\ Sites /\ Held /\ Lying /\ Counting /\ Starting /\ Applied

-----------------------------------------------------------------------------
LEMMA PairChain ==
  ASSUME device \in {"ABE", "SDR"}
  PROVE  /\ Devices = {"ABE", "SDR"} /\ Chain[1] = "ABE" /\ Chain[Len(Chain)] = "SDR"
         /\ Before("SDR") = "ABE"
<1>1. Chain = <<"ABE", "SDR">>
  BY DEF Chain
<1>2. Len(Chain) = 2 /\ Chain[1] = "ABE" /\ Chain[2] = "SDR"
  BY <1>1
<1>3. Devices = {"ABE", "SDR"}
  BY <1>2, SMT DEF Devices
<1>4. (CHOOSE i \in 1 .. Len(Chain) : Chain[i] = "SDR") = 2
  <2>1. \E i \in 1 .. Len(Chain) : Chain[i] = "SDR"
    BY <1>2, SMT
  <2>2. \A i \in 1 .. Len(Chain) : Chain[i] = "SDR" => i = 2
    BY <1>2, SMT
  <2> QED
    BY <2>1, <2>2
<1> QED
  BY <1>2, <1>3, <1>4 DEF Before

LEMMA LoneChain ==
  ASSUME device \notin {"ABE", "SDR"}
  PROVE  /\ Devices = {device} /\ Chain[1] = device /\ Chain[Len(Chain)] = device
<1>1. Chain = <<device>>
  BY DEF Chain
<1>2. Len(Chain) = 1 /\ Chain[1] = device
  BY <1>1
<1> QED
  BY <1>2, SMT DEF Devices

(* What a clock in a shift state does to one register.                     *)
LEMMA ShiftedRegister ==
  ASSUME NEW n \in Nat \ {0}, NEW r \in [1 .. n -> Bit], NEW x \in Bit
  PROVE  LET s == <<x>> \o SubSeq(r, 1, Len(r) - 1)
         IN  /\ s \in [1 .. n -> Bit] /\ s[1] = x
             /\ \A j \in 2 .. n : s[j] = r[j - 1]
             /\ OutBit(r) = r[n] /\ OutBit(r) \in Bit
<1> DEFINE t == SubSeq(r, 1, Len(r) - 1)
           s == <<x>> \o t
<1>1. r \in Seq(Bit) /\ Len(r) = n
  BY SMT
<1>2. t \in Seq(Bit) /\ Len(t) = n - 1 /\ \A j \in 1 .. n - 1 : t[j] = r[j]
  BY <1>1, SMT
<1>3. <<x>> \in Seq(Bit) /\ Len(<<x>>) = 1 /\ <<x>>[1] = x
  BY SMT
<1> HIDE DEF t
<1>4. s \in Seq(Bit) /\ Len(s) = n /\ s[1] = x /\ \A j \in 2 .. n : s[j] = t[j - 1]
  BY <1>2, <1>3, SMT
<1>5. s \in [1 .. n -> Bit]
  BY <1>4, LenProperties, Zenon
<1>6. \A j \in 2 .. n : s[j] = r[j - 1]
  BY <1>2, <1>4, SMT
<1>7. OutBit(r) = r[n] /\ OutBit(r) \in Bit
  BY <1>1, SMT DEF OutBit
<1> QED
  BY <1>4, <1>5, <1>6, <1>7 DEF t

(* The registers of the chain, end to end, are as long as what is sent:    *)
(* the bits for the target, before them those for the device behind it,    *)
(* after them those for the device in front of it. *)
Filled == call.start \in Shifting /\ call.bits \in Seq(Bit) /\ Len(call.bits) = RegLen(device)

LEMMA Geometry ==
  ASSUME JtagAssumption, Filled
  PROVE  /\ device \in Devices /\ Chain[1] \in Devices /\ Chain[Len(Chain)] \in Devices
         /\ Header(call.start) \in Nat /\ Trailer(call.start) \in Nat /\ Size \in Nat
         /\ Offset(device) = Trailer(call.start)
         /\ \A d \in Devices : RegLen(d) \in Nat \ {0} /\ Offset(d) \in Nat
         /\ \A d \in Devices : Offset(d) + RegLen(d) <= Size
         /\ Offset(Chain[Len(Chain)]) + RegLen(Chain[Len(Chain)]) = Size
         /\ \A d \in Devices : d # Chain[1] => /\ Before(d) = Chain[1]
                                              /\ Offset(d) = RegLen(Chain[1])
         /\ \A d \in Devices \ {device} :
              \/ Header(call.start) = 0 /\ Offset(d) = 0 /\ RegLen(d) = Trailer(call.start)
              \/ /\ Trailer(call.start) = 0
                 /\ Offset(d) = Len(call.bits) /\ RegLen(d) = Header(call.start)
<1>1. IrLen \in Nat \ {0} /\ DrLen \in Nat \ {0}
  BY DEF JtagAssumption
<1>2. CASE device = "ABE"
  BY <1>1, <1>2, PairChain DEF Filled, Header, Trailer, Size, RegLen, Offset, Shifting
<1>3. CASE device = "SDR"
  BY <1>1, <1>3, PairChain DEF Filled, Header, Trailer, Size, RegLen, Offset, Shifting
<1>4. CASE device \notin {"ABE", "SDR"}
  BY <1>1, <1>4, LoneChain DEF Filled, Header, Trailer, Size, RegLen, Offset, Shifting
<1> QED
  BY <1>2, <1>3, <1>4

(* A clock moves every bit one place towards TDO. *)
LEMMA Moved ==
  ASSUME JtagAssumption, Filled, NEW s \in Nat, Lies(reg, s), NEW b, b \in Bit, b = Stream(s + 1)
  PROVE  Lies([d \in Devices |-> ShiftIn(d, b)], s + 1)
<1> DEFINE r == [d \in Devices |-> ShiftIn(d, b)]
<1>1. SUFFICES ASSUME NEW d \in Devices
               PROVE  /\ r[d] \in [1 .. RegLen(d) -> Bit]
                      /\ \A j \in 1 .. RegLen(d) : AtPlace(r[d][j], Place(d, j), s + 1)
  BY DEF Lies
<1>2. ASSUME NEW v, NEW p \in Nat, AtPlace(v, p, s)
      PROVE  AtPlace(v, p + 1, s + 1)
  <2>1. (p + 1 <= s + 1 <=> p <= s) /\ (s + 1) + 1 - (p + 1) = s + 1 - p
    OBVIOUS
  <2>2. Offset(device) \in Nat
    BY Geometry
  <2>3. (p + 1) - (s + 1) - Offset(device) = p - s - Offset(device)
    BY <2>2
  <2> QED
    BY <1>2, <2>1, <2>3, Zenon DEF AtPlace
<1>3. AtPlace(b, 1, s + 1)
  BY DEF AtPlace
<1>4. /\ reg[d] \in [1 .. RegLen(d) -> Bit]
      /\ \A j \in 1 .. RegLen(d) : AtPlace(reg[d][j], Offset(d) + j, s)
      /\ RegLen(d) \in Nat \ {0} /\ Offset(d) \in Nat
  BY Geometry DEF Lies, Place
<1>5. ASSUME NEW x \in Bit, r[d] = <<x>> \o SubSeq(reg[d], 1, Len(reg[d]) - 1),
             AtPlace(x, Offset(d) + 1, s + 1)
      PROVE  /\ r[d] \in [1 .. RegLen(d) -> Bit]
             /\ \A j \in 1 .. RegLen(d) : AtPlace(r[d][j], Place(d, j), s + 1)
  <2> DEFINE n == RegLen(d)
             q == reg[d]
             u == r[d]
  <2>0. n \in Nat \ {0} /\ q \in [1 .. n -> Bit] /\ u = <<x>> \o SubSeq(q, 1, Len(q) - 1)
    BY <1>4, <1>5
  <2>1. u \in [1 .. n -> Bit] /\ u[1] = x /\ \A j \in 2 .. n : u[j] = q[j - 1]
    <3> HIDE DEF n, q, u
    <3> QED
      BY <2>0, ShiftedRegister
  <2>2. SUFFICES ASSUME NEW j \in 1 .. RegLen(d)
                 PROVE  AtPlace(r[d][j], Offset(d) + j, s + 1)
    BY <2>1 DEF Place
  <2>3. CASE j = 1
    BY <1>5, <2>1, <2>3
  <2>4. CASE j \in 2 .. RegLen(d)
    <3>1. j - 1 \in 1 .. RegLen(d) /\ Offset(d) + (j - 1) \in Nat
          /\ Offset(d) + (j - 1) + 1 = Offset(d) + j
      BY <1>4, <2>4
    <3>2. AtPlace(reg[d][j - 1], Offset(d) + (j - 1) + 1, s + 1)
      BY <1>2, <1>4, <3>1
    <3> QED
      BY <2>1, <2>4, <3>1, <3>2
  <2> QED
    BY <1>4, <2>3, <2>4
<1>6. CASE d = Chain[1]
  <2>1. Offset(d) + 1 = 1
    BY <1>6 DEF Offset
  <2>2. r[d] = <<b>> \o SubSeq(reg[d], 1, Len(reg[d]) - 1)
    BY <1>6 DEF ShiftIn
  <2> QED
    BY <1>3, <1>5, <2>1, <2>2
<1>7. CASE d # Chain[1]
  <2> DEFINE e == Chain[1]
  <2>1. /\ e \in Devices /\ Before(d) = e /\ Offset(d) = RegLen(e) /\ RegLen(e) \in Nat \ {0}
        /\ Offset(e) = 0
    BY <1>7, Geometry DEF Offset
  <2>2. reg[e] \in [1 .. RegLen(e) -> Bit] /\ AtPlace(reg[e][RegLen(e)], RegLen(e), s)
    <3>1. /\ reg[e] \in [1 .. RegLen(e) -> Bit]
          /\ \A j \in 1 .. RegLen(e) : AtPlace(reg[e][j], Offset(e) + j, s)
      BY <2>1 DEF Lies, Place
    <3>2. Offset(e) + RegLen(e) = RegLen(e) /\ RegLen(e) \in 1 .. RegLen(e)
      BY <2>1
    <3> QED
      BY <3>1, <3>2
  <2>3. OutBit(reg[e]) = reg[e][RegLen(e)] /\ OutBit(reg[e]) \in Bit
    BY <2>1, <2>2, ShiftedRegister
  <2>4. AtPlace(OutBit(reg[e]), Offset(d) + 1, s + 1)
    BY <1>2, <2>1, <2>2, <2>3
  <2>5. r[d] = <<OutBit(reg[e])>> \o SubSeq(reg[d], 1, Len(reg[d]) - 1)
    BY <1>7, <2>1 DEF ShiftIn
  <2> HIDE DEF e, r
  <2> QED
    BY <1>5, <2>3, <2>4, <2>5
<1> QED
  BY <1>6, <1>7

(* When all is sent, the target holds its bits and the others ones. *)
LEMMA Landed ==
  ASSUME JtagAssumption, Filled, Lies(reg, Size)
  PROVE  /\ reg[device] = [j \in 1 .. RegLen(device) |-> call.bits[Len(call.bits) + 1 - j]]
         /\ call.start = SHIFTIR => \A d \in Devices \ {device} : reg[d] = Bypass
<1>1. /\ Header(call.start) \in Nat /\ Trailer(call.start) \in Nat /\ Len(call.bits) \in Nat
      /\ device \in Devices /\ Offset(device) = Trailer(call.start) /\ Size \in Nat
      /\ Size = Header(call.start) + Len(call.bits) + Trailer(call.start)
  BY Geometry DEF Filled, Size
<1>2. ASSUME NEW d \in Devices
      PROVE  /\ reg[d] \in [1 .. RegLen(d) -> Bit] /\ RegLen(d) \in Nat /\ Offset(d) \in Nat
             /\ \A j \in 1 .. RegLen(d) : reg[d][j] = Stream(Size + 1 - (Offset(d) + j))
  <2>1. /\ reg[d] \in [1 .. RegLen(d) -> Bit] /\ RegLen(d) \in Nat /\ Offset(d) \in Nat
        /\ Offset(d) + RegLen(d) <= Size
        /\ \A j \in 1 .. RegLen(d) : AtPlace(reg[d][j], Offset(d) + j, Size)
    BY Geometry DEF Lies, Place
  <2>2. \A j \in 1 .. RegLen(d) : Offset(d) + j <= Size
    BY <1>1, <2>1
  <2> QED
    BY <2>1, <2>2, Zenon DEF AtPlace
<1>3. ASSUME NEW j \in 1 .. RegLen(device)
      PROVE  reg[device][j] = call.bits[Len(call.bits) + 1 - j]
  <2>1. reg[device][j] = Stream(Size + 1 - (Offset(device) + j))
    BY <1>1, <1>2
  <2>2. /\ Size + 1 - (Offset(device) + j) = Header(call.start) + (Len(call.bits) + 1 - j)
        /\ Len(call.bits) + 1 - j \in 1 .. Len(call.bits)
    BY <1>1 DEF Filled
  <2>3. \A n \in 1 .. Len(call.bits) : Stream(Header(call.start) + n) = call.bits[n]
    BY <1>1 DEF Stream
  <2> QED
    BY <2>1, <2>2, <2>3
<1>4. reg[device] = [j \in 1 .. RegLen(device) |-> call.bits[Len(call.bits) + 1 - j]]
  BY <1>1, <1>2, <1>3
<1>5. ASSUME call.start = SHIFTIR, NEW d \in Devices \ {device}
      PROVE  reg[d] = Bypass
  <2>1. RegLen(d) = IrLen
    BY <1>5 DEF RegLen
  <2>2. ASSUME NEW j \in 1 .. IrLen
        PROVE  reg[d][j] = 1
    <3> DEFINE k == Size + 1 - (Offset(d) + j)
    <3>1. reg[d][j] = Stream(k)
      BY <1>2, <2>1
    <3>2. \/ Header(call.start) = 0 /\ Offset(d) = 0 /\ RegLen(d) = Trailer(call.start)
          \/ /\ Trailer(call.start) = 0
             /\ Offset(d) = Len(call.bits) /\ RegLen(d) = Header(call.start)
      BY Geometry
    <3>3. k \in Int /\ (k <= Header(call.start) \/ ~(k <= Header(call.start) + Len(call.bits)))
      BY <1>1, <2>1, <3>2 DEF JtagAssumption
    <3>4. k <= Header(call.start) => k <= Header(call.start) + Len(call.bits)
      BY <1>1, <3>3
    <3> QED
      BY <1>5, <3>1, <3>3 DEF Stream, Fill
  <2>3. reg[d] \in [1 .. IrLen -> Bit]
    BY <1>2, <2>1
  <2> QED
    BY <2>2, <2>3 DEF Bypass
<1> QED
  BY <1>4, <1>5

-----------------------------------------------------------------------------
(* The chain and what its devices have to say stay as they are, and the    *)
(* chips change with a clock only. *)
LEMMA Kept ==
  ASSUME [Next]_vars
  PROVE  /\ UNCHANGED <<device, answer>> /\ Devices' = Devices /\ Chain' = Chain
<1>1. UNCHANGED <<device, answer>>
  BY Zenon DEF vars, chipVars, Next, Driver, Caller, SyncReset, SyncIdle, TestDevice, EnterReset,
       ResetPulse, EnterIllegal, Enter, Move, Arrived, BeginShift, HeaderBit, DataBit,
       TrailerBit, EndShift, ExtraBit, Settle, Wait, Again, Return, CallShift, CallMove,
       Pulse, NoPulse
<1> QED
  BY <1>1 DEF Devices, Chain

LEMMA Clocked ==
  ASSUME JtagAssumption, JInv, Counting, [Next]_vars
  PROVE  UNCHANGED chipVars \/ \E t \in Bit, b \in Bit : Pulse(t, b)
<1> USE DEF JInv, Types, Bit
<1>1. CASE SyncReset
  BY <1>1 DEF SyncReset
<1>2. CASE SyncIdle
  BY <1>2 DEF SyncIdle
<1>3. CASE TestDevice
  BY <1>3 DEF TestDevice, NoPulse
<1>4. CASE EnterReset
  BY <1>4 DEF EnterReset
<1>5. CASE ResetPulse
  BY <1>5 DEF ResetPulse
<1>6. CASE EnterIllegal
  BY <1>6 DEF EnterIllegal, NoPulse
<1>7. CASE Enter
  BY <1>7 DEF Enter, NoPulse
<1>8. CASE Move
  BY <1>8, NotedIsDone DEF Move
<1>9. CASE Arrived
  BY <1>9 DEF Arrived, NoPulse
<1>10. CASE BeginShift
  BY <1>10 DEF BeginShift
<1>11. CASE HeaderBit
  BY <1>11 DEF HeaderBit, NoPulse, Fill
<1>12. CASE DataBit
  <2>1. call.bits[Len(call.bits) - bits_left + 1] \in Bit
    <3>1. bits_left \in 1 .. Len(call.bits)
      BY <1>12 DEF DataBit, Counting
    <3> QED
      BY <3>1
  <2> QED
    BY <1>12, <2>1 DEF DataBit, LastTms
<1>13. CASE TrailerBit
  BY <1>13 DEF TrailerBit, LastTms
<1>14. CASE EndShift
  BY <1>14 DEF EndShift, NoPulse
<1>15. CASE ExtraBit
  BY <1>15 DEF ExtraBit, NoPulse
<1>16. CASE Settle
  BY <1>16 DEF Settle, NoPulse
<1>17. CASE Wait
  BY <1>17 DEF Wait, NoPulse
<1>18. CASE Again
  BY <1>18 DEF Again, NoPulse
<1>19. CASE Return
  BY <1>19 DEF Return, NoPulse
<1>20. ASSUME NEW c \in Shifts, CallShift(c) PROVE UNCHANGED chipVars
  BY <1>20 DEF CallShift
<1>21. ASSUME NEW m \in Goals, CallMove(m[2]) PROVE UNCHANGED chipVars
  BY <1>21 DEF CallMove
<1>22. CASE UNCHANGED vars
  BY <1>22 DEF vars
<1>. QED
  BY <1>1, <1>2, <1>3, <1>4, <1>5, <1>6, <1>7, <1>8, <1>9, <1>10, <1>11, <1>12, <1>13,
     <1>14, <1>15, <1>16, <1>17, <1>18, <1>19, <1>20, <1>21, <1>22 DEF Next, Driver, Caller

LEMMA ShiftTyped ==
  ASSUME NEW n \in Nat \ {0}, \A d \in Devices : reg[d] \in [1 .. n -> Bit], NEW b \in Bit
  PROVE  \A d \in Devices : ShiftIn(d, b) \in [1 .. n -> Bit]
<1>1. SUFFICES ASSUME NEW d \in Devices PROVE ShiftIn(d, b) \in [1 .. n -> Bit]
  OBVIOUS
<1>2. ASSUME NEW x \in Bit PROVE <<x>> \o SubSeq(reg[d], 1, Len(reg[d]) - 1) \in [1 .. n -> Bit]
  BY ShiftedRegister
<1>3. d # Chain[1] => Before(d) \in Devices
  <2>1. CASE device \in {"ABE", "SDR"}
    BY <2>1, PairChain
  <2>2. CASE device \notin {"ABE", "SDR"}
    BY <2>2, LoneChain
  <2> QED
    BY <2>1, <2>2
<1>4. d # Chain[1] => OutBit(reg[Before(d)]) \in Bit
  BY <1>3, ShiftedRegister
<1> QED
  BY <1>2, <1>4 DEF ShiftIn

(* The instruction registers are filled when they are left for an update. *)
LEMMA IrTyped ==
  ASSUME JtagAssumption, NEW t \in Bit, NEW b \in Bit, Pulse(t, b), tap \in TapState,
         Devices' = Devices,
         tap \in IrStates => \A d \in Devices : reg[d] \in [1 .. IrLen -> Bit]
  PROVE  (tap \in IrStates => \A d \in Devices : reg[d] \in [1 .. IrLen -> Bit])'
<1>1. SUFFICES ASSUME tap' \in IrStates, NEW d \in Devices PROVE reg'[d] \in [1 .. IrLen -> Bit]
  BY DEF IrStates
<1>2. tap' = TapNext(tap, t)
  BY PulseMoves
<1>3. tap = CAPTUREIR \/ tap \in IrStates
  <2>1. tap' \in {SHIFTIR, EXIT1IR, PAUSEIR, EXIT2IR, UPDATEIR}
    BY <1>1 DEF IrStates
  <2>2. CASE t = 0
    BY <1>2, <2>1, <2>2, Diagram DEF IrStates, TapState
  <2>3. CASE t = 1
    BY <1>2, <2>1, <2>3, Diagram DEF IrStates, TapState
  <2> QED
    BY <2>2, <2>3 DEF Bit
<1>4. CASE tap = CAPTUREIR
  <2>1. reg'[d] = Status
    BY <1>4 DEF Pulse
  <2> QED
    BY <2>1 DEF Status, Bit
<1>5. CASE tap = SHIFTIR
  <2>1. reg'[d] = ShiftIn(d, b)
    BY <1>5 DEF Pulse
  <2>2. \A e \in Devices : reg[e] \in [1 .. IrLen -> Bit]
    BY <1>5 DEF IrStates
  <2>3. IrLen \in Nat \ {0}
    BY DEF JtagAssumption
  <2>4. ShiftIn(d, b) \in [1 .. IrLen -> Bit]
    BY <2>2, <2>3, ShiftTyped
  <2> QED
    BY <2>1, <2>4
<1>6. CASE tap \in IrStates \ {SHIFTIR}
  <2>1. reg'[d] = reg[d]
    BY <1>6 DEF Pulse, IrStates
  <2> QED
    BY <1>6, <2>1
<1> QED
  BY <1>3, <1>4, <1>5, <1>6

LEMMA CallsNext ==
  ASSUME JtagAssumption, LengthAssumption, JInv, DInv, [Next]_vars
  PROVE  Calls'
<1>1. (answer \in [Devices -> [1 .. DrLen -> Bit]])'
  BY Kept, Zenon DEF DInv, Calls
<1>2. (tap \in IrStates => \A d \in Devices : reg[d] \in [1 .. IrLen -> Bit])'
  <2>1. CASE UNCHANGED chipVars
    BY <2>1, Kept, Zenon DEF DInv, Calls, chipVars, IrStates
  <2>2. ASSUME NEW t \in Bit, NEW b \in Bit, Pulse(t, b)
        PROVE  (tap \in IrStates => \A d \in Devices : reg[d] \in [1 .. IrLen -> Bit])'
    BY <2>2, Kept, IrTyped DEF DInv, Calls, JInv, Types
  <2> QED
    BY <2>1, <2>2, Clocked DEF DInv
<1> DEFINE Rest == /\ call.start = SHIFTIR => instr = call.bits /\ Len(call.bits) = IrLen
                   /\ call.start = SHIFTDR => instr \notin {<<>>, Bypass} /\ Len(call.bits) = DrLen
                   /\ instr # <<>> => instr \in [1 .. IrLen -> Bit]
                   /\ pc \in {"sync", "test"} => instr = <<>> /\ call.start = RUNTEST
                   /\ Moving /\ then = "idle" => instr = <<>>
<1>3. Rest'
  <2>1. CASE \E c \in Shifts : CallShift(c)
    <3>1. PICK c \in Shifts : CallShift(c)
      BY <2>1
    <3>2. /\ c.bits \in Seq(Bit) /\ c.start = SHIFTIR => Len(c.bits) = IrLen
          /\ c.start = SHIFTDR => Len(c.bits) = DrLen
          /\ IrLen \in Nat
      BY DEF JtagAssumption, LengthAssumption
    <3>3. c.start = SHIFTIR => c.bits \in [1 .. IrLen -> Bit]
      BY <3>2, LenProperties, Zenon
    <3>4. /\ call' = c /\ instr' = (IF c.start = SHIFTIR THEN c.bits ELSE instr)
          /\ c.start = SHIFTDR => instr \notin {<<>>, Bypass}
          /\ pc = "idle" /\ pc' \in {"idle", "enter"}
          /\ pc' = "enter" => then' \in {"shift", "wait"}
      BY <3>1 DEF CallShift, CallOrder, ChangeTapState
    <3>5. instr # <<>> => instr \in [1 .. IrLen -> Bit]
      BY DEF DInv, Calls
    <3> QED
      BY <3>2, <3>3, <3>4, <3>5 DEF Moving
  <2>2. CASE ~\E c \in Shifts : CallShift(c)
    <3>1. UNCHANGED <<call, instr>>
      BY <2>2, Zenon DEF vars, shiftVars, Next, Driver, Caller, SyncReset, SyncIdle, TestDevice,
         EnterReset, ResetPulse, EnterIllegal, Enter, Move, Arrived, BeginShift, HeaderBit,
         DataBit, TrailerBit, EndShift, ExtraBit, Settle, Wait, Again, Return, CallMove
    <3>2. pc' \in {"sync", "test"} => pc \in {"sync", "test"}
      BY <2>2 DEF vars, Next, Driver, Caller, SyncReset, SyncIdle, TestDevice,
         EnterReset, ResetPulse, EnterIllegal, Enter, Move, Arrived, BeginShift, HeaderBit,
         DataBit, TrailerBit, EndShift, ExtraBit, Settle, Wait, Again, Return, CallMove,
         ChangeTapState, JInv, Types
    <3>3. (Moving /\ then = "idle")' => (Moving /\ then = "idle") \/ instr = <<>>
      BY <2>2 DEF vars, moveVars, Next, Driver, Caller, SyncReset, SyncIdle, TestDevice,
         EnterReset, ResetPulse, EnterIllegal, Enter, Move, Arrived, BeginShift, HeaderBit,
         DataBit, TrailerBit, EndShift, ExtraBit, Settle, Wait, Again, Return, CallMove,
         ChangeTapState, JInv, Types, Moving
    <3> QED
      BY <3>1, <3>2, <3>3 DEF DInv, Calls, Bypass
  <2> QED
    BY <2>1, <2>2
<1> QED
  BY <1>1, <1>2, <1>3 DEF Calls

(* Once an instruction is on its way, ChangeTapState goes round the data   *)
(* side of the diagram. *)
LEMMA Path ==
  ASSUME NEW s \in TapState, NEW g \in {RUNTEST, SHIFTDR, PAUSEDR}, s # g
  PROVE  LET n == TapNext(s, Tms(s, g))
         IN  /\ s = EXIT1IR => n = UPDATEIR
             /\ s \in DrStates => n \in DrStates \ {UPDATEIR}
             /\ g = SHIFTDR /\ s \in {RUNTEST, SELECTDR, CAPTUREDR} => n = s + 1
             /\ g = RUNTEST /\ s = EXIT1DR => n = UPDATEDR
             /\ g = RUNTEST /\ s = UPDATEDR => n = RUNTEST
<1>1. /\ g \notin LowGoals[13] /\ g \notin LowGoals[2] /\ g \in LowGoals[3]
      /\ g = SHIFTDR => g \in LowGoals[4]
      /\ g = RUNTEST => g \notin LowGoals[6] /\ g \in LowGoals[9]
      /\ g # RUNTEST => g \notin LowGoals[9] /\ g \notin LowGoals[16]
  BY DEF LowGoals
<1>2. /\ Tms(12, g) = 1 /\ Tms(1, g) = 1 /\ Tms(2, g) = 0
      /\ g = SHIFTDR => Tms(3, g) = 0
      /\ g = RUNTEST => Tms(5, g) = 1 /\ Tms(8, g) = 0
  BY <1>1 DEF Tms
<1>3. Tms(s, g) = 0 \/ Tms(s, g) = 1
  BY DEF Tms
<1> QED
  BY <1>2, <1>3, Diagram DEF DrStates, TapState

(* Where the driver is when it may give a clock. *)
LEMMA ExtraKept ==
  ASSUME UNCHANGED <<call, mismatch, repeat>>
  PROVE  Extra' <=> Extra
BY Zenon DEF Extra

LEMMA SitesNext ==
  ASSUME JtagAssumption, LengthAssumption, JInv, DInv, [Next]_vars
  PROVE  Sites'
<1> USE ExtraKept
    DEF Sites, Moving, JInv, Types, Resetting, Common, Purpose, InShift, shiftVars, moveVars
<1>1. /\ Sites
      /\ Moving /\ then = "idle" => instr = <<>>
      /\ pc \in {"sync", "test"} => instr = <<>>
  BY Zenon DEF DInv, Calls
<1>2. CASE SyncReset \/ SyncIdle
  BY <1>1, <1>2 DEF SyncReset, SyncIdle
<1>3. CASE TestDevice
  BY <1>1, <1>3 DEF TestDevice
<1>4. CASE EnterReset
  BY <1>1, <1>4 DEF EnterReset
<1>5. CASE ResetPulse
  BY <1>1, <1>5 DEF ResetPulse
<1>6. CASE EnterIllegal
  BY <1>1, <1>6 DEF EnterIllegal, Illegal
<1>7. CASE Enter
  BY <1>1, <1>7 DEF Enter
<1>8. CASE Move
  BY <1>1, <1>8 DEF Move
<1>9. CASE Arrived
  <2>1. /\ pc = "move" /\ tap_state = goal /\ pc' = then /\ UNCHANGED <<tap, goal, then, instr>>
        /\ Extra' <=> Extra
    BY <1>9, NoPulseRests DEF Arrived
  <2>2. goal # RESET => tap = goal
    BY <2>1
  <2> QED
    BY <1>1, <2>1, <2>2
<1>10. CASE BeginShift
  BY <1>10 DEF BeginShift
<1>11. CASE HeaderBit \/ DataBit \/ TrailerBit
  BY <1>11 DEF HeaderBit, DataBit, TrailerBit
<1>12. CASE EndShift
  <2>1. /\ pc' = "enter"
        /\ IF Extra' THEN goal' = PAUSEDR /\ then' = "extra"
                     ELSE goal' = RUNTEST /\ then' = "settle"
    BY <1>12, Zenon DEF EndShift, ChangeTapState, Extra
  <2> QED
    BY <2>1
<1>13. CASE ExtraBit
  BY <1>1, <1>13 DEF ExtraBit, ChangeTapState
<1>14. CASE Settle
  <2>1. ~call.run => ~Extra
    BY DEF Extra
  <2> QED
    BY <1>1, <1>14, <2>1, NoPulseRests DEF Settle, ChangeTapState
<1>15. CASE Wait
  <2>1. UNCHANGED tap
    BY <1>15, PulseMoves, NoPulseRests, Diagram DEF Wait, TapState
  <2> QED
    BY <1>15, <2>1 DEF Wait
<1>16. CASE Again
  BY <1>16 DEF Again, ChangeTapState
<1>17. CASE Return
  BY <1>1, <1>17, NoPulseRests DEF Return
<1>18. ASSUME NEW c \in Shifts, CallShift(c) PROVE Sites'
  <2>1. c.bits = <<>> => c.start = RUNTEST
    BY DEF JtagAssumption, LengthAssumption
  <2>2. /\ pc = "idle" /\ UNCHANGED tap
        /\ c.start # SHIFTIR => instr' = instr
    BY <1>18 DEF CallShift, chipVars
  <2>3. \/ pc' = "enter" /\ (then' = "shift" \/ then' = "wait")
        \/ pc' = "idle" /\ c.bits = <<>>
    BY <1>18, Zenon DEF CallShift, ChangeTapState
  <2> QED
    BY <1>1, <2>1, <2>2, <2>3
<1>19. ASSUME NEW m \in Goals, CallMove(m[2]) PROVE Sites'
  BY <1>19 DEF CallMove, ChangeTapState
<1>20. CASE UNCHANGED vars
  BY <1>1, <1>20 DEF vars, chipVars
<1> QED
  BY <1>2, <1>3, <1>4, <1>5, <1>6, <1>7, <1>8, <1>9, <1>10, <1>11, <1>12, <1>13, <1>14,
     <1>15, <1>16, <1>17, <1>18, <1>19, <1>20 DEF Next, Driver, Caller

(* The call, the chain and the answers stay as they are in a shift, and    *)
(* with them what is to lie where. *)
LEMMA Frozen ==
  ASSUME UNCHANGED <<device, answer, call>>, NEW r, NEW s, reg' = r, Sent' = s, Lies(r, s)
  PROVE  Lies(reg, Sent)'
<1>1. Chain' = Chain /\ Devices' = Devices
  BY DEF Chain, Devices
<1>2. \A d : RegLen(d)' = RegLen(d)
  BY Zenon DEF RegLen
<1>3. \A d : Offset(d)' = Offset(d)
  BY <1>1, <1>2, Zenon DEF Offset
<1>4. \A k : Stream(k)' = Stream(k)
  BY Zenon DEF Stream, Header, Fill
<1> QED
  BY <1>1, <1>2, <1>3, <1>4, Zenon DEF Lies, AtPlace, Place

(* A call with bits fills the register it selects. *)
LEMMA IsFilled ==
  ASSUME JtagAssumption, LengthAssumption, JInv, Calls, pc \in {"shift", "head", "bits"}
  PROVE  Filled
BY DEF JInv, Types, InShift, Calls, Filled, RegLen, Shifting

LEMMA ShiftSteps ==
  ASSUME JInv, [Next]_vars, pc' \in {"head", "bits"}
  PROVE  BeginShift \/ HeaderBit \/ DataBit \/ TrailerBit \/ UNCHANGED vars
BY DEF Next, Driver, Caller, SyncReset, SyncIdle, TestDevice, EnterReset, ResetPulse,
     EnterIllegal, Enter, Move, Arrived, EndShift, ExtraBit, Settle, Wait, Again, Return,
     CallShift, CallMove, ChangeTapState, JInv, Types

(* What a device has to say goes out in its order. *)
LEMMA TdoBit ==
  ASSUME JtagAssumption, Filled, NEW s \in Nat, Lies(reg, s)
  PROVE  Tdo \in Bit /\ AtPlace(Tdo, Size, s)
<1> DEFINE e == Chain[Len(Chain)]
<1>1. e \in Devices /\ RegLen(e) \in Nat \ {0} /\ Offset(e) + RegLen(e) = Size
  BY Geometry
<1>2. reg[e] \in [1 .. RegLen(e) -> Bit] /\ AtPlace(reg[e][RegLen(e)], Offset(e) + RegLen(e), s)
  BY <1>1 DEF Lies, Place
<1> DEFINE n == RegLen(e)
           q == reg[e]
<1>3. OutBit(q) = q[n] /\ OutBit(q) \in Bit
  <2>1. n \in Nat \ {0} /\ q \in [1 .. n -> Bit]
    BY <1>1, <1>2
  <2> HIDE DEF n, q
  <2>2. 0 \in Bit
    BY DEF Bit
  <2> QED
    BY <2>1, <2>2, ShiftedRegister
<1> QED
  BY <1>1, <1>2, <1>3 DEF Tdo

LEMMA EndsKept ==
  ASSUME UNCHANGED <<device, call>>
  PROVE  /\ Header(call.start)' = Header(call.start) /\ Trailer(call.start)' = Trailer(call.start)
         /\ Size' = Size
BY Zenon DEF Header, Trailer, Size

LEMMA Appended ==
  ASSUME NEW q \in Seq(Bit), NEW x \in Bit
  PROVE  /\ Append(q, x) \in Seq(Bit) /\ Len(Append(q, x)) = Len(q) + 1
         /\ Append(q, x)[Len(q) + 1] = x
         /\ \A i \in 1 .. Len(q) : Append(q, x)[i] = q[i]
OBVIOUS

LEMMA CountingNext ==
  ASSUME JtagAssumption, LengthAssumption, JInv, DInv, [Next]_vars
  PROVE  Counting'
<1>1. SUFFICES ASSUME pc' \in {"head", "bits"} PROVE Counting'
  BY DEF Counting
<1>2. Calls /\ Counting /\ Lying
  BY DEF DInv
<1>3. UNCHANGED <<device, answer>> /\ (call.start = SHIFTDR => call.start # SHIFTIR)
  BY Kept
<1>4. ASSUME pc \in {"head", "bits"}, call.start = SHIFTDR, NEW t, NEW b, Pulse(t, b),
             tap' \in {SHIFTDR, EXIT1DR}
      PROVE  updates' = 0
  BY <1>2, <1>4 DEF Counting, Pulse
<1>5. CASE BeginShift
  <2>1. /\ Filled /\ UNCHANGED <<device, call>>
        /\ pc' = "head" /\ left' = Header(call.start) /\ bits_left' = Len(call.bits)
        /\ total' = Len(call.bits) + Trailer(call.start) /\ captured' = <<>> /\ updates' = 0
    BY <1>2, <1>3, <1>5, IsFilled DEF BeginShift
  <2>2. Header(call.start) \in Nat
    BY <2>1, Geometry
  <2> QED
    BY <2>1, <2>2, EndsKept DEF Counting
<1>6. CASE HeaderBit
  <2>1. Filled /\ pc = "head" /\ UNCHANGED <<device, call, bits_left, total, captured>>
    BY <1>2, <1>3, <1>6, IsFilled DEF HeaderBit, shiftVars
  <2>2. /\ left \in Nat /\ left <= Header(call.start) /\ bits_left = Len(call.bits)
        /\ total = Len(call.bits) + Trailer(call.start) /\ captured = <<>>
        /\ Header(call.start) \in Nat /\ Trailer(call.start) \in Nat /\ Len(call.bits) \in Nat
    BY <1>2, <2>1, Geometry DEF Counting, JInv, Types, Filled
  <2>3. tap' = call.start
    <3>1. tap = call.start /\ tms = 0 /\ call.start \in Shifting
      BY <2>1 DEF JInv, Types, InShift, Common, Shifting
    <3> QED
      BY <1>6, <3>1, PulseMoves, NoPulseRests, Diagram DEF HeaderBit, TapState, Shifting
  <2>4. call.start = SHIFTDR => updates' = 0
    <3>1. CASE left > 0
      BY <1>4, <1>6, <2>1, <2>3, <3>1 DEF HeaderBit
    <3>2. CASE ~(left > 0)
      BY <1>2, <1>6, <3>2, <2>1 DEF HeaderBit, NoPulse, Counting
    <3> QED
      BY <3>1, <3>2
  <2>5. \/ left' = left - 1 /\ left > 0 /\ pc' = "head"
        \/ left' = left /\ pc' = "bits"
    BY <1>6, <2>1 DEF HeaderBit
  <2>6. /\ Header(call.start)' = Header(call.start) /\ Trailer(call.start)' = Trailer(call.start)
        /\ call' = call
    BY <2>1, EndsKept
  <2>7. <<>> \in Seq(Bit) /\ Len(<<>>) = 0
    OBVIOUS
  <2> QED
    BY <2>1, <2>2, <2>4, <2>5, <2>6, <2>7 DEF Counting
<1>7. ASSUME pc = "bits", total > 0, NEW b, Pulse(LastTms, b), call' = call
      PROVE  call.start = SHIFTDR => updates' = 0
  <2>1. tap = call.start /\ tms = 0 /\ LastTms \in Bit
    BY <1>7 DEF JInv, InShift, LastTms, Bit
  <2> QED
    BY <1>4, <1>7, <2>1, PulseMoves, Diagram DEF TapState, Bit
<1>8. CASE DataBit
  <2>1. Filled /\ pc = "bits" /\ UNCHANGED <<device, call, pc>> /\ bits_left > 0
    BY <1>2, <1>3, <1>8, IsFilled DEF DataBit
  <2>2. /\ bits_left \in Nat /\ bits_left <= Len(call.bits)
        /\ total = bits_left + Trailer(call.start)
        /\ captured \in Seq(Bit) /\ Len(captured) = Len(call.bits) - bits_left
        /\ Trailer(call.start) \in Nat /\ Len(call.bits) \in Nat /\ total > 0
        /\ Header(call.start) \in Nat
        /\ Size = Header(call.start) + Len(call.bits) + Trailer(call.start)
    BY <1>2, <2>1, Geometry DEF Counting, JInv, Types, Filled, Size
  <2>3. bits_left' = bits_left - 1 /\ total' = total - 1 /\ captured' = Append(captured, Tdo)
    BY <1>8 DEF DataBit
  <2>4. Lies(reg, Sent) /\ Sent = Size - total /\ Sent \in Nat
    BY <1>2, <2>1, <2>2 DEF Lying, Sent
  <2>5. Tdo \in Bit /\ AtPlace(Tdo, Size, Sent)
    BY <2>1, <2>4, TdoBit
  <2>6. /\ captured' \in Seq(Bit) /\ Len(captured') = Len(captured) + 1
        /\ captured'[Len(captured) + 1] = Tdo
        /\ \A i \in 1 .. Len(captured) : captured'[i] = captured[i]
    <3>1. captured \in Seq(Bit) /\ Tdo \in Bit
      BY <2>2, <2>5
    <3> QED
      BY <2>3, <3>1, Appended
  <2>7. ASSUME call.start = SHIFTDR
        PROVE  \A i \in 1 .. Len(captured') : captured'[i] = answer[device][DrLen + 1 - i]
    <3>1. Len(call.bits) = DrLen /\ DrLen \in Nat /\ Offset(device) = Trailer(call.start)
      BY <1>2, <2>1, <2>7, Geometry DEF Calls, JtagAssumption
    <3>2. ~(Size <= Sent) /\ Size - Sent - Offset(device) = bits_left
      <4> DEFINE n == Size
                 m == Sent
                 o == Offset(device)
                 h == Trailer(call.start)
      <4>1. /\ n \in Int /\ m = n - total /\ total = bits_left + h /\ o = h /\ bits_left \in Nat
            /\ h \in Nat /\ bits_left > 0
        BY <2>1, <2>2, <2>4, <3>1
      <4> HIDE DEF n, m, o, h
      <4>2. ~(n <= m) /\ n - m - o = bits_left
        BY <4>1
      <4> QED
        BY <4>2 DEF n, m, o
    <3>3. Tdo = answer[device][bits_left]
      BY <2>1, <2>2, <2>5, <2>7, <3>1, <3>2 DEF AtPlace
    <3>4. DrLen + 1 - (Len(captured) + 1) = bits_left
      BY <2>2, <3>1
    <3>5. \A i \in 1 .. Len(captured) : captured[i] = answer[device][DrLen + 1 - i]
      BY <1>2, <2>1, <2>7 DEF Counting
    <3>6. ASSUME NEW i \in 1 .. Len(captured')
          PROVE  captured'[i] = answer[device][DrLen + 1 - i]
      <4>1. i = Len(captured) + 1 \/ i \in 1 .. Len(captured)
        <5>1. Len(captured) \in Nat /\ Len(captured') = Len(captured) + 1
          BY <2>2, <2>6
        <5> QED
          BY <5>1
      <4> QED
        BY <2>6, <3>3, <3>4, <3>5, <4>1
    <3> QED
      BY <3>6
  <2>8. call.start = SHIFTDR => updates' = 0
    BY <1>7, <1>8, <2>1, <2>2 DEF DataBit
  <2>9. /\ Header(call.start)' = Header(call.start) /\ Trailer(call.start)' = Trailer(call.start)
        /\ call' = call
    BY <2>1, EndsKept
  <2>10. Len(captured') = Len(call.bits) - bits_left'
    <3>1. Len(captured) = Len(call.bits) - bits_left /\ Len(call.bits) \in Nat /\ bits_left \in Nat
      BY <2>2
    <3> QED
      BY <2>3, <2>6, <3>1
  <2>11. bits_left' <= Len(call.bits) /\ total' = bits_left' + Trailer(call.start)
    <3> DEFINE n == Len(call.bits)
               h == Trailer(call.start)
    <3>1. /\ n \in Nat /\ h \in Nat /\ bits_left \in Nat /\ bits_left <= n /\ total = bits_left + h
          /\ bits_left' = bits_left - 1 /\ total' = total - 1
      BY <2>2, <2>3, Zenon
    <3> HIDE DEF n, h
    <3>2. bits_left' <= n /\ total' = bits_left' + h
      BY <3>1
    <3> QED
      BY <3>2 DEF n, h
  <2>12. pc' = "bits" /\ captured' \in Seq(Bit)
    BY <2>1, <2>6
  <2>13. total' <= bits_left' + Trailer(call.start)
    <3>1. total' \in Int
      BY <2>2, <2>3
    <3> QED
      BY <2>11, <3>1
  <2> QED
    BY <1>3, <2>7, <2>8, <2>9, <2>10, <2>11, <2>12, <2>13 DEF Counting
<1>9. CASE TrailerBit
  <2>1. /\ Filled /\ pc = "bits" /\ UNCHANGED <<device, call, pc, bits_left, captured>>
        /\ bits_left = 0 /\ total > 0 /\ total' = total - 1
    BY <1>2, <1>3, <1>9, IsFilled DEF TrailerBit
  <2>2. total \in Nat /\ Trailer(call.start) \in Nat
    BY <2>1, Geometry DEF JInv, Types
  <2>3. call.start = SHIFTDR => updates' = 0
    BY <1>7, <1>9, <2>1 DEF TrailerBit
  <2>4. /\ Header(call.start)' = Header(call.start) /\ Trailer(call.start)' = Trailer(call.start)
        /\ call' = call
    BY <2>1, EndsKept
  <2> QED
    BY <1>2, <1>3, <2>1, <2>2, <2>3, <2>4 DEF Counting
<1>10. CASE UNCHANGED vars
  <2>1. /\ UNCHANGED <<device, call, answer, pc, left, bits_left, total, captured, updates>>
    BY <1>10 DEF vars, shiftVars, chipVars
  <2>2. /\ Header(call.start)' = Header(call.start) /\ Trailer(call.start)' = Trailer(call.start)
        /\ call' = call
    BY <2>1, EndsKept
  <2> QED
    BY <1>2, <2>1, <2>2 DEF Counting
<1> QED
  BY <1>1, <1>5, <1>6, <1>8, <1>9, <1>10, ShiftSteps

(* At its first clock a shift finds what the chips captured. *)
LEMMA LiesFirst ==
  ASSUME JtagAssumption, Filled, Calls, call.start = SHIFTIR => tap \in IrStates,
         call.start = SHIFTDR => Fresh
  PROVE  Lies(reg, 0)
<1>1. CASE call.start = SHIFTIR
  <2>1. \A d \in Devices : reg[d] \in [1 .. RegLen(d) -> Bit]
    BY <1>1 DEF Calls, RegLen
  <2>2. \A v, p : p \in Nat \ {0} => AtPlace(v, p, 0)
    BY <1>1 DEF AtPlace
  <2>3. ASSUME NEW d \in Devices, NEW j \in 1 .. RegLen(d) PROVE Place(d, j) \in Nat \ {0}
    <3>1. Offset(d) \in Nat /\ RegLen(d) \in Nat
      BY Geometry
    <3> QED
      BY <3>1 DEF Place
  <2> QED
    BY <2>1, <2>2, <2>3, Zenon DEF Lies
<1>2. CASE call.start = SHIFTDR
  <2>1. SUFFICES ASSUME NEW d \in Devices
                 PROVE  /\ reg[d] \in [1 .. RegLen(d) -> Bit]
                        /\ \A j \in 1 .. RegLen(d) : AtPlace(reg[d][j], Place(d, j), 0)
    BY DEF Lies
  <2>2. /\ reg[d] = (IF d = device THEN answer[d] ELSE <<0>>)
        /\ answer[d] \in [1 .. DrLen -> Bit]
        /\ RegLen(d) = (IF d = device THEN DrLen ELSE 1) /\ RegLen(device) = DrLen
        /\ DrLen \in Nat
    BY <1>2 DEF Fresh, Calls, RegLen, JtagAssumption
  <2>3. reg[d] \in [1 .. RegLen(d) -> Bit]
    <3>1. <<0>> \in [1 .. 1 -> Bit]
      BY DEF Bit
    <3> QED
      BY <2>2, <3>1
  <2>4. ASSUME NEW j \in 1 .. RegLen(d)
        PROVE  AtPlace(reg[d][j], Offset(d) + j, 0)
    <3>1. /\ Offset(device) \in Nat /\ Offset(d) \in Nat /\ RegLen(d) \in Nat
          /\ ~(Offset(d) + j <= 0)
      BY <2>2, Geometry
    <3>2. CASE d = device
      <4>1. Offset(d) + j - 0 - Offset(device) = j
        BY <3>1, <3>2
      <4>2. \A v, p : ~(p <= 0) /\ p - 0 - Offset(device) = j /\ v = answer[device][j]
              => AtPlace(v, p, 0)
        BY Zenon DEF AtPlace
      <4> QED
        BY <2>2, <3>1, <3>2, <4>1, <4>2
    <3>3. CASE d # device
      <4>1. \/ Offset(d) = 0 /\ RegLen(d) = Offset(device)
            \/ Offset(device) = 0 /\ Offset(d) = DrLen
        BY <2>2, <3>3, Geometry DEF Filled
      <4>2. Offset(d) + j - 0 - Offset(device) \notin 1 .. DrLen
        BY <2>2, <3>1, <4>1
      <4> QED
        BY <3>1, <4>2 DEF AtPlace
    <3> QED
      BY <3>2, <3>3
  <2> QED
    BY <2>3, <2>4 DEF Place
<1> QED
  BY <1>1, <1>2 DEF Filled, Shifting

LEMMA LyingNext ==
  ASSUME JtagAssumption, LengthAssumption, JInv, DInv, [Next]_vars
  PROVE  Lying'
<1>1. SUFFICES ASSUME pc' \in {"head", "bits"} PROVE Lies(reg, Sent)'
  BY DEF Lying
<1>2. Calls /\ Counting /\ Lying /\ Starting
  BY DEF DInv
<1>3. UNCHANGED <<device, answer>> /\ Devices' = Devices
  BY Kept
<1>4. CASE BeginShift
  <2>1. Filled /\ UNCHANGED <<device, call, reg>> /\ pc' = "head" /\ left' = Header(call.start)
    BY <1>2, <1>3, <1>4, IsFilled DEF BeginShift, chipVars
  <2>2. Lies(reg, 0)
    <3>1. pc = "shift" /\ tap = call.start
      BY <1>4 DEF BeginShift, JInv, InShift
    <3> QED
      BY <1>2, <2>1, <3>1, LiesFirst DEF Starting, IrStates
  <2>3. Sent' = 0
    BY <2>1, EndsKept, Geometry DEF Sent
  <2> QED
    BY <1>3, <2>1, <2>2, <2>3, Frozen
<1>5. ASSUME pc \in {"head", "bits"}, NEW t, NEW b \in Bit, b = Stream(Sent + 1), Pulse(t, b),
             tap \in Shifting, Sent \in Nat, Sent' = Sent + 1, call' = call, Filled
      PROVE  Lies(reg, Sent)'
  <2>1. reg' = [d \in Devices |-> ShiftIn(d, b)]
    BY <1>5 DEF Pulse, Shifting
  <2>2. Lies(reg, Sent)
    BY <1>2, <1>5 DEF Lying
  <2>3. Lies([d \in Devices |-> ShiftIn(d, b)], Sent + 1)
    BY <1>5, <2>2, Moved
  <2> QED
    BY <1>3, <1>5, <2>1, <2>3, Frozen
<1>6. ASSUME pc \in {"head", "bits"}, UNCHANGED <<reg, call>>, Sent' = Sent
      PROVE  Lies(reg, Sent)'
  BY <1>2, <1>3, <1>6, Frozen DEF Lying
<1>7. CASE HeaderBit
  <2>1. Filled /\ pc = "head" /\ UNCHANGED <<device, call, bits_left, total, captured>>
        /\ tap \in Shifting
    BY <1>2, <1>3, <1>7, IsFilled DEF HeaderBit, shiftVars, JInv, InShift, Filled
  <2>2. /\ left \in Nat /\ left <= Header(call.start) /\ bits_left = Len(call.bits)
        /\ total = Len(call.bits) + Trailer(call.start) /\ captured = <<>>
        /\ Header(call.start) \in Nat /\ Trailer(call.start) \in Nat /\ Len(call.bits) \in Nat
        /\ Size = Header(call.start) + Len(call.bits) + Trailer(call.start)
    BY <1>2, <2>1, Geometry DEF Counting, JInv, Types, Filled, Size
  <2>3. Header(call.start)' = Header(call.start) /\ Size' = Size
    BY <2>1, EndsKept
  <2>4. Sent = Header(call.start) - left
    BY <2>1 DEF Sent
  <2>5. CASE left > 0
    <3>1. Pulse(tms, Fill(call.start)) /\ pc' = "head" /\ left' = left - 1
      BY <1>7, <2>1, <2>5 DEF HeaderBit
    <3>2. Sent' = Header(call.start) - left'
      BY <2>3, <3>1 DEF Sent
    <3>3. Sent' = Sent + 1 /\ Sent \in Nat /\ Sent + 1 <= Header(call.start)
      BY <2>2, <2>4, <2>5, <3>1, <3>2
    <3>4. Fill(call.start) \in Bit /\ Fill(call.start) = Stream(Sent + 1)
      BY <3>3 DEF Fill, Stream, Bit
    <3> QED
      BY <1>5, <2>1, <3>1, <3>3, <3>4
  <2>6. CASE ~(left > 0)
    <3>1. UNCHANGED <<reg, left>> /\ pc' = "bits"
      BY <1>7, <2>1, <2>6 DEF HeaderBit, NoPulse, chipVars
    <3>2. Sent' = Size - total
      BY <2>1, <2>3, <3>1 DEF Sent
    <3>3. Sent' = Sent
      BY <2>2, <2>4, <2>6, <3>2
    <3> QED
      BY <1>6, <2>1, <3>1, <3>3
  <2> QED
    BY <2>5, <2>6
<1>8. ASSUME pc = "bits", pc' = "bits", UNCHANGED <<device, call>>, total > 0, total' = total - 1,
             NEW b \in Bit, b = Stream(Sent + 1), Pulse(LastTms, b)
      PROVE  Lies(reg, Sent)'
  <2>1. Filled /\ tap \in Shifting
    BY <1>2, <1>8, IsFilled DEF JInv, InShift, Filled
  <2>2. Size' = Size
    BY <1>8, EndsKept
  <2>3. Sent = Size - total /\ Sent' = Size - total'
    BY <1>8, <2>2 DEF Sent
  <2>4. /\ total \in Nat /\ total <= bits_left + Trailer(call.start) /\ bits_left \in Nat
        /\ bits_left <= Len(call.bits) /\ Header(call.start) \in Nat /\ Trailer(call.start) \in Nat
        /\ Len(call.bits) \in Nat
        /\ Size = Header(call.start) + Len(call.bits) + Trailer(call.start)
    BY <1>2, <1>8, <2>1, Geometry DEF Counting, JInv, Types, Filled, Size
  <2>5. Sent \in Nat /\ Sent' = Sent + 1
    <3> DEFINE n == Size
    <3>1. n \in Nat /\ total \in Nat /\ total <= n /\ total' = total - 1
      BY <1>8, <2>4, SMTT(20)
    <3>2. n - total \in Nat /\ n - total' = (n - total) + 1
      <4> HIDE DEF n
      <4> QED
        BY <3>1
    <3> QED
      BY <2>3, <3>2
  <2> QED
    BY <1>5, <1>8, <2>1, <2>5
<1>9. CASE DataBit
  <2>1. Filled /\ pc = "bits" /\ UNCHANGED <<device, call, pc>> /\ bits_left > 0
    BY <1>2, <1>3, <1>9, IsFilled DEF DataBit
  <2>2. /\ bits_left \in Nat /\ bits_left <= Len(call.bits)
        /\ total = bits_left + Trailer(call.start)
        /\ Trailer(call.start) \in Nat /\ Len(call.bits) \in Nat /\ total > 0
        /\ Header(call.start) \in Nat
        /\ Size = Header(call.start) + Len(call.bits) + Trailer(call.start)
        /\ Sent = Size - total
    BY <1>2, <2>1, Geometry DEF Counting, JInv, Types, Filled, Size, Sent
  <2>3. /\ Sent + 1 = Header(call.start) + (Len(call.bits) - bits_left + 1)
        /\ Len(call.bits) - bits_left + 1 \in 1 .. Len(call.bits)
    <3> DEFINE n == Len(call.bits)
               h == Header(call.start)
               f == Trailer(call.start)
    <3>1. /\ n \in Nat /\ h \in Nat /\ f \in Nat /\ bits_left \in 1 .. n /\ total = bits_left + f
          /\ Sent = h + n + f - total
      BY <2>1, <2>2, SMTT(20)
    <3> HIDE DEF n, h, f
    <3>2. Sent + 1 = h + (n - bits_left + 1) /\ n - bits_left + 1 \in 1 .. n
      BY <3>1
    <3> QED
      BY <3>2 DEF n, h
  <2>4. \A n \in 1 .. Len(call.bits) :
           Stream(Header(call.start) + n) = call.bits[n] /\ call.bits[n] \in Bit
    <3>1. ASSUME NEW n \in 1 .. Len(call.bits) PROVE Stream(Header(call.start) + n) = call.bits[n]
      BY <2>2, SMTT(20) DEF Stream
    <3>2. ASSUME NEW n \in 1 .. Len(call.bits) PROVE call.bits[n] \in Bit
      BY <2>1 DEF Filled
    <3> QED
      BY <3>1, <3>2
  <2> DEFINE b == call.bits[Len(call.bits) - bits_left + 1]
  <2>5. b = Stream(Sent + 1) /\ b \in Bit
    BY <2>3, <2>4
  <2>6. Pulse(LastTms, b) /\ total' = total - 1
    BY <1>9 DEF DataBit
  <2> HIDE DEF b
  <2> QED
    BY <1>8, <2>1, <2>2, <2>5, <2>6
<1>10. CASE TrailerBit
  <2>1. /\ Filled /\ pc = "bits" /\ UNCHANGED <<device, call, pc>> /\ bits_left = 0 /\ total > 0
        /\ Pulse(LastTms, 1) /\ total' = total - 1
    BY <1>2, <1>3, <1>10, IsFilled DEF TrailerBit
  <2>2. /\ total <= Trailer(call.start) /\ total \in Nat
        /\ Trailer(call.start) \in Nat /\ Len(call.bits) \in Nat
        /\ Header(call.start) \in Nat
        /\ Size = Header(call.start) + Len(call.bits) + Trailer(call.start)
        /\ Sent = Size - total
    BY <1>2, <2>1, Geometry DEF Counting, JInv, Types, Filled, Size, Sent
  <2>3. ~(Sent + 1 <= Header(call.start) + Len(call.bits)) /\ ~(Sent + 1 <= Header(call.start))
    BY <2>1, <2>2
  <2>4. 1 = Stream(Sent + 1) /\ 1 \in Bit
    BY <2>3 DEF Stream, Bit
  <2> QED
    BY <1>8, <2>1, <2>4
<1>11. CASE UNCHANGED vars
  <2>1. UNCHANGED <<device, call, answer, pc, left, total, reg>> /\ Size' = Size
        /\ Header(call.start)' = Header(call.start)
    BY <1>11, EndsKept DEF vars, shiftVars, chipVars
  <2>2. Sent' = Sent
    BY <2>1, Zenon DEF Sent
  <2> QED
    BY <1>1, <1>6, <2>1, <2>2
<1> QED
  BY <1>1, <1>4, <1>7, <1>9, <1>10, <1>11, ShiftSteps

(* A clock on the data side of the diagram, and one that updates, keep the *)
(* instruction. *)
LEMMA HoldPulse ==
  ASSUME Holding, NEW t, NEW b, Pulse(t, b), UNCHANGED <<device, instr>>,
         tap = EXIT1IR => TapNext(tap, t) = UPDATEIR,
         tap \in DrStates => TapNext(tap, t) \in DrStates \ {UPDATEIR}
  PROVE  Holding'
<1>1. Devices' = Devices /\ \A d : Loaded(d)' = Loaded(d)
  BY Zenon DEF Devices, Chain, Loaded
<1>2. tap' = TapNext(tap, t)
  BY PulseMoves
<1>3. CASE tap = EXIT1IR
  <2>1. tap' = UPDATEIR /\ ir' = reg
    BY <1>2, <1>3 DEF Pulse
  <2>2. (\A d \in Devices : ir[d] = Loaded(d))'
    BY <1>1, <1>3, <2>1, Zenon DEF Holding
  <2>3. tap' # EXIT1IR /\ tap' \in DrStates
    BY <2>1 DEF DrStates
  <2> QED
    BY <2>2, <2>3 DEF Holding
<1>4. CASE tap # EXIT1IR
  <2>1. tap' \in DrStates \ {UPDATEIR}
    BY <1>2, <1>4 DEF Holding
  <2>2. tap' # RESET /\ tap' # UPDATEIR /\ tap' # EXIT1IR
    BY <2>1 DEF DrStates
  <2>3. ir' = ir
    BY <2>2 DEF Pulse
  <2>4. (\A d \in Devices : ir[d] = Loaded(d))'
    BY <1>1, <1>4, <2>3, Zenon DEF Holding
  <2> QED
    BY <2>1, <2>2, <2>4 DEF Holding
<1> QED
  BY <1>3, <1>4

LEMMA HoldRests ==
  ASSUME Holding, UNCHANGED <<chipVars, device, instr>>
  PROVE  Holding'
<1>1. Devices' = Devices /\ \A d : Loaded(d)' = Loaded(d)
  BY Zenon DEF Devices, Chain, Loaded
<1>2. UNCHANGED <<tap, reg, ir>>
  BY DEF chipVars
<1> QED
  BY <1>1, <1>2, Zenon DEF Holding, DrStates

LEMMA HeldNext ==
  ASSUME JtagAssumption, LengthAssumption, JInv, DInv, [Next]_vars
  PROVE  Held'
<1>1. SUFFICES ASSUME Sending' PROVE Holding'
  BY DEF Held
<1>2. Calls /\ Counting /\ Lying /\ (Sending => Holding)
  BY DEF DInv, Held
<1>3. UNCHANGED device
  BY Kept
<1>4. ASSUME Sending, NoPulse, UNCHANGED instr PROVE Holding'
  BY <1>2, <1>3, <1>4, HoldRests DEF NoPulse
<1> USE DEF Sending, After, Moving, shiftVars, moveVars
<1>5. instr' # <<>> /\ (call'.start = SHIFTIR => After')
  BY <1>1
<1>6. (pc \in {"sync", "test"} \/ (Moving /\ then = "idle") => instr = <<>>)
  BY <1>2, Zenon DEF Calls
<1>7. ~(SyncReset \/ SyncIdle \/ TestDevice)
  BY <1>5, <1>6 DEF SyncReset, SyncIdle, TestDevice
<1>8. Moving /\ goal \notin {RUNTEST, SHIFTDR, SHIFTIR, PAUSEDR} => then = "idle"
  BY DEF JInv, Types, Purpose, Shifting
<1>9. ~(EnterReset \/ ResetPulse \/ EnterIllegal)
  BY <1>5, <1>6, <1>8 DEF EnterReset, ResetPulse, EnterIllegal, Illegal, JInv, Resetting
<1>10. ASSUME Moving, Moving', UNCHANGED <<goal, then, call, instr>>
       PROVE  Sending /\ goal \in {RUNTEST, SHIFTDR, PAUSEDR}
  <2>1. then # "idle" /\ (call.start = SHIFTIR => then # "shift")
    BY <1>5, <1>6, <1>10
  <2> QED
    BY <1>5, <1>10, <2>1 DEF JInv, Types, Purpose, Shifting
<1>11. CASE Enter
  <2>1. Sending /\ goal \in {RUNTEST, SHIFTDR, PAUSEDR}
    BY <1>10, <1>11 DEF Enter
  <2>2. CASE goal = tap_state /\ goal \in {PAUSEDR, PAUSEIR}
    <3>1. tap = PAUSEDR /\ Pulse(1, 0)
      BY <1>11, <2>1, <2>2 DEF Enter, JInv, Common
    <3>2. TapNext(tap, 1) = EXIT2DR
      BY <3>1, Diagram DEF TapState
    <3> QED
      BY <1>2, <1>3, <1>11, <2>1, <3>1, <3>2, HoldPulse DEF Enter, DrStates
  <2>3. CASE ~(goal = tap_state /\ goal \in {PAUSEDR, PAUSEIR})
    BY <1>4, <1>11, <2>1, <2>3 DEF Enter
  <2> QED
    BY <2>2, <2>3
<1>12. CASE Move
  <2>1. Sending /\ goal \in {RUNTEST, SHIFTDR, PAUSEDR}
    BY <1>10, <1>12 DEF Move
  <2>2. /\ tap = tap_state \/ (tap_state = RESET /\ tap = RUNTEST)
        /\ tap \in TapState /\ tap_state # goal
    BY <1>12 DEF Move, JInv, Types, Common
  <2> DEFINE t == Tms(tap_state, goal)
  <2>3. Pulse(t, 0) /\ UNCHANGED instr
    BY <1>12 DEF Move
  <2>4. /\ tap = EXIT1IR => TapNext(tap, t) = UPDATEIR
        /\ tap \in DrStates => TapNext(tap, t) \in DrStates \ {UPDATEIR}
    <3>1. CASE tap = tap_state
      BY <2>1, <2>2, <3>1, Path
    <3>2. CASE tap_state = RESET /\ tap = RUNTEST
      <4>1. t = 0
        BY <2>1, <3>2, NotedIsDone DEF TapState
      <4>2. TapNext(tap, 0) = RUNTEST
        BY <3>2, Diagram DEF TapState
      <4> HIDE DEF t
      <4> QED
        BY <3>2, <4>1, <4>2 DEF DrStates
    <3> QED
      BY <2>2, <3>1, <3>2
  <2> HIDE DEF t
  <2> QED
    BY <1>2, <1>3, <2>1, <2>3, <2>4, HoldPulse
<1>13. CASE Arrived
  BY <1>4, <1>5, <1>6, <1>13 DEF Arrived, JInv, Types
<1>14. CASE BeginShift
  BY <1>2, <1>3, <1>5, <1>14, HoldRests DEF BeginShift
<1>15. ASSUME pc \in {"head", "bits"}, pc' \in {"head", "bits"}, UNCHANGED <<call, instr>>,
              NEW t \in Bit, NEW b, Pulse(t, b), tap = call.start
       PROVE  Holding'
  <2>1. call.start = SHIFTDR
    BY <1>5, <1>15 DEF JInv, Types, InShift, Shifting
  <2>2. TapNext(tap, t) \in {SHIFTDR, EXIT1DR}
    BY <1>15, <2>1, Diagram DEF TapState, Bit
  <2> QED
    BY <1>2, <1>3, <1>5, <1>15, <2>1, <2>2, HoldPulse DEF DrStates
<1>16. CASE HeaderBit
  <2>1. pc = "head" /\ pc' \in {"head", "bits"} /\ UNCHANGED <<call, instr>>
    BY <1>16 DEF HeaderBit
  <2>2. tap = call.start /\ tms \in Bit
    BY <2>1 DEF JInv, Types, InShift
  <2>3. CASE left > 0
    BY <1>15, <1>16, <2>1, <2>2, <2>3 DEF HeaderBit
  <2>4. CASE ~(left > 0)
    BY <1>4, <1>5, <1>16, <2>1, <2>4 DEF HeaderBit
  <2> QED
    BY <2>3, <2>4
<1>17. CASE DataBit \/ TrailerBit
  <2>1. pc = "bits" /\ pc' = "bits" /\ UNCHANGED <<call, instr>> /\ \E b : Pulse(LastTms, b)
    BY <1>17, Zenon DEF DataBit, TrailerBit
  <2>2. tap = call.start /\ LastTms \in Bit
    BY <1>17, <2>1 DEF DataBit, TrailerBit, JInv, Types, InShift, LastTms, Bit
  <2> QED
    BY <1>15, <2>1, <2>2
<1>18. CASE EndShift
  <2>1. pc = "bits" /\ total = 0 /\ bits_left = 0 /\ UNCHANGED <<chipVars, device, call, instr>>
    BY <1>3, <1>18 DEF EndShift, NoPulse
  <2>2. Filled
    BY <1>2, <2>1, IsFilled
  <2>3. CASE call.start = SHIFTIR
    <3>1. Sent = Size
      BY <2>1, <2>2, Geometry DEF Sent
    <3>2. Lies(reg, Size)
      BY <1>2, <2>1, <3>1 DEF Lying
    <3>3. /\ reg[device] = [j \in 1 .. RegLen(device) |-> call.bits[Len(call.bits) + 1 - j]]
          /\ \A d \in Devices \ {device} : reg[d] = Bypass
      BY <2>2, <2>3, <3>2, Landed
    <3>4. call.bits = instr /\ Len(call.bits) = IrLen /\ RegLen(device) = IrLen
      BY <1>2, <2>3 DEF Calls, RegLen
    <3>5. \A d \in Devices : reg[d] = Loaded(d)
      BY <3>3, <3>4, Zenon DEF Loaded
    <3>6. tap = EXIT1IR
      BY <2>1, <2>3 DEF JInv, InShift
    <3>7. Holding
      BY <3>5, <3>6 DEF Holding
    <3> QED
      BY <2>1, <3>7, HoldRests
  <2>4. CASE call.start # SHIFTIR
    BY <1>2, <1>5, <2>1, <2>4, HoldRests
  <2> QED
    BY <2>3, <2>4
<1>19. CASE ExtraBit \/ Settle \/ Return
  BY <1>4, <1>5, <1>19 DEF ExtraBit, Settle, Return
<1>20. CASE Again
  BY <1>4, <1>5, <1>20 DEF Again, ChangeTapState
<1>21. CASE Wait
  <2>1. Sending /\ tap = RUNTEST /\ tms = 0 /\ UNCHANGED instr
    BY <1>5, <1>21 DEF Wait, JInv, InShift, Common
  <2>2. TapNext(tap, 0) = RUNTEST
    BY <2>1, Diagram DEF TapState
  <2>3. Pulse(tms, 0) => Holding'
    BY <1>2, <1>3, <2>1, <2>2, HoldPulse DEF DrStates
  <2> QED
    BY <1>4, <1>21, <2>1, <2>3 DEF Wait
<1>22. ASSUME NEW c \in Shifts, CallShift(c) PROVE Holding'
  <2>1. c.bits = <<>> => c.start = RUNTEST
    BY DEF JtagAssumption, LengthAssumption
  <2>2. /\ pc = "idle" /\ UNCHANGED chipVars /\ call' = c
        /\ c.start # SHIFTIR => instr' = instr
    BY <1>22 DEF CallShift
  <2>3. \/ pc' = "enter" /\ then' = "shift"
        \/ c.bits = <<>>
    BY <1>22, Zenon DEF CallShift, ChangeTapState
  <2>4. c.start # SHIFTIR
    BY <1>5, <2>1, <2>2, <2>3
  <2> QED
    BY <1>2, <1>3, <1>5, <2>2, <2>4, HoldRests
<1>23. ASSUME NEW m \in Goals, CallMove(m[2]) PROVE Holding'
  BY <1>5, <1>23 DEF CallMove
<1>24. CASE UNCHANGED vars
  <2>1. UNCHANGED <<chipVars, device, instr, call, pc, then>>
    BY <1>24 DEF vars
  <2> QED
    BY <1>2, <1>5, <2>1, HoldRests
<1> QED
  BY <1>7, <1>9, <1>11, <1>12, <1>13, <1>14, <1>16, <1>17, <1>18, <1>19, <1>20, <1>21, <1>22,
     <1>23, <1>24 DEF Next, Driver, Caller

LEMMA StartingNext ==
  ASSUME JtagAssumption, LengthAssumption, JInv, DInv, [Next]_vars
  PROVE  Starting'
<1> DEFINE Going == Moving /\ then = "shift"
           Near == tap \in {RUNTEST, SELECTDR, CAPTUREDR, SHIFTDR} /\ (tap = SHIFTDR => Fresh)
<1>1. /\ Calls /\ Sites /\ (Sending => Holding)
      /\ (call.start = SHIFTDR /\ Going => Near) /\ (call.start = SHIFTDR /\ pc = "shift" => Fresh)
  BY DEF DInv, Starting, Held
<1>2. SUFFICES ASSUME (call.start = SHIFTDR)', Going' \/ pc' = "shift"
               PROVE  (Going => Near)' /\ (pc = "shift" => Fresh)'
  BY DEF Starting
<1> HIDE DEF Near
<1>3. UNCHANGED <<device, answer>> /\ Devices' = Devices
  BY Kept
<1>4. ASSUME UNCHANGED reg PROVE Fresh => Fresh'
  BY <1>3, <1>4, Zenon DEF Fresh
<1>5. ASSUME UNCHANGED chipVars PROVE (Fresh => Fresh') /\ (Near => Near')
  BY <1>4, <1>5, Zenon DEF chipVars, Near
<1>6. NoPulse => UNCHANGED chipVars
  BY DEF NoPulse
<1> USE DEF Moving
<1>7. Going => goal = call.start /\ goal \in Shifting
  BY DEF JInv, Purpose
<1>8. CASE UNCHANGED <<chipVars, pc, call, then>>
  BY <1>1, <1>2, <1>5, <1>8
<1>9. CASE UNCHANGED <<chipVars, call, then>> /\ Moving /\ Moving'
  BY <1>1, <1>2, <1>5, <1>9
<1>10. ~(SyncReset \/ SyncIdle \/ TestDevice)
  <2>1. call.start = SHIFTDR => pc \notin {"sync", "test"}
    BY <1>1 DEF Calls
  <2> QED
    BY <1>2, <2>1 DEF SyncReset, SyncIdle, TestDevice, shiftVars
<1>11. ~(EnterReset \/ ResetPulse \/ EnterIllegal)
  BY <1>2, <1>7 DEF EnterReset, ResetPulse, EnterIllegal, Illegal, JInv, Resetting, Types, Shifting,
       shiftVars, moveVars
<1>12. CASE Enter
  <2>1. goal \in Shifting
    BY <1>2, <1>7, <1>12 DEF Enter, moveVars
  <2> QED
    BY <1>6, <1>9, <1>12, <2>1 DEF Enter, moveVars, shiftVars, Shifting
<1>13. CASE Move
  <2>1. /\ Going /\ call.start = SHIFTDR /\ goal = SHIFTDR /\ tap_state # goal /\ pc = "move"
        /\ pc' = "move" /\ Pulse(Tms(tap_state, goal), 0)
    BY <1>2, <1>7, <1>13 DEF Move, moveVars, shiftVars
  <2>2. /\ tap \in {RUNTEST, SELECTDR, CAPTUREDR, SHIFTDR}
        /\ tap = tap_state \/ (tap_state = RESET /\ tap = RUNTEST)
    BY <1>1, <2>1 DEF Near, JInv, Common, Types
  <2>3. tap' = TapNext(tap, Tms(tap_state, goal))
    BY <2>1, PulseMoves
  <2>4. CASE tap_state = RESET /\ tap = RUNTEST
    <3>1. Tms(tap_state, goal) = 0
      BY <2>1, <2>4, NotedIsDone DEF TapState
    <3>2. tap' = RUNTEST
      BY <2>3, <2>4, <3>1, Diagram DEF TapState
    <3> QED
      BY <2>1, <3>2 DEF Near
  <2>5. CASE tap = tap_state
    <3>1. tap \in {RUNTEST, SELECTDR, CAPTUREDR} /\ tap' = tap + 1
      BY <2>1, <2>2, <2>3, <2>5, Path DEF TapState
    <3>2. CASE tap # CAPTUREDR
      BY <2>1, <3>1, <3>2 DEF Near
    <3>3. CASE tap = CAPTUREDR
      <4>1. instr # <<>> /\ instr # Bypass /\ instr \in [1 .. IrLen -> Bit] /\ IrLen \in Nat
        BY <1>1, <2>1 DEF Calls, JtagAssumption
      <4>2. Sending
        BY <2>1, <4>1 DEF Sending
      <4>3. \A d \in Devices : ir[d] = Loaded(d)
        BY <1>1, <3>3, <4>2 DEF Holding
      <4>4. Loaded(device) # Bypass
        <5>1. SUFFICES ASSUME \A i \in 1 .. IrLen : instr[IrLen + 1 - i] = 1 PROVE FALSE
          BY Zenon DEF Loaded, Bypass
        <5>2. ASSUME NEW k \in 1 .. IrLen PROVE instr[k] = 1
          <6>1. IrLen + 1 - k \in 1 .. IrLen /\ IrLen + 1 - (IrLen + 1 - k) = k
            BY <4>1
          <6> QED
            BY <5>1, <6>1
        <5> QED
          BY <4>1, <5>2 DEF Bypass
      <4>5. \A d \in Devices : ir[d] = Bypass <=> d # device
        BY <4>3, <4>4, Zenon DEF Loaded
      <4>6. reg' = [d \in Devices |-> IF ir[d] = Bypass THEN <<0>> ELSE answer[d]]
        BY <2>1, <3>3 DEF Pulse
      <4>7. Fresh'
        BY <1>3, <4>5, <4>6, Zenon DEF Fresh
      <4> QED
        BY <2>1, <3>1, <3>3, <4>7 DEF Near
    <3> QED
      BY <3>2, <3>3
  <2> QED
    BY <2>2, <2>4, <2>5
<1>14. CASE Arrived
  <2>1. /\ pc = "move" /\ tap_state = goal /\ pc' = then /\ UNCHANGED <<chipVars, call, then>>
    BY <1>6, <1>14 DEF Arrived, shiftVars, moveVars
  <2>2. pc' \notin {"enter", "reset", "move"}
    BY <2>1 DEF JInv, Types
  <2>3. Going /\ call.start = SHIFTDR
    BY <1>2, <2>1, <2>2
  <2>4. tap = SHIFTDR
    BY <1>7, <2>1, <2>3 DEF JInv, Common
  <2> QED
    BY <1>1, <1>5, <2>1, <2>2, <2>3, <2>4 DEF Near
<1>15. ~(BeginShift \/ HeaderBit \/ DataBit \/ TrailerBit)
  BY <1>2 DEF BeginShift, HeaderBit, DataBit, TrailerBit
<1>16. ~(EndShift \/ ExtraBit \/ Settle \/ Wait \/ Return)
  BY <1>2 DEF EndShift, ExtraBit, Settle, Wait, Return, ChangeTapState
<1>17. CASE Again
  <2>1. UNCHANGED tap /\ pc = "again" /\ pc' = "enter"
    BY <1>17, NoPulseRests DEF Again, ChangeTapState
  <2> QED
    BY <1>1, <2>1 DEF Sites, Near
<1>18. ASSUME NEW c \in Shifts, CallShift(c)
       PROVE  (Going => Near)' /\ (pc = "shift" => Fresh)'
  <2>1. UNCHANGED tap /\ pc = "idle" /\ c.start = SHIFTDR /\ instr # <<>>
    BY <1>2, <1>18 DEF CallShift, CallOrder, chipVars
  <2>2. pc' = "enter" \/ pc' = "idle"
    BY <1>18, Zenon DEF CallShift, ChangeTapState
  <2> QED
    BY <1>1, <2>1, <2>2 DEF Sites, Near
<1>19. ASSUME NEW m \in Goals, CallMove(m[2]) PROVE FALSE
  BY <1>2, <1>19 DEF CallMove, ChangeTapState
<1>20. CASE UNCHANGED vars
  BY <1>8, <1>20 DEF vars, moveVars, shiftVars
<1> QED
  BY <1>10, <1>11, <1>12, <1>13, <1>14, <1>15, <1>16, <1>17, <1>18, <1>19, <1>20
     DEF Next, Driver, Caller

LEMMA AppliedNext ==
  ASSUME JtagAssumption, LengthAssumption, JInv, DInv, [Next]_vars
  PROVE  Applied'
<1>1. /\ Calls /\ Sites /\ Counting /\ Lying
      /\ call.start = SHIFTDR /\ After => Said /\ (pc = "idle" => ~Extra) /\ (~Extra => Landing)
  BY DEF DInv, Applied
<1>2. SUFFICES ASSUME (call.start = SHIFTDR)', After'
               PROVE  Said' /\ (pc' = "idle" => ~Extra') /\ (~Extra' => Landing')
  BY DEF Applied
<1>3. UNCHANGED <<device, answer>>
  BY Kept
<1>4. UNCHANGED captured => (Said => Said')
  BY <1>3, Zenon DEF Said
<1>5. UNCHANGED call => Data' = Data
  BY Zenon DEF Data
<1>6. UNCHANGED <<chipVars, updates, call>> => (Landing => Landing')
  BY <1>3, <1>5, Zenon DEF Landing, chipVars
<1> USE DEF Moving, After
<1>7. (pc \in {"sync", "test"} \/ (Moving /\ then = "idle")) => call.start # SHIFTDR
  BY <1>1 DEF Calls
<1>8. ~(SyncReset \/ SyncIdle \/ TestDevice)
  BY <1>2, <1>7 DEF SyncReset, SyncIdle, TestDevice, shiftVars
<1>9. Moving /\ goal \notin {RUNTEST, SHIFTDR, SHIFTIR, PAUSEDR} => then = "idle"
  BY DEF JInv, Types, Purpose, Shifting
<1>10. ~(EnterReset \/ ResetPulse \/ EnterIllegal)
  BY <1>2, <1>7, <1>9 DEF EnterReset, ResetPulse, EnterIllegal, Illegal, JInv, Resetting,
       shiftVars, moveVars
(* Steps that leave the chips and the shift alone. *)
<1>11. ASSUME After, UNCHANGED <<chipVars, updates, call, captured, mismatch, repeat>>,
              pc' # "idle"
       PROVE  Said' /\ (pc' = "idle" => ~Extra') /\ (~Extra' => Landing')
  <2>1. call.start = SHIFTDR /\ (Extra' <=> Extra)
    BY <1>2, <1>11, ExtraKept
  <2> QED
    BY <1>1, <1>4, <1>6, <1>11, <2>1
<1>12. NoPulse => UNCHANGED <<chipVars, updates>>
  BY DEF NoPulse
(* ... and clocks on the way to Run-Test/Idle. *)
<1>13. ASSUME After, UNCHANGED <<call, captured, mismatch, repeat>>, pc' # "idle",
              NEW t, NEW b, Pulse(t, b),
              ~Extra => /\ tap = EXIT1DR => TapNext(tap, t) = UPDATEDR
                        /\ tap \in {UPDATEDR, RUNTEST} => TapNext(tap, t) = RUNTEST
       PROVE  Said' /\ (pc' = "idle" => ~Extra') /\ (~Extra' => Landing')
  <2>1. call.start = SHIFTDR /\ (Extra' <=> Extra) /\ Data' = Data
    BY <1>2, <1>5, <1>13, ExtraKept
  <2>2. tap' = TapNext(tap, t)
    BY <1>13, PulseMoves
  <2>3. ASSUME ~Extra PROVE Landing'
    <3>1. CASE tap = EXIT1DR
      <4>1. reg[device] = Data /\ updates = 0
        BY <1>1, <1>13, <2>1, <2>3, <3>1 DEF Landing
      <4>2. tap' = UPDATEDR /\ latch' = reg /\ updates' = 1
        BY <1>13, <2>2, <2>3, <3>1, <4>1 DEF Pulse
      <4> QED
        BY <1>3, <2>1, <4>1, <4>2 DEF Landing
    <3>2. CASE tap # EXIT1DR
      <4>1. tap \in {UPDATEDR, RUNTEST} /\ latch[device] = Data /\ updates = 1
        BY <1>1, <1>13, <2>1, <2>3, <3>2 DEF Landing
      <4>2. tap' = RUNTEST
        BY <1>13, <2>2, <2>3, <4>1
      <4>3. latch' = latch /\ updates' = updates
        BY <1>13, <4>2 DEF Pulse
      <4> QED
        BY <1>3, <2>1, <4>1, <4>2, <4>3 DEF Landing
    <3> QED
      BY <3>1, <3>2
  <2> QED
    BY <1>1, <1>4, <1>13, <2>1, <2>3
<1>14. CASE Enter
  <2>1. /\ After /\ UNCHANGED <<call, captured, mismatch, repeat, goal>> /\ pc' # "idle"
        /\ call.start = SHIFTDR /\ Moving
    BY <1>2, <1>14 DEF Enter, moveVars, shiftVars
  <2>2. CASE goal = tap_state /\ goal \in {PAUSEDR, PAUSEIR}
    <3>1. Extra /\ Pulse(1, 0)
      BY <1>1, <1>7, <1>14, <2>1, <2>2 DEF Enter, Sites, JInv, Purpose, Types
    <3> QED
      BY <1>13, <2>1, <3>1
  <2>3. CASE ~(goal = tap_state /\ goal \in {PAUSEDR, PAUSEIR})
    BY <1>11, <1>12, <1>14, <2>1, <2>3 DEF Enter
  <2> QED
    BY <2>2, <2>3
<1>15. CASE Move
  <2>1. /\ After /\ UNCHANGED <<call, captured, mismatch, repeat, goal>> /\ pc' # "idle"
        /\ call.start = SHIFTDR /\ pc = "move" /\ tap_state # goal
        /\ Pulse(Tms(tap_state, goal), 0)
    BY <1>2, <1>15 DEF Move, moveVars, shiftVars
  <2>2. ~Extra => goal = RUNTEST
    BY <1>1, <1>7, <2>1 DEF Sites, JInv, Purpose, Types
  <2>3. /\ tap = tap_state \/ (tap_state = RESET /\ tap = RUNTEST)
        /\ tap \in TapState /\ goal \in TapState
    BY <2>1 DEF JInv, Common, Types
  <2> DEFINE t == Tms(tap_state, goal)
  <2>4. ASSUME ~Extra
        PROVE  /\ tap = EXIT1DR => TapNext(tap, t) = UPDATEDR
               /\ tap \in {UPDATEDR, RUNTEST} => TapNext(tap, t) = RUNTEST
    <3>1. CASE tap_state = RESET /\ tap = RUNTEST
      <4>1. t = 0
        BY <2>3, <3>1, NotedIsDone DEF TapState
      <4> HIDE DEF t
      <4> QED
        BY <3>1, <4>1, Diagram DEF TapState
    <3>2. CASE tap = tap_state
      BY <2>1, <2>2, <2>3, <2>4, <3>2, Path
    <3> QED
      BY <2>3, <3>1, <3>2
  <2> QED
    BY <1>13, <2>1, <2>4
<1>16. CASE Arrived
  <2>1. /\ pc = "move" /\ pc' = then /\ UNCHANGED <<call, captured, mismatch, repeat, then>>
        /\ UNCHANGED <<chipVars, updates>> /\ call.start = SHIFTDR
    BY <1>2, <1>12, <1>16 DEF Arrived, moveVars, shiftVars
  <2>2. then # "idle" /\ then # "shift"
    BY <1>2, <1>7, <2>1
  <2> QED
    BY <1>11, <2>1, <2>2 DEF JInv, Types
<1>17. ~(BeginShift \/ HeaderBit \/ DataBit \/ TrailerBit)
  BY <1>2 DEF BeginShift, HeaderBit, DataBit, TrailerBit
<1>18. CASE EndShift
  <2>1. /\ pc = "bits" /\ total = 0 /\ bits_left = 0
        /\ UNCHANGED <<chipVars, updates, call, captured>>
        /\ pc' = "enter" /\ call.start = SHIFTDR
    BY <1>2, <1>12, <1>18 DEF EndShift, ChangeTapState
  <2>2. Filled
    BY <1>1, <2>1, IsFilled
  <2>3. Sent = Size
    BY <2>1, <2>2, Geometry DEF Sent
  <2>4. Lies(reg, Size)
    BY <1>1, <2>1, <2>3 DEF Lying
  <2>5. reg[device] = [j \in 1 .. RegLen(device) |-> call.bits[Len(call.bits) + 1 - j]]
    BY <2>2, <2>4, Landed
  <2>6. Len(call.bits) = DrLen /\ RegLen(device) = DrLen /\ DrLen \in Nat
    BY <1>1, <2>1 DEF Calls, RegLen, JtagAssumption
  <2>7. tap = EXIT1DR /\ updates = 0
    BY <1>1, <2>1 DEF JInv, InShift, Counting
  <2>8. Landing
    BY <2>5, <2>6, <2>7, Zenon DEF Landing, Data
  <2>9. /\ captured \in Seq(Bit) /\ Len(captured) = DrLen
        /\ \A i \in 1 .. DrLen : captured[i] = answer[device][DrLen + 1 - i]
    BY <1>1, <2>1, <2>6 DEF Counting
  <2>10. Said
    <3>1. captured \in [1 .. DrLen -> Bit]
      BY <2>9, LenProperties, Zenon
    <3> QED
      BY <2>9, <3>1 DEF Said
  <2> QED
    BY <1>4, <1>6, <2>1, <2>8, <2>10
<1>19. CASE ExtraBit \/ Settle
  BY <1>11, <1>12, <1>19 DEF ExtraBit, Settle, ChangeTapState, shiftVars
<1>20. CASE Wait
  <2>1. /\ After /\ UNCHANGED <<call, captured, mismatch, repeat>> /\ pc' # "idle"
        /\ tap = RUNTEST /\ tms = 0
    BY <1>20 DEF Wait, shiftVars, JInv, Common, InShift
  <2>2. TapNext(tap, 0) = RUNTEST
    BY <2>1, Diagram DEF TapState
  <2>3. CASE Pulse(tms, 0)
    BY <1>13, <2>1, <2>2, <2>3
  <2>4. CASE NoPulse
    BY <1>11, <1>12, <2>1, <2>4
  <2> QED
    BY <1>20, <2>3, <2>4 DEF Wait
<1>21. ~Again
  BY <1>2 DEF Again, ChangeTapState
<1>22. CASE Return
  <2>1. /\ After /\ UNCHANGED <<chipVars, updates, call, captured, mismatch, repeat>>
        /\ call.start = SHIFTDR /\ ~(mismatch /\ repeat < MaxRepeat)
    BY <1>2, <1>12, <1>22 DEF Return, shiftVars
  <2>2. ~Extra /\ (Extra' <=> Extra)
    BY <2>1, ExtraKept, Zenon DEF Extra
  <2> QED
    BY <1>1, <1>4, <1>6, <2>1, <2>2
<1>23. ASSUME NEW c \in Shifts, CallShift(c) PROVE FALSE
  <2>1. c.start = SHIFTDR /\ c.bits # <<>>
    BY <1>2, <1>23 DEF CallShift, JtagAssumption, LengthAssumption
  <2>2. pc' = "enter" /\ then' = "shift"
    BY <1>23, <2>1, Zenon DEF CallShift, ChangeTapState
  <2> QED
    BY <1>2, <2>2
<1>24. ASSUME NEW m \in Goals, CallMove(m[2]) PROVE FALSE
  BY <1>1, <1>2, <1>24 DEF CallMove, Calls, shiftVars
<1>25. CASE UNCHANGED vars
  <2>1. UNCHANGED <<chipVars, updates, call, captured, mismatch, repeat, pc, then>>
    BY <1>25 DEF vars, moveVars, shiftVars
  <2>2. After /\ call.start = SHIFTDR /\ (Extra' <=> Extra)
    BY <1>2, <2>1, ExtraKept
  <2> QED
    BY <1>1, <1>4, <1>6, <2>1, <2>2
<1> QED
  BY <1>8, <1>10, <1>14, <1>15, <1>16, <1>17, <1>18, <1>19, <1>20, <1>21, <1>22, <1>23, <1>24,
     <1>25 DEF Next, Driver, Caller

-----------------------------------------------------------------------------
LEMMA DInit == JtagAssumption /\ Init => DInv
<1> SUFFICES ASSUME JtagAssumption, Init PROVE DInv
  OBVIOUS
<1>1. pc = "sync" /\ instr = <<>> /\ call.start = RUNTEST /\ then = "idle"
  BY DEF Init
<1>2. Calls
  BY <1>1 DEF Init, Calls, Status, Bit, Moving
<1>3. Sites /\ Held /\ Lying /\ Starting /\ Applied /\ Counting
  BY <1>1 DEF Sites, Held, Sending, Lying, Starting, Applied, Counting, Moving
<1> QED
  BY <1>2, <1>3 DEF DInv

LEMMA DNext == JtagAssumption /\ LengthAssumption /\ JInv /\ DInv /\ [Next]_vars => DInv'
BY CallsNext, SitesNext, HeldNext, LyingNext, CountingNext, StartingNext, AppliedNext DEF DInv

(* The inductive invariant of the shifts: every bit a shift has sent is    *)
(* where the clocks given since have moved it (Lying), what was read is    *)
(* what left the chain (Counting), the instruction stays in the chips      *)
(* between its update and the next one (Held), a data shift starts on what *)
(* Capture-DR loaded (Starting), and what it sent is updated once on the   *)
(* way back (Applied). *)
THEOREM DInvariant == Spec => [](JInv /\ DInv)
<1>1. JtagAssumption /\ LengthAssumption
  BY JtagAssumption, LengthAssumption
<1>2. Init => JInv /\ DInv
  BY <1>1, JInit, DInit
<1>3. (JInv /\ DInv) /\ [Next]_vars => (JInv /\ DInv)'
  BY <1>1, JNext, DNext
<1> QED
  BY <1>2, <1>3, PTL DEF Spec

(* Between two calls the target of the session holds the instruction last  *)
(* sent and every other device of the chain BYPASS, for every length of    *)
(* the instruction, both places in the chain, and whatever was retried. *)
THEOREM EveryInstructionLands == Spec => []InstructionLands
<1>1. JInv /\ DInv => InstructionLands
  <2> SUFFICES ASSUME JInv, DInv, pc = "idle", instr # <<>>
               PROVE  \A d \in Devices : ir[d] = Loaded(d)
    BY Zenon DEF InstructionLands, Loaded
  <2>1. tap = RUNTEST
    BY DEF DInv, Sites
  <2>2. Holding
    BY DEF DInv, Held, Sending, After
  <2> QED
    BY <2>1, <2>2 DEF Holding
<1> QED
  BY <1>1, DInvariant, PTL

(* A data shift returns with its bits in the target's register, updated    *)
(* once since the last try began, and with the bits the target captured:   *)
(* for every length of the data, every place in the chain, and any number  *)
(* of retries. *)
THEOREM EveryDataShiftLands == Spec => []DataLands
<1>1. JInv /\ DInv => DataLands
  <2> SUFFICES ASSUME JInv, DInv, pc = "idle", call.start = SHIFTDR
               PROVE  latch[device] = Data /\ Said /\ updates = 1
    BY Zenon DEF DataLands, Data, Said
  <2>1. tap = RUNTEST
    BY DEF DInv, Sites, Calls
  <2>2. Said /\ Landing
    BY DEF DInv, Applied, After
  <2> QED
    BY <2>1, <2>2 DEF Landing
<1> QED
  BY <1>1, DInvariant, PTL
================================================================================
