----------------------------- MODULE JtagChain -----------------------------
(***************************************************************************)
(* The JTAG driver of FLASH060 (jtag.c over the port routines of           *)
(* jtag_p.s) and the scan chain it clocks through the printer port.        *)
(*                                                                         *)
(* The driver cannot read where the chips' TAP controllers are: it keeps   *)
(* its own idea of their state, counts clocks and believes.  The model has *)
(* both sides, one action per TCK pulse: ChangeTapState and JtagShift on   *)
(* one side, the IEEE 1149.1 controller and the registers of the devices   *)
(* between TDI and TDO on the other.                                       *)
(***************************************************************************)
EXTENDS Integers, Sequences

CONSTANTS
  IrLen,      \* CMD_BIT_LENGTH, the bits of an instruction
  DrLen,      \* the bits of the register a data instruction selects
  Targets,    \* devices of a session: "ABE", "SDR" on the CT60, or one alone
  Shifts,     \* the JtagShift calls: start state, bits, compare, RunTestTime
  Goals,      \* <<device, state>>: what ChangeTapState may be called for directly
  MaxRepeat   \* retries of a shift (the callers of flash060.c pass 0)

Bit == {0, 1}

RESET     == 0
RUNTEST   == 1
SELECTDR  == 2
CAPTUREDR == 3
SHIFTDR   == 4
EXIT1DR   == 5
PAUSEDR   == 6
EXIT2DR   == 7
UPDATEDR  == 8
SELECTIR  == 9
CAPTUREIR == 10
SHIFTIR   == 11
EXIT1IR   == 12
PAUSEIR   == 13
EXIT2IR   == 14
UPDATEIR  == 15
TapState == 0 .. 15

ERROR_NONE         == 0
ERROR_TDOMISMATCH  == -1
ERROR_MAXRETRIES   == -2
ERROR_ILLEGALSTATE == -3

ASSUME JtagAssumption ==
  /\ IrLen \in Nat \ {0} /\ DrLen \in Nat \ {0}
  /\ \A c \in Shifts :
       /\ c.start \in {RUNTEST, SHIFTIR, SHIFTDR}
       /\ c.bits \in Seq(Bit)
       /\ c.bits # <<>> => c.start \in {SHIFTIR, SHIFTDR}
       /\ c.compare \in BOOLEAN /\ c.run \in BOOLEAN
  /\ Goals \subseteq Targets \X TapState
  /\ MaxRepeat \in Nat

\* an instruction fills the instruction register, data the register it selects
ASSUME LengthAssumption ==
  \A c \in Shifts : /\ c.start = SHIFTIR => Len(c.bits) = IrLen
                    /\ c.start = SHIFTDR => Len(c.bits) = DrLen

VARIABLES
  tap, ir, reg, latch, answer,          \* the chips
  tms,                                  \* the TMS line
  device, tap_state,                    \* the driver: target, *TapState
  pc, goal, then, left, call, bits_left, total, captured, mismatch, repeat,
  error,                                \* ChangeTapState, JtagShift
  instr, updates    \* history: last instruction shifted; Updates of a shift (2: or more)

chipVars == <<tap, ir, reg, latch, answer>>
moveVars == <<goal, then>>
shiftVars == <<call, instr, bits_left, total, captured, mismatch, repeat>>
vars == <<chipVars, tms, device, tap_state, pc, moveVars, left, shiftVars, error,
          updates>>

-----------------------------------------------------------------------------
(* The chips.  TDI enters the first device of the chain, TDO leaves the    *)
(* last; a register is written with its TDI end first.                     *)

Chain   == IF device \in {"ABE", "SDR"} THEN <<"ABE", "SDR">> ELSE <<device>>
Devices == {Chain[i] : i \in 1 .. Len(Chain)}

Bypass == [i \in 1 .. IrLen |-> 1]
IdCode == [i \in 1 .. IrLen |-> IF i = IrLen THEN 0 ELSE 1]   \* 0xFE
Status == [i \in 1 .. IrLen |-> IF i = IrLen THEN 1 ELSE 0]   \* 0x01

TapLow ==
  <<RUNTEST, RUNTEST, CAPTUREDR, SHIFTDR, SHIFTDR, PAUSEDR, PAUSEDR, SHIFTDR,
    RUNTEST, CAPTUREIR, SHIFTIR, SHIFTIR, PAUSEIR, PAUSEIR, SHIFTIR, RUNTEST>>
TapHigh ==
  <<RESET, SELECTDR, SELECTIR, EXIT1DR, EXIT1DR, UPDATEDR, EXIT2DR, UPDATEDR,
    SELECTDR, RESET, EXIT1IR, EXIT1IR, UPDATEIR, EXIT2IR, UPDATEIR, SELECTDR>>
TapNext(s, t) == IF t = 0 THEN TapLow[s + 1] ELSE TapHigh[s + 1]

OutBit(s) == s[Len(s)]
Tdo       == OutBit(reg[Chain[Len(Chain)]])
Before(d) == Chain[(CHOOSE i \in 1 .. Len(Chain) : Chain[i] = d) - 1]
ShiftIn(d, b) ==
  <<IF d = Chain[1] THEN b ELSE OutBit(reg[Before(d)])>>
    \o SubSeq(reg[d], 1, Len(reg[d]) - 1)

(* One TCK pulse with TMS at t and TDI at b, from the rising edge on: what *)
(* the state it finds does, then what the state it enters does.            *)
Pulse(t, b) ==
  /\ tms' = t
  /\ tap' = TapNext(tap, t)
  /\ reg' = [d \in Devices |->
       IF tap = CAPTUREIR THEN Status
       ELSE IF tap = CAPTUREDR THEN (IF ir[d] = Bypass THEN <<0>> ELSE answer[d])
       ELSE IF tap \in {SHIFTIR, SHIFTDR} THEN ShiftIn(d, b)
       ELSE reg[d]]
  /\ ir' = IF tap' = RESET THEN [d \in Devices |-> IdCode]
           ELSE IF tap' = UPDATEIR THEN reg ELSE ir
  /\ latch' = IF tap' = UPDATEDR THEN reg ELSE latch
  /\ updates' = IF tap' \in {UPDATEIR, UPDATEDR} /\ updates < 2 THEN updates + 1 ELSE updates
  /\ UNCHANGED answer

NoPulse == UNCHANGED <<chipVars, tms, updates>>

-----------------------------------------------------------------------------
(* The session's start (Button): five clocks with TMS high, one with TMS   *)
(* low; then jtag_test_device declares the state to be RESET again.        *)

SyncReset ==
  /\ pc = "sync" /\ left > 0
  /\ Pulse(1, 0)
  /\ left' = left - 1
  /\ UNCHANGED <<device, tap_state, pc, moveVars, shiftVars, error>>

SyncIdle ==
  /\ pc = "sync" /\ left = 0
  /\ Pulse(0, 0)
  /\ tap_state' = RUNTEST
  /\ pc' = "test"
  /\ UNCHANGED <<device, moveVars, left, shiftVars, error>>

TestDevice ==
  /\ pc = "test"
  /\ tap_state' = RESET
  /\ pc' = "idle"
  /\ NoPulse
  /\ UNCHANGED <<device, moveVars, left, shiftVars, error>>

-----------------------------------------------------------------------------
(* ChangeTapState: one turn of its loop per action.                        *)

(* The goals for which the switch keeps TMS low in each state, and the     *)
(* state it then notes.                                                    *)
LowGoals ==
  <<TapState, {}, 0 .. UPDATEDR, {SHIFTDR}, {}, {PAUSEDR}, {}, {SHIFTDR},
    {RUNTEST}, TapState, {SHIFTIR}, {}, {PAUSEIR}, {}, {SHIFTIR}, {RUNTEST}>>
NotedLow ==
  <<RUNTEST, RUNTEST, CAPTUREDR, SHIFTDR, SHIFTDR, PAUSEDR, PAUSEDR, SHIFTDR,
    RUNTEST, CAPTUREIR, SHIFTIR, SHIFTIR, PAUSEIR, PAUSEIR, SHIFTIR, RUNTEST>>
NotedHigh ==
  <<RESET, SELECTDR, SELECTIR, EXIT1DR, EXIT1DR, UPDATEDR, EXIT2DR, UPDATEDR,
    SELECTDR, RESET, EXIT1IR, EXIT1IR, UPDATEIR, EXIT2IR, UPDATEIR, SELECTDR>>
Tms(s, g)   == IF g \in LowGoals[s + 1] THEN 0 ELSE 1
Noted(s, g) == IF g \in LowGoals[s + 1] THEN NotedLow[s + 1] ELSE NotedHigh[s + 1]

ChangeTapState(g, next) == pc' = "enter" /\ goal' = g /\ then' = next

(* Exit2 is only reached from its Pause. *)
Illegal ==
  /\ goal # tap_state
  /\ \/ goal = EXIT2DR /\ tap_state # PAUSEDR
     \/ goal = EXIT2IR /\ tap_state # PAUSEIR

EnterReset ==
  /\ pc = "enter" /\ goal = RESET
  /\ Pulse(1, 0)
  /\ left' = 5
  /\ pc' = "reset"
  /\ UNCHANGED <<device, tap_state, moveVars, shiftVars, error>>

ResetPulse ==
  /\ pc = "reset"
  /\ Pulse(1, 0)
  /\ left' = left - 1
  /\ IF left = 1 THEN tap_state' = RESET /\ pc' = then
                 ELSE UNCHANGED <<tap_state, pc>>
  /\ UNCHANGED <<device, moveVars, shiftVars, error>>

EnterIllegal ==
  /\ pc = "enter" /\ Illegal
  /\ error' = ERROR_ILLEGALSTATE
  /\ pc' = then
  /\ NoPulse
  /\ UNCHANGED <<device, tap_state, moveVars, left, shiftVars>>

(* Already there: nothing to do, but a Pause is left and entered anew. *)
Enter ==
  /\ pc = "enter" /\ goal # RESET /\ ~Illegal
  /\ pc' = "move"
  /\ IF goal = tap_state /\ goal \in {PAUSEDR, PAUSEIR}
     THEN Pulse(1, 0) /\ tap_state' = goal + 1
     ELSE NoPulse /\ UNCHANGED tap_state
  /\ UNCHANGED <<device, moveVars, left, shiftVars, error>>

Move ==
  /\ pc = "move" /\ tap_state # goal
  /\ Pulse(Tms(tap_state, goal), 0)
  /\ tap_state' = Noted(tap_state, goal)
  /\ UNCHANGED <<device, pc, moveVars, left, shiftVars, error>>

Arrived ==
  /\ pc = "move" /\ tap_state = goal
  /\ pc' = then
  /\ NoPulse
  /\ UNCHANGED <<device, tap_state, moveVars, left, shiftVars, error>>

(* Moves the program does not make: the driver's interface before the     *)
(* first instruction.                                                      *)
CallMove(g) ==
  /\ pc = "idle" /\ instr = <<>>
  /\ ChangeTapState(g, "idle")
  /\ error' = ERROR_NONE /\ updates' = 0
  /\ UNCHANGED <<chipVars, tms, device, tap_state, left, shiftVars>>

-----------------------------------------------------------------------------
(* JtagShift and JtagShiftOnly.                                            *)

(* JtagSelectTarget: bits for the devices behind and before the target. *)
\* mutant: the header goes to the other end of the chain
HeaderSwapped(start) ==
  IF device # "SDR" THEN 0 ELSE IF start = SHIFTIR THEN IrLen ELSE 1
Header(start) == IF device # "ABE" THEN 0 ELSE IF start = SHIFTIR THEN IrLen ELSE 1
\* mutant: no trailer
NoTrailer(start) == 0
Trailer(start) == IF device # "SDR" THEN 0 ELSE IF start = SHIFTIR THEN IrLen ELSE 1

(* The callers load an instruction before they shift its data, and shift   *)
(* no data after BYPASS.                                                   *)
CallOrder(c) == c.start = SHIFTDR => instr \notin {<<>>, Bypass}

CallShift(c) ==
  /\ pc = "idle" /\ CallOrder(c)
  /\ call' = c
  /\ instr' = IF c.start = SHIFTIR THEN c.bits ELSE instr
  /\ mismatch' = FALSE /\ repeat' = 0 /\ error' = ERROR_NONE
  /\ updates' = 0 /\ captured' = <<>>
  /\ IF c.bits # <<>> THEN ChangeTapState(c.start, "shift")
     ELSE IF c.run THEN ChangeTapState(RUNTEST, "wait")
     ELSE pc' = "idle" /\ UNCHANGED moveVars
  /\ UNCHANGED <<chipVars, tms, device, tap_state, left, bits_left, total>>

BeginShift ==
  /\ pc = "shift"
  /\ left' = Header(call.start)
  /\ bits_left' = Len(call.bits)
  /\ total' = Len(call.bits) + Trailer(call.start)
  /\ captured' = <<>> /\ updates' = 0
  /\ pc' = "head"
  /\ UNCHANGED <<chipVars, tms, device, tap_state, moveVars, call, instr, mismatch,
                 repeat, error>>

Fill(start) == IF start = SHIFTIR THEN 1 ELSE 0

HeaderBit ==
  /\ pc = "head"
  /\ IF left > 0
     THEN /\ Pulse(tms, Fill(call.start))
          /\ left' = left - 1 /\ UNCHANGED pc
     ELSE /\ NoPulse /\ UNCHANGED left
          /\ pc' = "bits"
  /\ UNCHANGED <<device, tap_state, moveVars, shiftVars, error>>

(* TMS goes high for the last bit of all. *)
\* mutant: ... for the last bit of the target
EarlyTms == IF bits_left = 1 \/ tms = 1 THEN 1 ELSE tms
LastTms == IF total = 1 THEN 1 ELSE tms

DataBit ==
  /\ pc = "bits" /\ bits_left > 0
  /\ captured' = Append(captured, Tdo)
  /\ Pulse(LastTms, call.bits[Len(call.bits) - bits_left + 1])
  /\ bits_left' = bits_left - 1 /\ total' = total - 1
  /\ UNCHANGED <<device, tap_state, pc, moveVars, left, call, instr, mismatch, repeat,
                 error>>

TrailerBit ==
  /\ pc = "bits" /\ bits_left = 0 /\ total > 0
  /\ Pulse(LastTms, 1)
  /\ total' = total - 1
  /\ UNCHANGED <<device, tap_state, pc, moveVars, left, call, instr, bits_left, captured,
                 mismatch, repeat, error>>

(* TDO is compared with what the caller expects, the state is counted up   *)
(* from Shift to Exit1, and the shift ends in Run-Test/Idle or, to be      *)
(* tried again, goes back to Shift-DR by way of Pause-DR.                  *)
\* mutant: the exit from the shift state is not noted
NotCounted ==
  /\ pc = "bits" /\ bits_left = 0 /\ total = 0
  /\ mismatch' \in IF call.compare THEN BOOLEAN ELSE {FALSE}
  /\ tap_state' = tap_state
  /\ IF mismatch' /\ call.run /\ repeat < MaxRepeat
     THEN ChangeTapState(PAUSEDR, "extra")
     ELSE ChangeTapState(RUNTEST, "settle")
  /\ NoPulse
  /\ UNCHANGED <<device, left, call, instr, bits_left, total, captured, repeat, error>>

EndShift ==
  /\ pc = "bits" /\ bits_left = 0 /\ total = 0
  /\ mismatch' \in IF call.compare THEN BOOLEAN ELSE {FALSE}
  /\ tap_state' = tap_state + 1
  /\ IF mismatch' /\ call.run /\ repeat < MaxRepeat
     THEN ChangeTapState(PAUSEDR, "extra")
     ELSE ChangeTapState(RUNTEST, "settle")
  /\ NoPulse
  /\ UNCHANGED <<device, left, call, instr, bits_left, total, captured, repeat, error>>

ExtraBit ==
  /\ pc = "extra"
  /\ ChangeTapState(SHIFTDR, "settle")
  /\ NoPulse
  /\ UNCHANGED <<device, tap_state, left, shiftVars, error>>

Settle ==
  /\ pc = "settle"
  /\ IF call.run THEN ChangeTapState(RUNTEST, "wait")
                 ELSE pc' = "again" /\ UNCHANGED moveVars
  /\ NoPulse
  /\ UNCHANGED <<device, tap_state, left, shiftVars, error>>

(* waitTime: clocks for a short time, the 200 Hz timer for a long one.  In *)
(* Run-Test/Idle one clock stands for any number of them.                  *)
Wait ==
  /\ pc = "wait"
  /\ pc' = "again"
  /\ Pulse(tms, 0) \/ NoPulse
  /\ UNCHANGED <<device, tap_state, moveVars, left, shiftVars, error>>

\* mutant: the retries are not counted
ForEver ==
  /\ pc = "again" /\ mismatch /\ repeat < MaxRepeat
  /\ repeat' = repeat
  /\ ChangeTapState(call.start, "shift")
  /\ NoPulse
  /\ UNCHANGED <<device, tap_state, left, call, instr, bits_left, total, captured,
                 mismatch, error>>

Again ==
  /\ pc = "again" /\ mismatch /\ repeat < MaxRepeat
  /\ repeat' = repeat + 1
  /\ ChangeTapState(call.start, "shift")
  /\ NoPulse
  /\ UNCHANGED <<device, tap_state, left, call, instr, bits_left, total, captured,
                 mismatch, error>>

Return ==
  /\ pc = "again" /\ ~(mismatch /\ repeat < MaxRepeat)
  /\ error' = IF ~mismatch THEN ERROR_NONE
              ELSE IF MaxRepeat > 0 THEN ERROR_MAXRETRIES ELSE ERROR_TDOMISMATCH
  /\ pc' = "idle"
  /\ NoPulse
  /\ UNCHANGED <<device, tap_state, moveVars, left, shiftVars>>

-----------------------------------------------------------------------------
Init ==
  /\ device \in Targets
  /\ tap \in TapState /\ tms \in Bit
  /\ ir = [d \in Devices |-> IdCode]
  /\ reg = [d \in Devices |-> Status]
  /\ latch = reg
  /\ answer \in [Devices -> [1 .. DrLen -> Bit]]
  /\ tap_state = RESET /\ pc = "sync" /\ left = 5
  /\ goal = RESET /\ then = "idle"
  /\ call = [start |-> RUNTEST, bits |-> <<>>, compare |-> FALSE, run |-> FALSE]
  /\ bits_left = 0 /\ total = 0 /\ captured = <<>> /\ mismatch = FALSE /\ repeat = 0
  /\ error = ERROR_NONE /\ updates = 0 /\ instr = <<>>

Driver ==
  \/ SyncReset \/ SyncIdle \/ TestDevice
  \/ EnterReset \/ ResetPulse \/ EnterIllegal \/ Enter \/ Move \/ Arrived
  \/ BeginShift \/ HeaderBit \/ DataBit \/ TrailerBit \/ EndShift \/ ExtraBit \/ Settle
  \/ Wait \/ Again \/ Return

Caller == (\E c \in Shifts : CallShift(c)) \/ (\E m \in Goals : m[1] = device /\ CallMove(m[2]))

Next == Driver \/ Caller

Spec == Init /\ [][Next]_vars
(* The driver runs to its end in supervisor mode. *)
FairSpec == Spec /\ WF_vars(Driver)

-----------------------------------------------------------------------------
(* Properties. *)

(* What the driver notes as the state of the chips' controllers is the     *)
(* state they are in, whatever state they were in when the session began.  *)
(* Excepted: inside the reset sequences; after jtag_test_device has noted  *)
(* a reset that put the chips one clock further; and between the last bit  *)
(* of a shift, which leaves the shift state, and the line that notes it.   *)
Agrees ==
  pc \notin {"sync", "reset"} =>
    \/ tap = tap_state
    \/ tap_state = RESET /\ tap = RUNTEST
    \/ pc = "bits" /\ total = 0 /\ tap_state = call.start /\ tap = tap_state + 1

(* Bits are clocked while the chips are in the shift state of the call,    *)
(* and the clocks of waitTime while they are in Run-Test/Idle, where they  *)
(* make a programming pulse longer and nothing else.                       *)
ClockedInPlace ==
  /\ pc = "head" \/ (pc = "bits" /\ total > 0) => tap = call.start
  /\ pc = "wait" => tap = RUNTEST /\ tms = 0

(* Between two calls the target holds the last instruction sent to it, and *)
(* the other devices of the chain hold BYPASS.                             *)
InstructionLands ==
  pc = "idle" /\ instr # <<>> =>
    \A d \in Devices :
      ir[d] = IF d = device THEN [i \in 1 .. IrLen |-> instr[IrLen + 1 - i]] ELSE Bypass

(* A data shift returns with its bits in the target, applied by exactly    *)
(* one Update-DR since its last try began, and with what the target had    *)
(* to say captured: neighbours in the chain neither delay nor clip either. *)
DataLands ==
  pc = "idle" /\ call.start = SHIFTDR =>
    /\ latch[device] = [i \in 1 .. DrLen |-> call.bits[DrLen + 1 - i]]
    /\ captured = [i \in 1 .. DrLen |-> answer[device][DrLen + 1 - i]]
    /\ updates = 1

(* Every call of the driver returns. *)
CallsReturn == pc # "idle" ~> pc = "idle"
=============================================================================
