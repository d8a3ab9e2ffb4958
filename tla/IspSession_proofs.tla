-------------------------- MODULE IspSession_proofs --------------------------
(***************************************************************************)
(* What FLASH060's session leaves in a CPLD, for a device of any number of *)
(* sectors and each of the three lengths of its data register, any file,   *)
(* any number of rounds and of faults.                                     *)
(***************************************************************************)
EXTENDS IspSession, TLAPS

LEMMA Sizes ==
  /\ Sectors \in Nat \ {0} /\ dreg_length \in {4, 8, 16} /\ UserRow \in Row
  /\ Repeat \in Nat /\ MaxFaults \in Nat /\ MaxPresses \in Nat
BY IspAssumption

-----------------------------------------------------------------------------
(* The address of a row, which jtag_device_adr computes from the number of *)
(* its first fuse: fifteen rows of three blocks of five in every sector.   *)
FirstGroup(k) == IF k < 9 THEN 8 * k ELSE 72 + 6 * (k - 9)
FirstFuse(s, k) == dreg_length * (s * 108 + FirstGroup(k))

LEMMA GroupAdr ==
  ASSUME NEW s \in Nat, NEW k \in 0 .. 14
  PROVE  /\ (FirstFuse(s, k) \div (dreg_length \div 2)) \div 216 = s
         /\ (FirstFuse(s, k) \div dreg_length) % 108 = FirstGroup(k)
         /\ (IF FirstGroup(k) < 72 THEN FirstGroup(k) \div 8 ELSE ((FirstGroup(k) - 72) \div 6) + 9) = k
<1>1. FirstGroup(k) \in 0 .. 107
  BY DEF FirstGroup
<1>2. (IF FirstGroup(k) < 72 THEN FirstGroup(k) \div 8 ELSE ((FirstGroup(k) - 72) \div 6) + 9) = k
  BY DEF FirstGroup
<1>3. CASE dreg_length = 4
  BY <1>1, <1>2, <1>3 DEF FirstFuse
<1>4. CASE dreg_length = 8
  BY <1>1, <1>2, <1>4 DEF FirstFuse
<1>5. CASE dreg_length = 16
  BY <1>1, <1>2, <1>5 DEF FirstFuse
<1> QED
  BY <1>3, <1>4, <1>5, Sizes

LEMMA RowAdr ==
  ASSUME NEW r \in Row
  PROVE  LET k == r % 15 IN Adr[r] = (k \div 5) * 8 + (k % 5) + (r \div 15) * 32
<1>1. r \div 15 \in Nat /\ r % 15 \in 0 .. 14
  BY Sizes DEF Row
<1>2. RowStart(r) = FirstFuse(r \div 15, r % 15)
  BY DEF RowStart, FirstFuse, FirstGroup
<1>3. Adr[r] = jtag_device_adr(FirstFuse(r \div 15, r % 15))
  BY <1>2 DEF Adr
<1> QED
  BY <1>1, <1>3, GroupAdr DEF jtag_device_adr, SECTOR_LENGTH, MAX_SECTOR

(* A sector has one last row: its strobe comes once.                       *)
LEMMA OneLastRow ==
  ASSUME NEW q \in Row, NEW r \in Row, LastRow(q), LastRow(r), Adr[q] \div 32 = Adr[r] \div 32
  PROVE  q = r
<1>1. /\ q \in Nat /\ r \in Nat
      /\ Adr[q] = ((q % 15) \div 5) * 8 + ((q % 15) % 5) + (q \div 15) * 32
      /\ Adr[r] = ((r % 15) \div 5) * 8 + ((r % 15) % 5) + (r \div 15) * 32
  BY RowAdr, Sizes DEF Row
<1> QED
  BY <1>1 DEF LastRow

-----------------------------------------------------------------------------
(* Sector r is burnt when the rows below n have been taken.                *)
BurntBelow(r, n) == \E q \in Row : q < n /\ LastRow(q) /\ Adr[q] \div 32 = Adr[r] \div 32
Holds(r)   == cells[device][r] = design[r]
IsBlank(r) == cells[device][r] = BLANK

(* The target of a session is a device the file names.                     *)
Targeted == pc # "idle" => device \in Devices

(* The chip leaves ISP mode with the operation.                            *)
Left == cable /\ pc \notin {"run", "exit"} => ~isp

(* A round of erase and blank check is one that is left.                   *)
Counted == op \in {"erase", "blank"} /\ pc \in {"enable", "run", "exit"} => repeat >= 0

(* A verification has compared every row below the last it asked for.      *)
Verified ==
  /\ pc \in {"idle", "test", "code"} => op = "erase"
  /\ op = "verify" /\ device \in Stored => nvram[device] = UserCode(design)
  /\ op = "verify" /\ pc = "run" =>
       error = ERROR_NONE /\ \A r \in Row : r < row - 1 => Holds(r)
  /\ op = "verify" /\ pc = "exit" /\ error = ERROR_NONE => \A r \in Row : Holds(r)
  /\ pc = "report" /\ error = ERROR_NONE => \A r \in Row : Holds(r)
  /\ pc = "report" /\ error = ERROR_NONE => op = "verify"

(* While the chip listens, the rows of the sector in hand are buffered and *)
(* those of earlier sectors are in the chip, but for a sector whose failed *)
(* status the next row's shift is about to compare.                        *)
Written(r) == cells[device][r] \in {design[r], JUNK}
Untold(r)  == status = "failed" /\ row % 15 = 0 /\ r \div 15 = (row \div 15) - 1
Programmed ==
  /\ op = "program" /\ pc = "run" /\ Listening =>
       /\ \A r \in Row : r < row /\ r \div 15 = row \div 15 => r \in burnt
       /\ \A r \in Row : r \div 15 < row \div 15 => Written(r) \/ Untold(r)
  /\ op = "program" /\ pc = "exit" /\ error = ERROR_NONE => \A r \in Row : Written(r)
  /\ op = "program" /\ pc = "run" => error = ERROR_NONE
  /\ pc = "save" => op = "program" /\ \A r \in Row : Written(r)

(* A verification does nothing but compare, with the usercode it has read. *)
ReadOnly ==
  /\ verify => op = "verify" \/ pc \in {"idle", "test", "code", "report"}
  /\ pc = "code" /\ error = ERROR_NONE => usercode = UserCode(cells[device])

(* From the blank check that passed, what is not burnt yet is blank.       *)
Blanked ==
  /\ op = "blank" /\ pc = "exit" /\ error = ERROR_NONE => \A r \in Row : IsBlank(r)
  /\ op = "program" /\ pc = "enable" => \A r \in Row : IsBlank(r)
  /\ op = "program" /\ pc = "run" => \A r \in Row : BurntBelow(r, row) \/ IsBlank(r)

IInv == TypeOK /\ Targeted /\ Counted /\ Left /\ Verified /\ Programmed /\ ReadOnly /\ Blanked

LEMMA InitIInv == ASSUME Init PROVE IInv
<1>1. TypeOK
  <2>1. cells \in [Devices -> [Row -> Cell]]
    BY IspAssumption DEF Init
  <2>2. /\ design \in [Row -> Fuse] /\ nvram \in [Stored -> Cell] /\ usercode \in Cell
    BY DEF Init, Fuse, Cell
  <2>3. op \in {Ops[i] : i \in 1 .. 4}
    BY DEF Init, Ops
  <2>4. /\ file_loaded \in BOOLEAN /\ verify \in BOOLEAN /\ isp \in BOOLEAN /\ cable \in BOOLEAN
        /\ file_loaded => device \in Devices
    BY Zenon DEF Init
  <2>5. /\ device \in Devices \cup {"NO_DEVICE"}
        /\ pc \in {"idle", "test", "code", "enable", "run", "exit", "save", "report"}
        /\ cmp \in {"none", "status", "three"} /\ status \in {"ok", "busy", "failed"}
        /\ outcome \in {"none", "refused", "done", "alert"}
    BY DEF Init
  <2>6. /\ repeat \in -1 .. Repeat /\ error \in Error /\ row \in 0 .. 15 * Sectors
        /\ burnt \in SUBSET Row /\ out \in Row \cup {-1}
        /\ faults \in 0 .. MaxFaults /\ presses \in 0 .. MaxPresses
    BY Sizes DEF Init, Error, ERROR_NONE
  <2> QED
    BY <2>1, <2>2, <2>3, <2>4, <2>5, <2>6 DEF TypeOK
<1> QED
  BY <1>1 DEF Init, IInv, Targeted, Counted, Left, Verified, Programmed, ReadOnly, Blanked

-----------------------------------------------------------------------------
(* What follows each operation, by the operation.                          *)
LEMMA ExitCases ==
  ASSUME TypeOK, Exit
  PROVE  \/ op = "erase" /\ Continue("blank")
         \/ op = "blank" /\ EndRound
         \/ op = "program" /\ error = ERROR_NONE /\ pc' = "save" /\ op' = op /\ repeat' = repeat
         \/ op = "program" /\ error # ERROR_NONE /\ Leave
         \/ op = "verify" /\ Leave
<1>1. op \in {"erase", "blank", "program", "verify"}
  BY DEF TypeOK, Ops
<1>2. CASE op = "erase"
  BY <1>2 DEF Exit
<1>3. CASE op = "blank"
  BY <1>3 DEF Exit
<1>4. CASE op = "program"
  BY <1>4 DEF Exit
<1>5. CASE op = "verify"
  BY <1>5 DEF Exit
<1> QED
  BY <1>1, <1>2, <1>3, <1>4, <1>5

(* Each step keeps the types and the target.                               *)
LEMMA TypesKept == ASSUME IInv, [Next]_vars PROVE TypeOK' /\ Targeted'
<1> USE Sizes DEF IInv, TypeOK, Targeted, fileVars, chipVars, envVars
<1>1. ASSUME NEW f \in Files, LoadJedec(f) PROVE TypeOK' /\ Targeted'
  <2>1. design' \in [Row -> Fuse]
    BY <1>1, FilesAssumption DEF LoadJedec
  <2>2. device' \in Devices \cup {"NO_DEVICE"} /\ file_loaded' \in BOOLEAN
        /\ (file_loaded' => device' \in Devices)
    BY <1>1 DEF LoadJedec, DeviceOf, Devices, Stored
  <2> QED
    BY <1>1, <2>1, <2>2 DEF LoadJedec
<1>2. CASE ToggleTarget
  BY <1>2 DEF ToggleTarget, Devices, Stored
<1>3. ASSUME NEW v \in BOOLEAN, Press(v) PROVE TypeOK' /\ Targeted'
  BY <1>3 DEF Press, Error, ERROR_NONE
<1>4. CASE Refuse
  BY <1>4 DEF Refuse
<1>5. CASE TestDevice
  BY <1>5 DEF TestDevice, UserCode, Error, ERROR_NONE, ERROR_TDOMISMATCH
<1>6. CASE CheckCode
  BY <1>6 DEF CheckCode, Error, ERROR_CODE, Ops
<1>7. CASE StartRounds
  BY <1>7 DEF StartRounds, Ops
<1>8. CASE NotFound
  BY <1>8 DEF NotFound
<1>9. CASE Enable
  BY <1>9 DEF Enable, Error, ERROR_NONE
<1>10. CASE Erase
  BY <1>10 DEF Erase, Error, ERROR_ERASE, ERROR_NONE, Cell
<1>11. CASE Blank
  BY <1>11 DEF Blank, Error, ERROR_BLANK, ERROR_NONE
<1>12. CASE ProgramRow
  <2>1. /\ cells' \in [Devices -> [Row -> Cell]]
        /\ burnt' \in SUBSET Row /\ status' \in {"ok", "busy", "failed"} /\ faults' \in 0 .. MaxFaults
    <3>1. row \in Row /\ device \in Devices
      BY <1>12 DEF ProgramRow, Row
    <3>2. ASSUME NEW buffer, NEW bad, NEW value \in Cell
          PROVE  Burn(buffer, bad, value) \in [Devices -> [Row -> Cell]]
      <4>1. \A r \in Row : design[r] \in Cell /\ cells[device][r] \in Cell /\ JUNK \in Cell
        BY <3>1 DEF Cell
      <4> QED
        BY <3>1, <3>2, <4>1 DEF Burn
    <3>3. BLANK \in Cell /\ JUNK \in Cell /\ \A r \in Row : cells[device][r] \in Cell
      BY <3>1 DEF Cell
    <3>4. (burnt \cup {row}) \cap SectorOf(row) \in SUBSET Row
      BY DEF SectorOf
    <3>5. \A bad \in SectorOf(row) : bad \in Row
      BY DEF SectorOf
    <3>6. TakeRow
      BY <1>12 DEF ProgramRow
    <3> QED
      BY <3>2, <3>3, <3>4, <3>5, <3>6 DEF TakeRow
  <2>2. cmp' \in {"none", "status", "three"}
    BY <1>12 DEF ProgramRow, Compared
  <2>3. row' \in 0 .. 15 * Sectors /\ error' \in Error
    BY <1>12 DEF ProgramRow, Error, ERROR_PROGRAM
  <2>4. pc' \in {"run", "exit"}
    BY <1>12 DEF ProgramRow
  <2>5. /\ UNCHANGED <<file_loaded, design, device, verify, usercode, op, repeat, nvram>>
        /\ UNCHANGED <<isp, out, cable, outcome, presses>> /\ pc = "run"
    BY <1>12 DEF ProgramRow
  <2>6. /\ file_loaded' \in BOOLEAN /\ verify' \in BOOLEAN /\ isp' \in BOOLEAN /\ cable' \in BOOLEAN
        /\ file_loaded' => device' \in Devices
    BY <2>5, Zenon
  <2>7. /\ design' \in [Row -> Fuse] /\ device' \in Devices \cup {"NO_DEVICE"}
        /\ usercode' \in Cell /\ op' \in {Ops[i] : i \in 1 .. 4} /\ repeat' \in -1 .. Repeat
        /\ nvram' \in [Stored -> Cell] /\ out' \in Row \cup {-1}
        /\ presses' \in 0 .. MaxPresses /\ outcome' \in {"none", "refused", "done", "alert"}
    BY <2>5
  <2>8. Targeted'
    BY <2>5
  <2> QED
    BY <2>1, <2>2, <2>3, <2>4, <2>6, <2>7, <2>8
<1>13. CASE ProgramEnd
  BY <1>13 DEF ProgramEnd, Error, ERROR_PROGRAM, ERROR_NONE
<1>14. CASE VerifyRow
  BY <1>14 DEF VerifyRow, Error, ERROR_VERIFY, Row
<1>15. CASE VerifyEnd
  BY <1>15 DEF VerifyEnd, Error, ERROR_VERIFY, ERROR_NONE
<1>16. CASE Exit
  <2>1. op' \in {"erase", "blank", "program", "verify"} /\ pc' \in {"enable", "save", "report"}
    BY <1>16, ExitCases, Zenon DEF Continue, Leave, EndRound, IInv
  <2>2. repeat' \in -1 .. Repeat /\ device \in Devices /\ op' \in {Ops[i] : i \in 1 .. 4}
    <3>1. repeat' = repeat \/ (repeat' = repeat - 1 /\ repeat >= 0)
      BY <1>16, ExitCases DEF Exit, Continue, Leave, EndRound, Counted
    <3> QED
      BY <1>16, <2>1, <3>1 DEF Exit, Ops
  <2>3. isp' \in BOOLEAN
    BY <1>16, Zenon DEF Exit, IspExit
  <2> QED
    BY <1>16, <2>1, <2>2, <2>3 DEF Exit
<1>17. CASE SaveCode
  BY <1>17 DEF SaveCode, Ops, UserCode, Cell
<1>18. CASE Report
  <2>1. outcome' \in {"done", "alert"}
    BY <1>18 DEF Report
  <2>2. op' \in {Ops[i] : i \in 1 .. 4} /\ usercode' \in Cell /\ error' \in Error
    BY <1>18 DEF Report, NoLocals, Ops, Cell, Error, ERROR_NONE
  <2>3. UNCHANGED <<fileVars, nvram, chipVars, cable, faults, presses>>
    BY <1>18 DEF Report
  <2>4. pc' = "idle" /\ repeat' = 0 /\ row' = 0 /\ cmp' = "none"
    BY <1>18 DEF Report, NoLocals
  <2>5. verify' \in BOOLEAN
    BY <1>18, Zenon DEF Report, NoLocals
  <2> QED
    BY <2>1, <2>2, <2>3, <2>4, <2>5
<1>19. CASE LoseCable
  <2>1. faults' \in 0 .. MaxFaults
    BY <1>19 DEF LoseCable
  <2>2. cable' \in BOOLEAN
    BY <1>19, Zenon DEF LoseCable
  <2>3. UNCHANGED <<fileVars, verify, usercode, pc, op, repeat, error, row, cmp, nvram, chipVars,
                    outcome, presses>>
    BY <1>19 DEF LoseCable
  <2> QED
    BY <2>1, <2>2, <2>3
<1>20. CASE PowerLoss
  <2>1. faults' \in 0 .. MaxFaults
    BY <1>20 DEF PowerLoss
  <2>2. op' \in {Ops[i] : i \in 1 .. 4} /\ usercode' \in Cell /\ error' \in Error
    BY <1>20 DEF PowerLoss, NoLocals, Ops, Cell, Error, ERROR_NONE
  <2>3. UNCHANGED <<design, nvram, cells, cable, presses>>
    BY <1>20 DEF PowerLoss
  <2>4. /\ pc' = "idle" /\ repeat' = 0 /\ row' = 0 /\ cmp' = "none"
        /\ device' = "NO_DEVICE" /\ outcome' = "none"
        /\ burnt' = {} /\ status' = "busy" /\ out' = -1
    BY <1>20 DEF PowerLoss, NoLocals
  <2>5. /\ verify' \in BOOLEAN /\ isp' \in BOOLEAN
        /\ file_loaded' \in BOOLEAN /\ (file_loaded' => device' \in Devices)
    BY <1>20, Zenon DEF PowerLoss, NoLocals
  <2> QED
    BY <2>1, <2>2, <2>3, <2>4, <2>5
<1>21. CASE UNCHANGED vars
  BY <1>21 DEF vars
<1> QED
  BY <1>1, <1>2, <1>3, <1>4, <1>5, <1>6, <1>7, <1>8, <1>9, <1>10, <1>11, <1>12, <1>13, <1>14,
     <1>15, <1>16, <1>17, <1>18, <1>19, <1>20, <1>21, Zenon DEF Next, Session

LEMMA LeftKept == ASSUME IInv, [Next]_vars PROVE Left' /\ Counted'
<1> USE Sizes DEF IInv, Left, Counted, fileVars, chipVars, envVars
<1>1. CASE \/ \E f \in Files : LoadJedec(f)
           \/ ToggleTarget \/ Refuse \/ \E v \in BOOLEAN : Press(v)
  BY <1>1 DEF LoadJedec, ToggleTarget, Refuse, Press
<1>2. CASE TestDevice \/ CheckCode \/ StartRounds \/ NotFound \/ SaveCode \/ Report
  BY <1>2 DEF TestDevice, CheckCode, StartRounds, NotFound, SaveCode, Report, NoLocals, Verified
<1>3. CASE Enable \/ Erase \/ Blank \/ ProgramEnd \/ VerifyEnd
  BY <1>3 DEF Enable, Erase, Blank, ProgramEnd, VerifyEnd
<1>4. CASE ProgramRow \/ VerifyRow
  BY <1>4 DEF ProgramRow, VerifyRow
<1>5. CASE Exit
  <2>1. Left'
    BY <1>5, Zenon DEF Exit, IspExit
  <2>2. Counted'
    BY <1>5, ExitCases DEF Exit, Continue, Leave, EndRound, TypeOK
  <2> QED
    BY <2>1, <2>2
<1>6. CASE LoseCable \/ PowerLoss
  BY <1>6, Zenon DEF LoseCable, PowerLoss, NoLocals
<1>7. CASE UNCHANGED vars
  BY <1>7 DEF vars
<1> QED
  BY <1>1, <1>2, <1>3, <1>4, <1>5, <1>6, <1>7, Zenon DEF Next, Session

LEMMA VerifiedKept == ASSUME IInv, [Next]_vars PROVE Verified'
<1> USE DEF fileVars, chipVars, envVars
<1>1. TypeOK /\ Verified /\ (pc # "idle" => device \in Devices)
  BY DEF IInv, Targeted
<1>2. CASE \/ \E f \in Files : LoadJedec(f)
           \/ ToggleTarget \/ Refuse \/ \E v \in BOOLEAN : Press(v)
  <2>1. pc = "idle" /\ op = "erase" /\ op' = "erase" /\ pc' \in {"idle", "test"}
    BY <1>1, <1>2 DEF LoadJedec, ToggleTarget, Refuse, Press, Verified
  <2> QED
    BY <2>1 DEF Verified
<1>3. CASE TestDevice \/ NotFound \/ StartRounds
  BY <1>1, <1>3 DEF TestDevice, NotFound, StartRounds, Verified
<1>4. CASE CheckCode
  <2>1. op = "erase"
    BY <1>1, <1>4 DEF CheckCode, Verified
  <2>2. CASE usercode = UserCode(design)
    <3>1. op' = "verify" /\ pc' = "enable" /\ UNCHANGED <<design, device>>
      BY <1>4, <2>2 DEF CheckCode
    <3>2. device \in Stored => nvram'[device] = usercode
      BY <1>1, <1>4 DEF CheckCode, TypeOK
    <3> QED
      BY <2>2, <3>1, <3>2 DEF Verified, UserCode
  <2>3. CASE usercode # UserCode(design)
    BY <1>4, <2>1, <2>3 DEF CheckCode, Verified, ERROR_CODE, ERROR_NONE
  <2> QED
    BY <2>2, <2>3
<1>5. CASE Enable
  <2>1. /\ pc = "enable" /\ pc' = "run" /\ error' = ERROR_NONE /\ row' = 0
        /\ UNCHANGED <<design, device, op, nvram, cells>>
    BY <1>5 DEF Enable
  <2>2. \A r \in Row : ~(r < row' - 1)
    BY <2>1, Sizes DEF Row
  <2> QED
    BY <1>1, <2>1, <2>2 DEF Verified, UserCode
<1>6. CASE Erase \/ Blank \/ ProgramRow \/ ProgramEnd
  <2>1. op \in {"erase", "blank", "program"} /\ op' = op /\ pc' \in {"run", "exit"}
    BY <1>6 DEF Erase, Blank, ProgramRow, ProgramEnd
  <2> QED
    BY <2>1 DEF Verified
<1>7. CASE VerifyRow
  <2>1. /\ op = "verify" /\ pc = "run" /\ row \in Int
        /\ UNCHANGED <<design, device, op, nvram, cells>>
    BY <1>1, <1>7 DEF VerifyRow, TypeOK
  <2>2. CASE row # 0 /\ ~Answered(row - 1)
    <3>1. pc' = "exit" /\ error' = ERROR_VERIFY
      BY <1>7, <2>2 DEF VerifyRow
    <3> QED
      BY <1>1, <2>1, <3>1 DEF Verified, UserCode, ERROR_VERIFY, ERROR_NONE
  <2>3. CASE ~(row # 0 /\ ~Answered(row - 1))
    <3>1. pc' = "run" /\ error' = error /\ row' = row + 1
      BY <1>7, <2>3 DEF VerifyRow
    <3>2. \A r \in Row : r < row' - 1 => Holds(r)
      BY <1>1, <2>1, <2>3, <3>1, Sizes DEF Verified, Answered, Holds, Row
    <3> QED
      BY <1>1, <2>1, <3>1, <3>2 DEF Verified, UserCode, Holds
  <2> QED
    BY <2>2, <2>3
<1>8. CASE VerifyEnd
  <2>1. /\ op = "verify" /\ pc = "run" /\ row = 15 * Sectors /\ pc' = "exit"
        /\ UNCHANGED <<design, device, op, nvram, cells>>
    BY <1>8 DEF VerifyEnd
  <2>2. error' = ERROR_NONE => Answered(row - 1)
    BY <1>8 DEF VerifyEnd, ERROR_NONE, ERROR_VERIFY
  <2>3. error' = ERROR_NONE => \A r \in Row : Holds(r)
    BY <1>1, <2>1, <2>2, Sizes DEF Verified, Answered, Holds, Row
  <2> QED
    BY <1>1, <2>1, <2>3 DEF Verified, UserCode, Holds
<1>9. CASE Exit
  <2>1. pc = "exit" /\ UNCHANGED <<design, device, nvram, cells, error>>
    BY <1>9 DEF Exit
  <2>2. \/ op' \in {"erase", "blank", "program"} /\ pc' \in {"enable", "save"}
        \/ op' = op /\ op # "verify" /\ error # ERROR_NONE /\ pc' = "report"
        \/ op' = op /\ op = "verify" /\ pc' = "report"
    BY <1>1, <1>9, ExitCases, Zenon DEF Continue, Leave, EndRound
  <2> QED
    BY <1>1, <2>1, <2>2 DEF Verified, UserCode, Holds
<1>10. CASE SaveCode
  <2>1. /\ op' = "verify" /\ pc' = "enable" /\ pc = "save"
        /\ UNCHANGED <<design, device>>
    BY <1>10 DEF SaveCode
  <2>2. device \in Stored => nvram'[device] = UserCode(design)
    BY <1>1, <1>10 DEF SaveCode, TypeOK
  <2> QED
    BY <2>1, <2>2 DEF Verified, UserCode
<1>11. CASE Report \/ PowerLoss
  <2>1. op' = "erase" /\ pc' = "idle"
    BY <1>11 DEF Report, PowerLoss, NoLocals
  <2> QED
    BY <2>1 DEF Verified
<1>12. CASE LoseCable
  <2>1. UNCHANGED <<design, device, op, pc, error, row, nvram, cells>>
    BY <1>12 DEF LoseCable
  <2> QED
    BY <1>1, <2>1 DEF Verified, UserCode, Holds
<1>13. CASE UNCHANGED vars
  BY <1>1, <1>13 DEF vars, Verified, UserCode, Holds
<1> QED
  BY <1>2, <1>3, <1>4, <1>5, <1>6, <1>7, <1>8, <1>9, <1>10, <1>11, <1>12, <1>13, Zenon DEF Next, Session

(* What one row's shift does to the chips.                                 *)
LEMMA RowTaken ==
  ASSUME IInv, ProgramRow
  PROVE  /\ \A d \in Devices, r \in Row :
              cells'[d][r] = JUNK /\ cells[d][r] # JUNK => faults' = faults + 1
         /\ \A r \in Row : BurntBelow(r, row + 1) \/ cells'[device][r] = BLANK
<1> DEFINE buffer == (burnt \cup {row}) \cap SectorOf(row)
           NoNewJunk == \A d \in Devices, r \in Row :
                          cells'[d][r] = JUNK /\ cells[d][r] # JUNK => faults' = faults + 1
<1>1. /\ TypeOK /\ device \in Devices /\ op = "program" /\ pc = "run" /\ row \in Row
      /\ \A r \in Row : BurntBelow(r, row) \/ IsBlank(r)
  BY Sizes DEF ProgramRow, IInv, Targeted, Blanked, TypeOK, Row
<1>2. \A r \in Row : BurntBelow(r, row) => BurntBelow(r, row + 1)
  BY <1>1, Sizes DEF BurntBelow, Row
<1>3. CASE UNCHANGED cells
  BY <1>1, <1>2, <1>3 DEF IsBlank
<1>4. ASSUME LastRow(row), NEW bad, bad = -1 \/ faults' = faults + 1, NEW value,
             bad \in SectorOf(row) \cup {-1},
             cells' = Burn(buffer, bad, value)
      PROVE  NoNewJunk /\ \A r \in Row : BurntBelow(r, row + 1) \/ cells'[device][r] = BLANK
  <2>1. \A r \in SectorOf(row) : r \in Row /\ ~BurntBelow(r, row) /\ BurntBelow(r, row + 1)
    <3>1. \A r \in SectorOf(row) : r \in Row /\ Adr[r] \div 32 = Adr[row] \div 32
      BY DEF SectorOf
    <3>2. ASSUME NEW r \in SectorOf(row) PROVE ~BurntBelow(r, row)
      <4>1. ASSUME NEW q \in Row, q < row, LastRow(q), Adr[q] \div 32 = Adr[r] \div 32 PROVE FALSE
        <5>1. q = row
          BY <1>1, <1>4, <3>1, <4>1, OneLastRow
        <5> QED
          BY <1>1, <4>1, <5>1, Sizes DEF Row
      <4> QED
        BY <4>1 DEF BurntBelow
    <3>3. ASSUME NEW r \in SectorOf(row) PROVE BurntBelow(r, row + 1)
      <4>1. row < row + 1
        BY <1>1, Sizes DEF Row
      <4> QED
        BY <1>1, <1>4, <3>1, <4>1 DEF BurntBelow
    <3> QED
      BY <3>1, <3>2, <3>3
  <2>2. /\ \A d \in Devices : d # device => cells'[d] = cells[d]
        /\ \A r \in Row : cells'[device][r] =
              IF r = bad THEN value
              ELSE IF r \notin buffer THEN cells[device][r]
              ELSE IF cells[device][r] = BLANK THEN design[r] ELSE JUNK
    BY <1>1, <1>4 DEF Burn, TypeOK
  <2>3. \A r \in Row : design[r] # JUNK
    BY <1>1 DEF TypeOK, Fuse, JUNK
  <2>4. \A r \in buffer : IsBlank(r)
    BY <1>1, <2>1
  <2>5. -1 \notin Row
    BY Sizes DEF Row
  <2>6. NoNewJunk
    <3> SUFFICES ASSUME NEW d \in Devices, NEW r \in Row, cells'[d][r] = JUNK, cells[d][r] # JUNK
                 PROVE  faults' = faults + 1
      OBVIOUS
    <3>1. d = device
      BY <2>2
    <3>2. r = bad
      BY <2>2, <2>3, <2>4, <3>1 DEF IsBlank
    <3> QED
      BY <1>4, <2>5, <3>2
  <2>7. \A r \in Row : r \notin SectorOf(row) => cells'[device][r] = cells[device][r]
    BY <1>4, <2>2, <2>5
  <2> QED
    BY <1>1, <1>2, <2>1, <2>6, <2>7 DEF IsBlank
<1>5. \/ UNCHANGED cells
      \/ LastRow(row) /\ cells' = Burn(buffer, -1, BLANK)
      \/ /\ LastRow(row) /\ faults' = faults + 1
         /\ \E bad \in SectorOf(row), value \in Cell : cells' = Burn(buffer, bad, value)
  <2>1. TakeRow
    BY DEF ProgramRow
  <2>2. JUNK \in Cell /\ \A bad \in SectorOf(row) : cells[device][bad] \in Cell
    BY <1>1 DEF SectorOf, TypeOK, Cell
  <2> QED
    BY <2>1, <2>2, Zenon DEF TakeRow
<1> QED
  BY <1>3, <1>4, <1>5

LEMMA BlankedKept == ASSUME IInv, [Next]_vars PROVE Blanked'
<1> USE DEF fileVars, chipVars, envVars
<1>1. TypeOK /\ Verified /\ Blanked
  BY DEF IInv
<1>2. CASE \/ \E f \in Files : LoadJedec(f)
           \/ ToggleTarget \/ Refuse \/ \E v \in BOOLEAN : Press(v)
  <2>1. op' = "erase"
    BY <1>1, <1>2 DEF LoadJedec, ToggleTarget, Refuse, Press, Verified
  <2> QED
    BY <2>1 DEF Blanked
<1>3. CASE TestDevice \/ NotFound \/ StartRounds \/ CheckCode
  <2>1. op' \in {"erase", "verify"}
    BY <1>1, <1>3 DEF TestDevice, NotFound, StartRounds, CheckCode, Verified
  <2> QED
    BY <2>1 DEF Blanked
<1>4. CASE Enable
  <2>1. pc = "enable" /\ pc' = "run" /\ UNCHANGED <<op, device, cells>>
    BY <1>4 DEF Enable
  <2> QED
    BY <1>1, <2>1 DEF Blanked, IsBlank
<1>5. CASE Erase \/ VerifyRow \/ VerifyEnd
  <2>1. op' \in {"erase", "verify"}
    BY <1>5 DEF Erase, VerifyRow, VerifyEnd
  <2> QED
    BY <2>1 DEF Blanked
<1>6. CASE Blank
  <2>1. op' = "blank" /\ pc' = "exit" /\ UNCHANGED <<device, cells>>
    BY <1>6 DEF Blank
  <2>2. error' = ERROR_NONE => \A r \in Row : IsBlank(r)
    BY <1>6 DEF Blank, ERROR_NONE, ERROR_BLANK, IsBlank
  <2> QED
    BY <2>1, <2>2 DEF Blanked, IsBlank
<1>7. CASE ProgramRow
  <2>1. \A r \in Row : BurntBelow(r, row + 1) \/ cells'[device][r] = BLANK
    BY <1>7, RowTaken
  <2>2. op' = "program" /\ device' = device /\ pc' \in {"run", "exit"} /\ (pc' = "run" => row' = row + 1)
    BY <1>7 DEF ProgramRow
  <2> QED
    BY <2>1, <2>2 DEF Blanked, IsBlank, BurntBelow
<1>8. CASE ProgramEnd
  <2>1. op' = "program" /\ pc' = "exit"
    BY <1>8 DEF ProgramEnd
  <2> QED
    BY <2>1 DEF Blanked
<1>9. CASE Exit
  <2>1. pc = "exit" /\ pc' # "exit" /\ pc' # "run" /\ UNCHANGED <<device, cells>>
    BY <1>1, <1>9, ExitCases DEF Exit, Continue, Leave, EndRound
  <2>2. op' = "program" /\ pc' = "enable" => op = "blank" /\ error = ERROR_NONE
    BY <1>1, <1>9, ExitCases, Zenon DEF Continue, Leave, EndRound
  <2> QED
    BY <1>1, <2>1, <2>2 DEF Blanked, IsBlank
<1>10. CASE SaveCode \/ Report \/ PowerLoss
  <2>1. op' \in {"erase", "verify"}
    BY <1>10 DEF SaveCode, Report, PowerLoss, NoLocals
  <2> QED
    BY <2>1 DEF Blanked
<1>11. CASE LoseCable \/ UNCHANGED vars
  <2>1. UNCHANGED <<device, op, pc, error, row, cells>>
    BY <1>11 DEF LoseCable, vars
  <2> QED
    BY <1>1, <2>1 DEF Blanked, IsBlank, BurntBelow
<1> QED
  BY <1>2, <1>3, <1>4, <1>5, <1>6, <1>7, <1>8, <1>9, <1>10, <1>11, Zenon DEF Next, Session

LEMMA RowPlace ==
  ASSUME NEW r \in Row
  PROVE  /\ r \in Nat
         /\ FirstRow(r) <=> r % 15 = 0
         /\ LastRow(r) <=> r % 15 = 14
         /\ \A q \in Row : q \in SectorOf(r) <=> q \div 15 = r \div 15
<1>1. \A q \in Row : /\ q \in Nat
                    /\ Adr[q] = ((q % 15) \div 5) * 8 + ((q % 15) % 5) + (q \div 15) * 32
  BY RowAdr, Sizes DEF Row
<1>2. \A q \in Row : Adr[q] \div 32 = q \div 15
  BY <1>1
<1>3. FirstRow(r) <=> r % 15 = 0
  <2>1. r % 15 \in 0 .. 14 /\ r \div 15 \in Nat
    BY <1>1
  <2>2. Adr[r] % 32 = ((r % 15) \div 5) * 8 + ((r % 15) % 5)
    <3> DEFINE a == ((r % 15) \div 5) * 8 + ((r % 15) % 5)
    <3>1. a \in 0 .. 20
      BY <2>1
    <3>2. Adr[r] = a + (r \div 15) * 32
      BY <1>1
    <3> HIDE DEF a
    <3>3. (a + (r \div 15) * 32) % 32 = a
      BY <2>1, <3>1
    <3> QED
      BY <3>2, <3>3 DEF a
  <2> QED
    BY <2>1, <2>2 DEF FirstRow
<1>4. LastRow(r) <=> r % 15 = 14
  BY <1>1 DEF LastRow
<1>5. \A q \in Row : q \in SectorOf(r) <=> q \div 15 = r \div 15
  BY <1>2 DEF SectorOf
<1> QED
  BY <1>1, <1>3, <1>4, <1>5

(* One row's shift, to a chip that listens and to a loop that goes on.     *)
LEMMA RowProgrammed ==
  ASSUME IInv, ProgramRow, Listening, pc' = "run"
  PROVE  /\ \A r \in Row : r < row + 1 /\ r \div 15 = (row + 1) \div 15 => r \in burnt'
         /\ \A r \in Row : r \div 15 < (row + 1) \div 15 =>
              \/ cells'[device][r] \in {design[r], JUNK}
              \/ status' = "failed" /\ (row + 1) % 15 = 0 /\ r \div 15 = ((row + 1) \div 15) - 1
<1> DEFINE buffer == (burnt \cup {row}) \cap SectorOf(row)
<1>1. /\ TypeOK /\ device \in Devices /\ row \in Row /\ row \in Nat
      /\ \A r \in Row : r < row /\ r \div 15 = row \div 15 => r \in burnt
      /\ \A r \in Row : r \div 15 < row \div 15 => Written(r) \/ Untold(r)
  BY Sizes DEF ProgramRow, IInv, Targeted, Programmed, TypeOK, Row
<1>2. row = 0 \/ ~StatusWrong(Compared(cmp))
  BY DEF ProgramRow
<1>3. row # 0 /\ row % 15 = 0 => status = "ok"
  BY <1>1, <1>2, RowPlace DEF Compared, StatusWrong
<1>4. \A r \in Row : r \in Nat /\ (r \div 15 < row \div 15 => Written(r) /\ r \notin SectorOf(row))
  <2>1. \A r \in Row : r \in Nat
    BY Sizes DEF Row
  <2>2. ASSUME NEW r \in Row, r \div 15 < row \div 15 PROVE Written(r)
    <3>1. row # 0
      BY <2>1, <2>2
    <3> QED
      BY <1>1, <1>3, <2>2, <3>1 DEF Untold
  <2>3. ASSUME NEW r \in Row, r \div 15 < row \div 15 PROVE r \notin SectorOf(row)
    BY <1>1, <2>1, <2>3, RowPlace
  <2> QED
    BY <2>1, <2>2, <2>3
<1>5. \A r \in Row : r < row + 1 /\ r \div 15 = row \div 15 => r \in buffer
  <2>1. ASSUME NEW r \in Row, r < row + 1, r \div 15 = row \div 15 PROVE r \in buffer
    <3>1. r \in SectorOf(row)
      BY <1>1, <2>1, RowPlace
    <3>2. r = row \/ r < row
      BY <1>1, <1>4, <2>1
    <3> QED
      BY <1>1, <2>1, <3>1, <3>2
  <2> QED
    BY <2>1
<1>6. CASE ~LastRow(row)
  <2>1. cells' = cells /\ burnt' = buffer
    BY <1>6 DEF ProgramRow, TakeRow
  <2>2. (row + 1) \div 15 = row \div 15
    BY <1>1, <1>6, RowPlace
  <2> QED
    BY <1>4, <1>5, <2>1, <2>2 DEF Written
<1>7. CASE LastRow(row)
  <2>1. row % 15 = 14 /\ (row + 1) \div 15 = (row \div 15) + 1 /\ (row + 1) % 15 = 0
    BY <1>1, <1>7, RowPlace
  <2>2. \A r \in Row : ~(r < row + 1 /\ r \div 15 = (row + 1) \div 15)
    BY <1>1, <1>4, <2>1
  <2>3. ASSUME NEW r \in Row, r \div 15 < (row + 1) \div 15
        PROVE  \/ r \div 15 < row \div 15
               \/ r \in buffer /\ r \div 15 = ((row + 1) \div 15) - 1
    <3>1. r \div 15 < row \div 15 \/ r \div 15 = row \div 15
      BY <1>1, <1>4, <2>1, <2>3
    <3>2. r \div 15 = row \div 15 => r < row + 1
      BY <1>1, <1>4, <2>1
    <3> QED
      BY <1>1, <1>5, <2>1, <3>1, <3>2
  <2>4. ASSUME NEW bad \in SectorOf(row) \cup {-1}, NEW value,
               cells' = Burn(buffer, bad, value), status' = "failed" \/ bad = -1 \/ value = JUNK
        PROVE  \A r \in Row : r \div 15 < (row + 1) \div 15 =>
                 \/ cells'[device][r] \in {design[r], JUNK}
                 \/ status' = "failed" /\ r \div 15 = ((row + 1) \div 15) - 1
    <3> TAKE r \in Row
    <3> HAVE r \div 15 < (row + 1) \div 15
    <3>1. cells'[device][r] =
            IF r = bad THEN value
            ELSE IF r \notin buffer THEN cells[device][r]
            ELSE IF cells[device][r] = BLANK THEN design[r] ELSE JUNK
      BY <1>1, <2>4 DEF Burn, TypeOK
    <3>2. CASE r \div 15 < row \div 15
      <4>1. r \notin SectorOf(row) /\ r # -1 /\ Written(r)
        BY <1>4, <3>2
      <4> QED
        BY <2>4, <3>1, <4>1 DEF Written
    <3>3. CASE r \in buffer /\ r \div 15 = ((row + 1) \div 15) - 1
      <4>1. r # -1
        BY <1>4
      <4> QED
        BY <2>4, <3>1, <3>3, <4>1
    <3> QED
      BY <2>3, <3>2, <3>3
  <2>5. /\ burnt' = {}
        /\ \E bad \in SectorOf(row) \cup {-1}, value \in Cell :
             cells' = Burn(buffer, bad, value) /\ (status' = "failed" \/ bad = -1 \/ value = JUNK)
    <3>1. TakeRow
      BY DEF ProgramRow
    <3>2. BLANK \in Cell /\ JUNK \in Cell /\ \A bad \in SectorOf(row) : cells[device][bad] \in Cell
      BY <1>1 DEF SectorOf, TypeOK, Cell
    <3> QED
      BY <1>7, <3>1, <3>2, Zenon DEF TakeRow
  <2> QED
    BY <2>1, <2>2, <2>4, <2>5
<1> QED
  BY <1>6, <1>7

LEMMA ProgrammedKept == ASSUME IInv, [Next]_vars PROVE Programmed'
<1> USE DEF fileVars, chipVars, envVars
<1>1. TypeOK /\ Verified /\ Programmed
  BY DEF IInv
<1>2. CASE \/ \E f \in Files : LoadJedec(f)
           \/ ToggleTarget \/ Refuse \/ \E v \in BOOLEAN : Press(v)
  <2>1. op' = "erase" /\ pc' # "save"
    BY <1>1, <1>2 DEF LoadJedec, ToggleTarget, Refuse, Press, Verified
  <2> QED
    BY <2>1 DEF Programmed
<1>3. CASE TestDevice \/ NotFound \/ StartRounds \/ CheckCode
  <2>1. op' \in {"erase", "verify"} /\ pc' # "save"
    BY <1>1, <1>3 DEF TestDevice, NotFound, StartRounds, CheckCode, Verified
  <2> QED
    BY <2>1 DEF Programmed
<1>4. CASE Enable
  <2>1. pc' = "run" /\ row' = 0 /\ error' = ERROR_NONE
    BY <1>4 DEF Enable
  <2>2. \A r \in Row : ~(r < row') /\ ~(r \div 15 < row' \div 15)
    <3>1. \A r \in Row : r \in Nat
      BY Sizes DEF Row
    <3> QED
      BY <2>1, <3>1
  <2> QED
    BY <2>1, <2>2 DEF Programmed
<1>5. CASE Erase \/ Blank \/ VerifyRow \/ VerifyEnd
  <2>1. op' \in {"erase", "blank", "verify"} /\ pc' # "save"
    BY <1>5 DEF Erase, Blank, VerifyRow, VerifyEnd
  <2> QED
    BY <2>1 DEF Programmed
<1>6. CASE ProgramRow
  <2>1. UNCHANGED <<op, design, device, isp, cable>> /\ op = "program" /\ pc = "run"
    BY <1>6 DEF ProgramRow
  <2>2. CASE pc' = "run"
    <3>1. row' = row + 1 /\ error' = error
      BY <1>6, <2>2 DEF ProgramRow
    <3>2. Listening' = Listening
      BY <2>1 DEF Listening
    <3> QED
      BY <1>1, <1>6, <2>1, <2>2, <3>1, <3>2, RowProgrammed DEF Programmed, Written, Untold
  <2>3. CASE pc' # "run"
    <3>1. pc' = "exit" /\ error' = ERROR_PROGRAM
      BY <1>6, <2>1, <2>3 DEF ProgramRow
    <3> QED
      BY <3>1 DEF Programmed, ERROR_PROGRAM, ERROR_NONE
  <2> QED
    BY <2>2, <2>3
<1>7. CASE ProgramEnd
  <2>1. /\ op = "program" /\ pc = "run" /\ pc' = "exit" /\ row = 15 * Sectors
        /\ UNCHANGED <<design, device, cells, op>>
    BY <1>7 DEF ProgramEnd
  <2>2. error' = ERROR_NONE => Listening /\ status = "ok"
    BY <1>7 DEF ProgramEnd, StatusWrong, ERROR_PROGRAM, ERROR_NONE
  <2>3. \A r \in Row : r \div 15 < row \div 15
    BY <2>1, Sizes DEF Row
  <2>4. error' = ERROR_NONE => \A r \in Row : Written(r)
    BY <1>1, <2>1, <2>2, <2>3 DEF Programmed, Untold
  <2> QED
    BY <2>1, <2>4 DEF Programmed, Written
<1>8. CASE Exit
  <2>1. pc = "exit" /\ UNCHANGED <<design, device, cells, error>>
    BY <1>8 DEF Exit
  <2>2. \/ pc' \in {"enable", "report"}
        \/ pc' = "save" /\ op' = op /\ op = "program" /\ error = ERROR_NONE
    BY <1>1, <1>8, ExitCases, Zenon DEF Continue, Leave, EndRound
  <2> QED
    BY <1>1, <2>1, <2>2 DEF Programmed, Written
<1>9. CASE SaveCode \/ Report \/ PowerLoss
  <2>1. op' \in {"erase", "verify"} /\ pc' # "save"
    BY <1>9 DEF SaveCode, Report, PowerLoss, NoLocals
  <2> QED
    BY <2>1 DEF Programmed
<1>10. CASE LoseCable
  <2>1. ~Listening' /\ UNCHANGED <<op, pc, error, design, device, cells>>
    BY <1>10 DEF LoseCable, Listening
  <2> QED
    BY <1>1, <2>1 DEF Programmed, Written
<1>11. CASE UNCHANGED vars
  BY <1>1, <1>11 DEF vars, Programmed, Written, Untold, Listening
<1> QED
  BY <1>2, <1>3, <1>4, <1>5, <1>6, <1>7, <1>8, <1>9, <1>10, <1>11, Zenon DEF Next, Session

LEMMA ReadOnlyKept == ASSUME IInv, [Next]_vars PROVE ReadOnly'
<1> USE DEF fileVars, chipVars, envVars
<1>1. TypeOK /\ ReadOnly /\ Verified
  BY DEF IInv
<1>2. CASE TestDevice
  BY <1>1, <1>2 DEF TestDevice, ReadOnly, ERROR_NONE, ERROR_TDOMISMATCH, UserCode
<1>3. CASE \E f \in Files : LoadJedec(f)
  BY <1>1, <1>3 DEF LoadJedec, ReadOnly
<1>4. CASE ToggleTarget \/ Refuse \/ \E v \in BOOLEAN : Press(v)
  BY <1>1, <1>4 DEF ToggleTarget, Refuse, Press, ReadOnly
<1>5. CASE CheckCode \/ NotFound
  BY <1>1, <1>5 DEF CheckCode, NotFound, ReadOnly
<1>6. CASE StartRounds \/ Report \/ PowerLoss
  <2>1. ~verify' /\ pc' # "code"
    <3>1. CASE StartRounds
      BY <3>1 DEF StartRounds
    <3>2. CASE Report \/ PowerLoss
      BY <3>2 DEF Report, PowerLoss, NoLocals
    <3> QED
      BY <1>6, <3>1, <3>2
  <2> QED
    BY <2>1, Zenon DEF ReadOnly
<1>7. CASE Enable \/ Erase \/ Blank \/ ProgramRow \/ ProgramEnd \/ VerifyRow \/ VerifyEnd
  <2>1. UNCHANGED <<verify, op>> /\ pc \in {"enable", "run"} /\ pc' \in {"run", "exit"}
    BY <1>7 DEF Enable, Erase, Blank, ProgramRow, ProgramEnd, VerifyRow, VerifyEnd
  <2> QED
    BY <1>1, <2>1 DEF ReadOnly
<1>8. CASE Exit
  <2>1. verify' = verify /\ pc = "exit" /\ pc' # "code"
    BY <1>1, <1>8, ExitCases DEF Exit, Continue, Leave, EndRound
  <2>2. op = "verify" => pc' = "report"
    BY <1>1, <1>8, ExitCases, Zenon DEF Leave, EndRound, Continue
  <2> QED
    BY <1>1, <2>1, <2>2 DEF ReadOnly
<1>9. CASE SaveCode
  BY <1>1, <1>9 DEF SaveCode, ReadOnly
<1>10. CASE LoseCable \/ UNCHANGED vars
  <2>1. UNCHANGED <<verify, op, pc, error, usercode, device, cells>>
    BY <1>10 DEF LoseCable, vars
  <2> QED
    BY <1>1, <2>1 DEF ReadOnly, UserCode
<1> QED
  BY <1>2, <1>3, <1>4, <1>5, <1>6, <1>7, <1>8, <1>9, <1>10, Zenon DEF Next, Session

LEMMA StepIInv == ASSUME IInv, [Next]_vars PROVE IInv'
BY TypesKept, LeftKept, VerifiedKept, ProgrammedKept, ReadOnlyKept, BlankedKept DEF IInv

-----------------------------------------------------------------------------
(* Theorem TypeCorrect: the session keeps its types: a round is one of     *)
(* those left, a row one of the device's (Button, jtag_program).           *)
THEOREM TypeCorrect == Spec => []TypeOK
<1>1. Init => IInv
  BY InitIInv
<1>2. IInv /\ [Next]_vars => IInv'
  BY StepIInv
<1>3. IInv => TypeOK
  BY DEF IInv
<1> QED
  BY <1>1, <1>2, <1>3, PTL DEF Spec

(* Theorem DoneIsDesign: a session that ends without an alert has verified *)
(* every row of the design in the target, although each shift of           *)
(* jtag_verify compares the row of the shift before, and NVRAM has its     *)
(* usercode.                                                               *)
THEOREM DoneIsDesign == Spec => []DoneMeansDesign
<1>1. Init => IInv
  BY InitIInv
<1>2. IInv /\ [Next]_vars => IInv'
  BY StepIInv
<1>3. IInv => DoneMeansDesign
  <2> SUFFICES ASSUME IInv, pc = "report", error = ERROR_NONE
               PROVE  /\ cells[device] = design
                      /\ device \in Stored => nvram[device] = UserCode(design)
    BY DEF DoneMeansDesign
  <2>1. device \in Devices /\ \A r \in Row : cells[device][r] = design[r]
    BY DEF IInv, Targeted, Verified, Holds
  <2>2. cells[device] \in [Row -> Cell] /\ design \in [Row -> Fuse]
    BY <2>1 DEF IInv, TypeOK
  <2>3. cells[device] = design
    BY <2>1, <2>2
  <2> QED
    BY <2>3 DEF IInv, Verified
<1> QED
  BY <1>1, <1>2, <1>3, PTL DEF Spec

(* Theorem IspAlwaysLeft: every way out of an operation of Button goes     *)
(* through jtag_isp_exit.                                                  *)
THEOREM IspAlwaysLeft == Spec => []IspLeft
<1>1. Init => IInv
  BY InitIInv
<1>2. IInv /\ [Next]_vars => IInv'
  BY StepIInv
<1>3. IInv => IspLeft
  BY DEF IInv, Left, IspLeft
<1> QED
  BY <1>1, <1>2, <1>3, PTL DEF Spec

(* Theorem OnlyBlankIsBurnt: jtag_program never burns a sector twice, in   *)
(* all rounds of erase and blank check.                                    *)
THEOREM OnlyBlankIsBurnt == Spec => BurnsBlank
<1> DEFINE NoNewJunk == \A d \in Devices : \A r \in Row :
                          cells'[d][r] = JUNK /\ cells[d][r] # JUNK => faults' = faults + 1
<1>1. Init => IInv
  BY InitIInv
<1>2. IInv /\ [Next]_vars => IInv'
  BY StepIInv
<1>3. IInv /\ [Next]_vars => [NoNewJunk]_vars
  <2> SUFFICES ASSUME IInv, [Next]_vars PROVE NoNewJunk \/ UNCHANGED vars
    OBVIOUS
  <2>1. CASE ProgramRow
    BY <2>1, RowTaken
  <2>2. CASE Erase
    <3>1. device \in Devices /\ cells \in [Devices -> [Row -> Cell]]
      BY <2>2 DEF Erase, IInv, Targeted, TypeOK
    <3>2. \A d \in Devices : \A r \in Row : cells'[d][r] \in {cells[d][r], BLANK}
      BY <2>2, <3>1 DEF Erase
    <3> QED
      BY <3>2 DEF BLANK, JUNK
  <2>3. CASE UNCHANGED cells
    BY <2>3
  <2>4. ProgramRow \/ Erase \/ UNCHANGED cells
    <3>1. CASE \/ \E f \in Files : LoadJedec(f)
               \/ ToggleTarget \/ Refuse \/ \E v \in BOOLEAN : Press(v)
      BY <3>1 DEF LoadJedec, ToggleTarget, Refuse, Press, chipVars
    <3>2. CASE TestDevice \/ CheckCode \/ StartRounds \/ NotFound \/ Enable \/ Blank \/ Exit \/ SaveCode
      BY <3>2 DEF TestDevice, CheckCode, StartRounds, NotFound, Enable, Blank, Exit, SaveCode, chipVars
    <3>3. CASE ProgramEnd \/ VerifyRow \/ VerifyEnd \/ Report \/ LoseCable \/ PowerLoss \/ UNCHANGED vars
      BY <3>3 DEF ProgramEnd, VerifyRow, VerifyEnd, Report, LoseCable, PowerLoss, vars, chipVars
    <3> QED
      BY <3>1, <3>2, <3>3, Zenon DEF Next, Session
  <2> QED
    BY <2>1, <2>2, <2>3, <2>4
<1> QED
  BY <1>1, <1>2, <1>3, PTL DEF Spec, BurnsBlank

(* Theorem NvramKnowsTheChip: what Button stores in NVRAM is a usercode    *)
(* read from the chip, or that of a design every sector of which was       *)
(* reported burnt, though a sector's status comes back with the first      *)
(* shift of the next.                                                      *)
THEOREM NvramKnowsTheChip == Spec => NvramAfterBurn
<1> DEFINE Known == \A d \in Stored : nvram'[d] # nvram[d] =>
                      IF verify THEN nvram'[d] = UserCode(cells[d])
                      ELSE \A r \in Row : cells[d][r] \in {design[r], JUNK}
<1>1. Init => IInv
  BY InitIInv
<1>2. IInv /\ [Next]_vars => IInv'
  BY StepIInv
<1>3. IInv /\ [Next]_vars => [Known]_vars
  <2> SUFFICES ASSUME IInv, [Next]_vars PROVE Known \/ UNCHANGED vars
    OBVIOUS
  <2>1. CASE CheckCode
    <3>1. verify /\ usercode = UserCode(cells[device])
      BY <2>1 DEF CheckCode, IInv, ReadOnly
    <3>2. \A d \in Stored : nvram'[d] # nvram[d] => d = device /\ nvram'[d] = usercode
      BY <2>1 DEF CheckCode, IInv, TypeOK
    <3> QED
      BY <3>1, <3>2
  <2>2. CASE SaveCode
    <3>1. ~verify /\ \A r \in Row : Written(r)
      BY <2>2 DEF SaveCode, IInv, ReadOnly, Programmed
    <3>2. \A d \in Stored : nvram'[d] # nvram[d] => d = device
      BY <2>2 DEF SaveCode, IInv, TypeOK
    <3> QED
      BY <3>1, <3>2 DEF Written
  <2>3. CASE UNCHANGED nvram
    BY <2>3
  <2>4. CheckCode \/ SaveCode \/ UNCHANGED nvram
    <3>1. CASE \/ \E f \in Files : LoadJedec(f)
               \/ ToggleTarget \/ Refuse \/ \E v \in BOOLEAN : Press(v)
      BY <3>1 DEF LoadJedec, ToggleTarget, Refuse, Press
    <3>2. CASE TestDevice \/ StartRounds \/ NotFound \/ Enable \/ Erase \/ Blank \/ Exit
      BY <3>2 DEF TestDevice, StartRounds, NotFound, Enable, Erase, Blank, Exit
    <3>3. CASE ProgramRow \/ ProgramEnd \/ VerifyRow \/ VerifyEnd
      BY <3>3 DEF ProgramRow, ProgramEnd, VerifyRow, VerifyEnd
    <3>4. CASE Report \/ LoseCable \/ PowerLoss \/ UNCHANGED vars
      BY <3>4 DEF Report, LoseCable, PowerLoss, vars
    <3> QED
      BY <3>1, <3>2, <3>3, <3>4, Zenon DEF Next, Session
  <2> QED
    BY <2>1, <2>2, <2>3, <2>4
<1> QED
  BY <1>1, <1>2, <1>3, PTL DEF Spec, NvramAfterBurn
=============================================================================
