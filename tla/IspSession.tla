----------------------------- MODULE IspSession -----------------------------
(***************************************************************************)
(* FLASH060's session with a CPLD: the JEDEC file read into fuses, and the *)
(* JTAG branch of Button, which erases, checks, programs and verifies the  *)
(* target over JtagShift calls (their effect on the chain is JtagChain).   *)
(*                                                                         *)
(* A row is what one data shift carries: dreg_length fuse groups.  A row's *)
(* fuses are one value; files give their rows in order.  A shift without a *)
(* TDO comparison cannot fail: JtagShift ignores ChangeTapState's result,  *)
(* so jtag_isp_enable and jtag_isp_exit return ERROR_NONE.                 *)
(***************************************************************************)
EXTENDS Integers, Sequences, SequencesExt

CONSTANTS
  Sectors,     \* sectors of the device, fifteen rows each
  dreg_length, \* fuse groups of a row: 4 (XC9572), 8 (XC95144), 16 (XC95288)
  UserRow,     \* the row that carries the usercode
  Files,       \* JEDEC files: sequences of fields
  Repeat,      \* 10: rounds of erase and blank check are Repeat + 1 at most
  WeakRows,    \* rows the chip may fail to burn
  MaxFaults,   \* bound on weak or failed programming, cable and power loss
  MaxPresses,  \* bound on the sessions
  OldDesigns   \* contents the chips may have at start

Row     == 0 .. 15 * Sectors - 1
Fuse    == {0, 1}
BLANK   == 2
JUNK    == 3
Cell    == Fuse \cup {BLANK, JUNK}
Devices == {"ABE", "SDR", "CTPCI"}
Stored  == {"ABE", "SDR"}           \* those with a usercode in NVRAM

ASSUME IspAssumption ==
  /\ Sectors \in Nat \ {0} /\ dreg_length \in {4, 8, 16} /\ UserRow \in Row
  /\ WeakRows \subseteq Row
  /\ Repeat \in Nat /\ MaxFaults \in Nat /\ MaxPresses \in Nat
  /\ OldDesigns \subseteq [Row -> Cell]

ERROR_NONE        == 0
ERROR_TDOMISMATCH == -1
ERROR_ERASE       == -4
ERROR_BLANK       == -5
ERROR_PROGRAM     == -6
ERROR_VERIFY      == -7
ERROR_CODE        == -8
Error == {0, -1, -4, -5, -6, -7, -8}

-----------------------------------------------------------------------------
(* The JEDEC reader: a fold of its fields.  A field is a record:           *)
(*   [kind |-> "QF", rows |-> n]             the number of fuses           *)
(*   [kind |-> "L", at |-> r, data |-> s]    fuses from row r on           *)
(*   [kind |-> "DEVICE", name |-> d]         the note N DEVICE             *)
(*   [kind |-> "other"]                      skipped up to its *           *)
(*   [kind |-> "bad"]                        a character no state expects  *)

Unread == [fuse_count |-> 0, fuses |-> <<>>, note_device |-> <<>>, ok |-> TRUE]

ReadField(m, f) ==
  CASE ~m.ok \/ f.kind = "bad" -> [m EXCEPT !.ok = FALSE]
    [] f.kind = "QF" /\ m.ok ->
         IF m.fuse_count # 0 THEN [m EXCEPT !.ok = FALSE]
         ELSE [m EXCEPT !.fuse_count = f.rows, !.fuses = [r \in 0 .. f.rows - 1 |-> 0]]
    [] f.kind = "L" /\ m.ok ->
         IF m.fuse_count = 0 THEN [m EXCEPT !.ok = FALSE]
         ELSE [m EXCEPT !.fuses = [r \in DOMAIN m.fuses |->
                 IF r - f.at + 1 \in DOMAIN f.data THEN f.data[r - f.at + 1] ELSE @[r]]]
    [] f.kind = "DEVICE" /\ m.ok -> [m EXCEPT !.note_device = Append(@, f.name)]
    [] OTHER -> m

jedec_read(file) == FoldLeft(ReadField, Unread, file)

(* The device of a file.  Notes run together in one text, which names ABE  *)
(* or SDR when it is their name and CTPCI when that occurs in it.          *)
DeviceOf(j) ==
  IF Len(j.note_device) = 1 /\ j.note_device[1] \in Stored THEN j.note_device[1]
  ELSE IF "CTPCI" \in Range(j.note_device) THEN "CTPCI" ELSE "NO_DEVICE"

UserCode(cells) == cells[UserRow]

-----------------------------------------------------------------------------
(* The address of a row, from the number of its first fuse.  The fifteen   *)
(* rows of a sector, nine of eight fuses a group and six of six, take the  *)
(* addresses 0-4, 8-12, 16-20 of 32.                                       *)
SECTOR_LENGTH == 216
MAX_SECTOR    == 108
RowStart(r) ==
  LET k == r % 15
  IN dreg_length * ((r \div 15) * 108 + (IF k < 9 THEN 8 * k ELSE 72 + 6 * (k - 9)))

jtag_device_adr(line) ==
  LET saddr == (line \div (dreg_length \div 2)) \div SECTOR_LENGTH
      taddr == (line \div dreg_length) % MAX_SECTOR
      laddr == IF taddr < 72 THEN taddr \div 8 ELSE ((taddr - 72) \div 6) + 9
  IN (laddr \div 5) * 8 + (laddr % 5) + saddr * 32

Adr == [r \in Row |-> jtag_device_adr(RowStart(r))]
FirstRow(r)  == Adr[r] % 32 = 0
SecondRow(r) == Adr[r] % 32 = 1
LastRow(r)   == Adr[r] % 32 = 20       \* 0x14: the shift that burns the sector
SectorOf(r)  == {q \in Row : Adr[q] \div 32 = Adr[r] \div 32}

\* files are made for a device with these rows
ASSUME FilesAssumption ==
  \A f \in Files : LET j == jedec_read(f) IN j.ok => j.fuses \in [Row -> Fuse]

VARIABLES
  file_loaded, design, device,    \* globals: jed's fuses, the target
  verify, usercode,               \* Button's locals
  pc, op, repeat, error, row,     \* where Button is, in which operation
  cmp,                            \* jtag_program's tdo_cmp/tdo_mask: compare the status?
  nvram,                          \* code_abe, code_sdr
  cells, isp, burnt, status, out, \* the chips: contents, ISP mode, row buffer, answer
  cable, faults, presses, outcome \* environment; how the last session ended

fileVars == <<file_loaded, design, device>>
chipVars == <<cells, isp, burnt, status, out>>
envVars  == <<cable, faults, presses, outcome>>
vars == <<fileVars, verify, usercode, pc, op, repeat, error, row, cmp, nvram, chipVars,
          envVars>>

Ops == <<"erase", "blank", "program", "verify">>

TypeOK ==
  /\ file_loaded \in BOOLEAN /\ design \in [Row -> Fuse]
  /\ device \in Devices \cup {"NO_DEVICE"} /\ (file_loaded => device \in Devices)
  /\ verify \in BOOLEAN /\ usercode \in Cell
  /\ pc \in {"idle", "test", "code", "enable", "run", "exit", "save", "report"}
  /\ op \in {Ops[i] : i \in 1 .. 4} /\ repeat \in -1 .. Repeat /\ error \in Error
  /\ row \in 0 .. 15 * Sectors
  /\ cmp \in {"none", "status", "three"}
  /\ nvram \in [Stored -> Cell]
  /\ cells \in [Devices -> [Row -> Cell]] /\ isp \in BOOLEAN
  /\ burnt \in SUBSET Row /\ status \in {"ok", "busy", "failed"}
  /\ out \in Row \cup {-1}
  /\ cable \in BOOLEAN /\ faults \in 0 .. MaxFaults /\ presses \in 0 .. MaxPresses
  /\ outcome \in {"none", "refused", "done", "alert"}

Init ==
  /\ file_loaded = FALSE /\ design = [r \in Row |-> 0] /\ device = "NO_DEVICE"
  /\ verify = FALSE /\ usercode = BLANK
  /\ pc = "idle" /\ op = "erase" /\ repeat = 0 /\ error = ERROR_NONE
  /\ row = 0 /\ cmp = "none"
  /\ \E d \in OldDesigns : cells = [v \in Devices |-> d]
  /\ nvram = [v \in Stored |-> 0]
  /\ isp = FALSE /\ burnt = {} /\ status = "busy" /\ out = -1
  /\ cable = TRUE /\ faults = 0 /\ presses = 0 /\ outcome = "none"

-----------------------------------------------------------------------------
(* load_file with a JEDEC file: the old file is gone first, a new one      *)
(* counts only if it is read and names a device.                           *)
LoadJedec(f) ==
  /\ pc = "idle"
  /\ LET j == jedec_read(f)
     IN IF j.ok
        THEN /\ design' = j.fuses
             /\ device' = DeviceOf(j)
             /\ file_loaded' = (device' # "NO_DEVICE")
        ELSE /\ file_loaded' = FALSE /\ UNCHANGED <<design, device>>
  /\ UNCHANGED <<verify, usercode, pc, op, repeat, error, row, cmp, nvram, chipVars,
                 envVars>>

(* The file field: the same design for the other of the two XC95144.       *)
ToggleTarget ==
  /\ pc = "idle" /\ file_loaded /\ device \in Stored
  /\ device' = IF device = "ABE" THEN "SDR" ELSE "ABE"
  /\ UNCHANGED <<file_loaded, design, verify, usercode, pc, op, repeat, error, row, cmp,
                 nvram, chipVars, envVars>>

(* PROG or VERIFY on an '030 with the cable attached and powered.          *)
Press(v) ==
  /\ pc = "idle" /\ file_loaded /\ cable /\ presses < MaxPresses
  /\ presses' = presses + 1
  /\ verify' = v /\ pc' = "test" /\ error' = ERROR_NONE
  /\ UNCHANGED <<fileVars, usercode, op, repeat, row, cmp, nvram, chipVars, cable, faults, outcome>>

(* On a 68060, without the cable or its power, or with the user's Cancel   *)
(* of the NVDI warning, nothing is done.                                   *)
Refuse ==
  /\ pc = "idle" /\ file_loaded
  /\ outcome' = "refused"
  /\ UNCHANGED <<fileVars, verify, usercode, pc, op, repeat, error, row, cmp, nvram,
                 chipVars, cable, faults, presses>>

(* jtag_test_device: BYPASS status and IDCODE compared, then the usercode. *)
TestDevice ==
  /\ pc = "test" /\ pc' = "code"
  /\ IF cable THEN error' = ERROR_NONE /\ usercode' = UserCode(cells[device])
              ELSE error' = ERROR_TDOMISMATCH /\ UNCHANGED usercode
  /\ UNCHANGED <<fileVars, verify, op, repeat, row, cmp, nvram, chipVars, envVars>>

(* The usercode read: a verification notes it in NVRAM before it compares. *)
CheckCode ==
  /\ pc = "code" /\ error = ERROR_NONE /\ verify
  /\ nvram' = IF device \in Stored THEN [nvram EXCEPT ![device] = usercode] ELSE nvram
  /\ IF usercode = UserCode(design)
     THEN op' = "verify" /\ pc' = "enable" /\ UNCHANGED error
     ELSE error' = ERROR_CODE /\ pc' = "report" /\ UNCHANGED op
  /\ UNCHANGED <<fileVars, verify, usercode, repeat, row, cmp, chipVars, envVars>>

StartRounds ==
  /\ pc = "code" /\ error = ERROR_NONE /\ ~verify
  /\ repeat' = Repeat /\ op' = "erase" /\ pc' = "enable"
  /\ UNCHANGED <<fileVars, verify, usercode, error, row, cmp, nvram, chipVars, envVars>>

NotFound ==
  /\ pc = "code" /\ error # ERROR_NONE /\ pc' = "report"
  /\ UNCHANGED <<fileVars, verify, usercode, op, repeat, error, row, cmp, nvram,
                 chipVars, envVars>>

(* jtag_isp_enable, which also overwrites the error of the step before.    *)
Enable ==
  /\ pc = "enable" /\ pc' = "run" /\ error' = ERROR_NONE
  /\ isp' = (cable \/ isp)
  /\ row' = 0 /\ cmp' = "three"
  /\ UNCHANGED <<fileVars, verify, usercode, op, repeat, nvram, cells, burnt, status,
                 out, envVars>>

-----------------------------------------------------------------------------
Listening == cable /\ isp

(* jtag_erase: a chip may keep a sector, and may or may not say so.        *)
Erase ==
  /\ pc = "run" /\ op = "erase" /\ pc' = "exit"
  /\ \E kept \in {{}} \cup {SectorOf(r) : r \in Row}, told \in BOOLEAN :
       /\ kept = {} => ~told
       /\ cells' = IF Listening
                   THEN [cells EXCEPT ![device] = [r \in Row |-> IF r \in kept THEN @[r] ELSE BLANK]]
                   ELSE cells
       /\ error' = IF told \/ ~Listening THEN ERROR_ERASE ELSE ERROR_NONE
  /\ UNCHANGED <<fileVars, verify, usercode, op, repeat, row, cmp, nvram, isp, burnt,
                 status, out, envVars>>

(* jtag_blank: the chip compares, the status is read.                      *)
Blank ==
  /\ pc = "run" /\ op = "blank" /\ pc' = "exit"
  /\ error' = IF Listening /\ \A r \in Row : cells[device][r] = BLANK
              THEN ERROR_NONE ELSE ERROR_BLANK
  /\ UNCHANGED <<fileVars, verify, usercode, op, repeat, row, cmp, nvram, chipVars,
                 envVars>>

(* What the chip does with a row: it buffers it, and the strobe of the     *)
(* last row of a sector burns the buffer.  Burning what is not blank is    *)
(* junk.  A fault leaves a row blank and is told, or spoils one untold.    *)
Burn(buffer, bad, value) ==
  [cells EXCEPT ![device] = [r \in Row |->
     IF r = bad THEN value
     ELSE IF r \notin buffer THEN @[r]
     ELSE IF @[r] = BLANK THEN design[r] ELSE JUNK]]

TakeRow ==
  LET buffer == (burnt \cup {row}) \cap SectorOf(row)
  IN IF ~Listening THEN UNCHANGED <<cells, burnt, status, faults>>
     ELSE IF ~LastRow(row)
     THEN burnt' = buffer /\ status' = "busy" /\ UNCHANGED <<cells, faults>>
     ELSE /\ burnt' = {}
          /\ \/ cells' = Burn(buffer, -1, BLANK) /\ status' = "ok" /\ UNCHANGED faults
             \/ /\ faults < MaxFaults /\ faults' = faults + 1
                /\ \E bad \in SectorOf(row) \cap WeakRows :
                     \/ cells' = Burn(buffer, bad, cells[device][bad]) /\ status' = "failed"
                     \/ cells' = Burn(buffer, bad, JUNK) /\ status' = "ok"

(* jtag_program, one row: each shift brings back the status of the one     *)
(* before it, so that of a sector is compared by the first row of the next.*)
Compared(c) ==
  IF FirstRow(row) THEN "status" ELSE IF SecondRow(row) THEN "none" ELSE c
StatusWrong(c) ==
  \/ c = "status" /\ (~Listening \/ status # "ok")
  \/ c = "three" /\ Listening

ProgramRow ==
  /\ pc = "run" /\ op = "program" /\ row < 15 * Sectors
  /\ cmp' = Compared(cmp)
  /\ TakeRow
  /\ IF row # 0 /\ StatusWrong(cmp')
     THEN error' = ERROR_PROGRAM /\ pc' = "exit" /\ UNCHANGED row
     ELSE row' = row + 1 /\ UNCHANGED <<error, pc>>
  /\ UNCHANGED <<fileVars, verify, usercode, op, repeat, nvram, isp, out, cable, outcome,
                 presses>>

(* The last shift, for the status of the last sector.                      *)
\* mutant of ProgramEnd: the captured status is not compared
ProgramEndUnread ==
  /\ pc = "run" /\ op = "program" /\ row = 15 * Sectors /\ pc' = "exit"
  /\ UNCHANGED <<fileVars, verify, usercode, op, repeat, error, row, cmp, nvram, chipVars,
                 envVars>>

ProgramEnd ==
  /\ pc = "run" /\ op = "program" /\ row = 15 * Sectors /\ pc' = "exit"
  /\ error' = IF StatusWrong("status") THEN ERROR_PROGRAM ELSE ERROR_NONE
  /\ UNCHANGED <<fileVars, verify, usercode, op, repeat, row, cmp, nvram, chipVars,
                 envVars>>

(* jtag_verify: each shift asks for its row and brings back the one asked  *)
(* by the shift before, compared with old_tdo.                             *)
Answered(r) == Listening /\ out = r /\ cells[device][r] = design[r]

VerifyRow ==
  /\ pc = "run" /\ op = "verify" /\ row < 15 * Sectors
  /\ out' = IF Listening THEN row ELSE out
  /\ IF row # 0 /\ ~Answered(row - 1)
     THEN error' = ERROR_VERIFY /\ pc' = "exit" /\ UNCHANGED row
     ELSE row' = row + 1 /\ UNCHANGED <<error, pc>>
  /\ UNCHANGED <<fileVars, verify, usercode, op, repeat, cmp, nvram, cells, isp, burnt,
                 status, envVars>>

\* mutant of VerifyEnd: the loop's last row stays in the pipeline
VerifyEndEarly ==
  /\ pc = "run" /\ op = "verify" /\ row = 15 * Sectors /\ pc' = "exit"
  /\ UNCHANGED <<fileVars, verify, usercode, op, repeat, error, row, cmp, nvram, chipVars,
                 envVars>>

VerifyEnd ==
  /\ pc = "run" /\ op = "verify" /\ row = 15 * Sectors /\ pc' = "exit"
  /\ error' = IF Answered(row - 1) THEN ERROR_NONE ELSE ERROR_VERIFY
  /\ UNCHANGED <<fileVars, verify, usercode, op, repeat, row, cmp, nvram, chipVars,
                 envVars>>

-----------------------------------------------------------------------------
(* jtag_isp_exit and what Button does next.                                *)
Continue(o) == op' = o /\ pc' = "enable" /\ UNCHANGED repeat
Leave       == op' = op /\ pc' = "report" /\ UNCHANGED repeat

\* mutants of EndRound: the rounds are not counted; only a failed erase stops
EndRoundUncounted ==
  /\ repeat' = repeat
  /\ IF repeat' >= 0 /\ error \in {ERROR_ERASE, ERROR_BLANK}
     THEN op' = "erase" /\ pc' = "enable"
     ELSE IF error = ERROR_NONE THEN op' = "program" /\ pc' = "enable"
     ELSE op' = op /\ pc' = "report"
EndRoundNotBlank ==
  /\ repeat' = repeat - 1
  /\ IF repeat' >= 0 /\ error = ERROR_ERASE
     THEN op' = "erase" /\ pc' = "enable"
     ELSE op' = "program" /\ pc' = "enable"

EndRound ==
  /\ repeat' = repeat - 1
  /\ IF repeat' >= 0 /\ error \in {ERROR_ERASE, ERROR_BLANK}
     THEN op' = "erase" /\ pc' = "enable"
     ELSE IF error = ERROR_NONE THEN op' = "program" /\ pc' = "enable"
     ELSE op' = op /\ pc' = "report"

\* mutant of IspExit: only a clean operation is closed
IspExitIfClean == isp' = (isp /\ (~cable \/ error # ERROR_NONE))
IspExit == isp' = (isp /\ ~cable)

Exit ==
  /\ pc = "exit"
  /\ IspExit /\ burnt' = {} /\ status' = "busy" /\ out' = -1 /\ row' = 0 /\ cmp' = "none"
  /\ CASE op = "erase"   -> Continue("blank")
       [] op = "blank"   -> EndRound
       [] op = "program" -> IF error = ERROR_NONE
                            THEN pc' = "save" /\ UNCHANGED <<op, repeat>> ELSE Leave
       [] op = "verify"  -> Leave
  /\ UNCHANGED <<fileVars, verify, usercode, error, nvram, cells, envVars>>

(* Button returns: its locals are gone.                                    *)
NoLocals ==
  /\ pc' = "idle" /\ op' = "erase" /\ repeat' = 0 /\ error' = ERROR_NONE
  /\ row' = 0 /\ cmp' = "none" /\ verify' = FALSE /\ usercode' = BLANK

(* The usercode of the file goes to NVRAM, then the chip is verified.      *)
SaveCode ==
  /\ pc = "save" /\ op' = "verify" /\ pc' = "enable"
  /\ nvram' = IF device \in Stored THEN [nvram EXCEPT ![device] = UserCode(design)] ELSE nvram
  /\ UNCHANGED <<fileVars, verify, usercode, repeat, error, row, cmp, chipVars, envVars>>

Report ==
  /\ pc = "report"
  /\ outcome' = IF error = ERROR_NONE THEN "done" ELSE "alert"
  /\ NoLocals
  /\ UNCHANGED <<fileVars, nvram, chipVars, cable, faults, presses>>

(* The environment: the cable comes off, or the power fails.               *)
LoseCable ==
  /\ cable /\ pc # "idle" /\ faults < MaxFaults
  /\ cable' = FALSE /\ faults' = faults + 1
  /\ UNCHANGED <<fileVars, verify, usercode, pc, op, repeat, error, row, cmp, nvram,
                 chipVars, outcome, presses>>

PowerLoss ==
  /\ pc # "idle" /\ faults < MaxFaults /\ faults' = faults + 1
  /\ file_loaded' = FALSE /\ device' = "NO_DEVICE" /\ outcome' = "none" /\ NoLocals
  /\ isp' = FALSE /\ burnt' = {} /\ status' = "busy" /\ out' = -1
  /\ UNCHANGED <<design, nvram, cells, cable, presses>>

Session ==
  \/ TestDevice \/ CheckCode \/ StartRounds \/ NotFound \/ Enable
  \/ Erase \/ Blank \/ ProgramRow \/ ProgramEnd \/ VerifyRow \/ VerifyEnd
  \/ Exit \/ SaveCode \/ Report

Next ==
  \/ \E f \in Files : LoadJedec(f)
  \/ ToggleTarget
  \/ \E v \in BOOLEAN : Press(v)
  \/ Refuse
  \/ Session
  \/ LoseCable \/ PowerLoss

Spec     == Init /\ [][Next]_vars
FairSpec == Spec /\ WF_vars(Session)

-----------------------------------------------------------------------------
(* Properties.                                                             *)

(* A session that ends without an alert leaves the design in the target    *)
(* and, for the CT60's own chips, its usercode in NVRAM.                   *)
DoneMeansDesign ==
  pc = "report" /\ error = ERROR_NONE =>
    /\ cells[device] = design
    /\ device \in Stored => nvram[device] = UserCode(design)

(* Every way out of an operation leaves ISP mode, as long as the chip      *)
(* hears the driver: a chip left in it drives none of the CT60's pins.     *)
IspLeft == cable /\ pc \notin {"run", "exit"} => ~isp

(* Only faults make junk: a sector is never burnt twice, since each        *)
(* programming follows a blank check that passed, in all rounds.           *)
BurnsBlank ==
  [][\A d \in Devices : \A r \in Row :
       cells'[d][r] = JUNK /\ cells[d][r] # JUNK => faults' = faults + 1]_vars

(* NVRAM learns a usercode from the chip itself, or after every sector was *)
(* reported burnt: no failed sector goes unseen though its status arrives  *)
(* one shift late.                                                         *)
NvramAfterBurn ==
  [][\A d \in Stored : nvram'[d] # nvram[d] =>
       IF verify THEN nvram'[d] = UserCode(cells[d])
       ELSE \A r \in Row : cells[d][r] \in {design[r], JUNK}]_vars

(* A session ends: the rounds of erase and blank check are counted down    *)
(* even when the chip never erases.                                        *)
SessionEnds == (pc # "idle") ~> (pc = "idle")
=============================================================================
