------------------------------- MODULE Setup -------------------------------
(***************************************************************************)
(* The setup of the CT60's firmware (ct60_setup): a menu of forms, each a  *)
(* list of settings, driven by single keys.  The NVRAM form edits a copy   *)
(* of the NVRAM, the CPU and BOOT forms copies of flash parameters; each   *)
(* has an entry that reads them again and one that saves them.  The date   *)
(* and time go to the clock at once.                                       *)
(*                                                                         *)
(* su is the running setup; a row is a form, a selection the place in it.  *)
(* Drawing is left out: a form's texts are functions of what it shows.     *)
(***************************************************************************)
EXTENDS SettingsStore

CONSTANTS
  Typed       \* Typed[s]: the numbers that may be typed for the setting s; 0 is nothing

VARIABLES
  su,         \* the setup
  rtc         \* date and time of the clock chip

HasCT60 == machine.cookie

-----------------------------------------------------------------------------
(* The forms: the settings in order, the screen row of each, the kinds.    *)
NvramForm == <<"date1", "date2", "year", "hour", "minute", "language", "keyboard", "tf", "dfmt",
               "res", "planes", "hz", "st", "delay", "bootpref", "arb", "id", "reload", "save">>
NvramRows == <<2, 2, 2, 3, 3, 5, 5, 6, 6, 8, 8, 8, 8, 9, 9, 10, 10, 12, 13>>
CpuForm   == <<"fpu", "blit", "freq", "reload", "save">>
CpuRows   == <<3, 9, 11, 14, 15>>
BootForm  == <<"newboot", "order", "log", "tos", "pciide", "reload", "save">>
BootRows  == <<2, 3, 5, 7, 9, 11, 12>>

\* the nine rows of the menu, of which CT60 and SDRAM have no settings
NUM_MENU_ENTRIES == 9
Empty == {2, 6, 8}
FormOf(row) ==
  CASE row = 1 -> NvramForm [] row = 4 -> CpuForm [] row = 7 -> BootForm
    [] row = 9 -> machine.exits [] OTHER -> << >>
RowsOf(row) ==
  CASE row = 1 -> NvramRows [] row = 4 -> CpuRows [] row = 7 -> BootRows
    [] OTHER   -> [i \in 1 .. Len(machine.exits) |-> IF i = 3 THEN 5 ELSE i + 1]

Kind(s) ==
  CASE s \in {"date1", "date2", "year", "hour", "minute", "delay", "id"} -> "INPUT"
    [] s \in {"arb", "newboot", "log", "tos", "pciide"}                  -> "BOOL"
    [] s \in {"reload", "save"} \cup Range(machine.exits)                -> "FUNC"
    [] s = "freq"                                                        -> "UPDOWN"
    [] OTHER                                                             -> "LIST"

ListLen(s) ==
  CASE s = "language" -> 6 [] s = "keyboard" -> 19 [] s \in {"dfmt", "res"} -> 12
    [] s = "planes"   -> 5 [] s = "bootpref" -> 6  [] s = "order" -> 4 [] OTHER -> 2

Setting(x) == FormOf(x.row)[x.sel]

-----------------------------------------------------------------------------
(* The NVRAM form: what an entry does to the copy, and how it is shown.    *)
VMODES_RES ==
  [i \in 0 .. 11 |-> [c80 |-> i % 4 < 2, vga |-> i < 4, ovr |-> i >= 8,
                      vert |-> (i % 2 = 1) = (i < 4)]]

\* mutant of DFMT_SEP: the panel's order of the separators
DFMT_SEP_PANEL == [i \in 0 .. 11 |-> IF i < 4 THEN "/" ELSE IF i < 8 THEN "-" ELSE "."]

DFMT_SEP == [i \in 0 .. 11 |-> IF i < 4 THEN "." ELSE IF i < 8 THEN "/" ELSE "-"]

\* the systems in the order of the form's list, which is not the panel's
code_boot_pref == <<0, 8, 16, 32, 64, 128>>

NvChosen(nv, s, v) ==
  CASE s \in {"language", "keyboard", "tf", "delay", "id"} -> [nv EXCEPT ![s] = v]
    [] s = "dfmt"     -> [nv EXCEPT !.df = v % 4, !.sep = DFMT_SEP[v]]
    [] s = "res"      -> LET m == VMODES_RES[v]
                         IN  [nv EXCEPT !.vmode = [@ EXCEPT !.c80 = m.c80, !.vga = m.vga,
                                                            !.ovr = m.ovr, !.vert = m.vert]]
    [] s = "planes"   -> [nv EXCEPT !.vmode.planes = v]
    [] s = "hz"       -> [nv EXCEPT !.vmode.pal = v = 0]
    [] s = "st"       -> [nv EXCEPT !.vmode.st = v = 0]
    [] s = "bootpref" -> [nv EXCEPT !.bootpref = code_boot_pref[v + 1]]
    [] s = "arb"      -> [nv EXCEPT !.arb = 1 - @]

\* readNvram
ResShown(vm) ==
  LET i == (IF vm.c80 THEN 0 ELSE 2) + (IF vm.vert THEN 0 ELSE 1)
  IN  IF vm.vga THEN (IF vm.vert THEN i + 1 ELSE i - 1) ELSE i + 4 + (IF vm.ovr THEN 4 ELSE 0)

NvShown(nv) ==
  [language |-> IF nv.language > 6 THEN 0 ELSE nv.language,
   keyboard |-> IF nv.keyboard >= 19 THEN 0 ELSE nv.keyboard, tf |-> nv.tf,
   dfmt |-> nv.df + (CASE nv.sep = "." -> 0 [] nv.sep = "-" -> 8 [] OTHER -> 4),
   res |-> ResShown(nv.vmode), planes |-> IF nv.vmode.planes > 4 THEN 0 ELSE nv.vmode.planes,
   hz |-> IF nv.vmode.pal THEN 0 ELSE 1, st |-> IF nv.vmode.st THEN 0 ELSE 1,
   delay |-> nv.delay, arb |-> nv.arb, id |-> nv.id,
   bootpref |-> IF nv.bootpref \in Range(code_boot_pref)
                THEN (CHOOSE i \in DOMAIN code_boot_pref : code_boot_pref[i] = nv.bootpref) - 1
                ELSE 0]

(* The date: the first two fields are day and month, or month and day, as  *)
(* the format says.  GEMDOS takes no date that is none.                    *)
DayFirst(nv) == nv.df % 2 = 1
FieldOf(nv, s) ==
  CASE s = "date1" -> IF DayFirst(nv) THEN "day" ELSE "month"
    [] s = "date2" -> IF DayFirst(nv) THEN "month" ELSE "day"
    [] OTHER       -> s

Tsetdate(now, new) ==
  LET leap == new.year % 4 = 0 /\ new.year # 2100
      days == CASE new.month = 2 -> IF leap THEN 29 ELSE 28
                [] new.month \in {4, 6, 9, 11} -> 30 [] OTHER -> 31
  IN  IF new.day <= days THEN new ELSE now

InRange(f, v) ==
  v \in (CASE f = "day"   -> 1 .. 31      [] f = "month"  -> 1 .. 12 [] f = "hour" -> 0 .. 23
           [] f = "year"  -> 1980 .. 2107 [] f = "minute" -> 0 .. 59
           [] f = "delay" -> 0 .. 255     [] f = "id"     -> 0 .. 7  [] OTHER -> 0 .. 18)

DateShown(nv, t) ==
  [date1 |-> t[FieldOf(nv, "date1")], date2 |-> t[FieldOf(nv, "date2")], year |-> t.year,
   hour |-> t.hour, minute |-> t.minute]

-----------------------------------------------------------------------------
(* The CPU form.  frequency is the generator's; the text shows it divided, *)
(* where the strap halves the clock.  Without a chip, or with a blank one, *)
(* the processor runs on another clock and nothing is divided.             *)
CtcmDiv == IF machine.half /\ ct60_read_clock(chip) > 0 THEN 2 ELSE 1

CpuLimits ==
  IF ~On060 \/ machine.lc THEN [min |-> 0, max |-> 0]
  ELSE [min |-> IF machine.rev >= 6 THEN 66500 ELSE SETUP_LIMITS.min,
        max |-> IF CtcmDiv = 2 THEN MAX_FREQ_DALLAS
                ELSE IF machine.rev >= 6 THEN MAX_FREQ_REV6 ELSE 75000]

\* unsigned: what is below zero is above every limit
Limited(f) ==
  IF f < 0 \/ f > CpuLimits.max THEN CpuLimits.max
  ELSE IF f < CpuLimits.min THEN CpuLimits.min ELSE f

Steps == [up |-> StepOf(chip), down |-> -StepOf(chip), right |-> 1000 * CtcmDiv, left |-> -1000 * CtcmDiv]

readCT60Settings(cpu) ==
  [freq |-> cpu.freq, text |-> cpu.text, fpu |-> flash.cpufpu, fpu_load |-> flash.cpufpu,
   blit |-> flash.blitter, blit_load |-> flash.blitter]
readCT60Freq(cpu) ==
  LET frequency == setup_read_clock(chip)
  IN  [cpu EXCEPT !.freq = frequency, !.text = IF frequency # 0 THEN frequency ELSE @]

initFormCpu(cpu) ==
  IF ~HasCT60 THEN cpu ELSE readCT60Settings(IF cpu.freq = 0 THEN readCT60Freq(cpu) ELSE cpu)
reloadFormCpu(cpu) ==
  LET now == readCT60Freq(cpu)
  IN  IF HasCT60 THEN readCT60Settings([now EXCEPT !.text = now.freq]) ELSE cpu

\* entry 0 of the list of the FPU is "ON", the parameter's bit says off is 0
CpuChosen(cpu, s, v) ==
  IF s = "fpu" THEN [cpu EXCEPT !.fpu = 1 - v] ELSE [cpu EXCEPT !.blit = v]

CpuShown(cpu) == [fpu |-> 1 - cpu.fpu, blit |-> cpu.blit, freq |-> cpu.text]

-----------------------------------------------------------------------------
(* The BOOT form: devs holds the order and, in bit 2, the old boot.        *)
reloadFromBoot(boot) ==
  IF ~HasCT60 THEN [devs |-> 0, log |-> 1, tos |-> 1, pciide |-> 0, load |-> boot.load]
  ELSE LET b == [devs |-> flash.bootorder, log |-> flash.bootlog, tos |-> flash.tosram,
                 pciide |-> flash.ctpci]
       IN  [devs |-> b.devs, log |-> b.log, tos |-> b.tos, pciide |-> b.pciide, load |-> b]

BootChosen(boot, s, v) ==
  CASE s = "newboot" -> [boot EXCEPT !.devs = IF @ >= 4 THEN @ - 4 ELSE @ + 4]
    [] s = "order"   -> [boot EXCEPT !.devs = 4 * (@ \div 4) + v]
    [] OTHER         -> [boot EXCEPT ![s] = 1 - @]

BootShown(boot) ==
  [newboot |-> IF boot.devs >= 4 THEN 0 ELSE 1, order |-> boot.devs % 4, log |-> 1 - boot.log,
   tos |-> boot.tos, pciide |-> boot.pciide]

-----------------------------------------------------------------------------
(* The forms together: what is shown, and what a new value does.           *)
TextsOf(x, t) ==
  CASE x.row = 1 ->
         LET nv == NvShown(x.nv)  date == DateShown(x.nv, t)
         IN  [f \in DOMAIN nv \cup DOMAIN date |-> IF f \in DOMAIN nv THEN nv[f] ELSE date[f]]
    [] x.row = 4 -> CpuShown(x.cpu)
    [] x.row = 7 -> BootShown(x.boot)
    [] OTHER     -> << >>

\* confirm() of the form: a number out of its range is ignored
Confirmed(x, s, v) ==
  CASE x.row = 1 -> IF \/ s \in DOMAIN DateShown(x.nv, rtc)
                       \/ Kind(s) = "INPUT" /\ ~InRange(s, v)
                    THEN x ELSE [x EXCEPT !.nv = NvChosen(@, s, v)]
    [] x.row = 4 -> IF s = "freq" THEN [x EXCEPT !.cpu.text = x.cpu.freq]
                    ELSE [x EXCEPT !.cpu = CpuChosen(@, s, v)]
    [] OTHER     -> [x EXCEPT !.boot = BootChosen(@, s, v)]

NewClock(x, s, v) ==
  LET f == FieldOf(x.nv, s)
  IN  IF s \notin DOMAIN DateShown(x.nv, rtc) \/ ~InRange(f, v) THEN rtc
      ELSE IF f \in {"hour", "minute"} THEN [rtc EXCEPT ![f] = v]
      ELSE Tsetdate(rtc, [rtc EXCEPT ![f] = v])

NewValue(s, v) ==
  /\ su' = [Confirmed(su, s, v) EXCEPT !.st = "FORM_SELECT", !.list = 0]
  /\ rtc' = NewClock(su, s, v)
  /\ ev' = [op |-> "confirm", s |-> s, v |-> v]
  /\ UNCHANGED <<nvram, flash, chip, faults>>

\* the entry of a form is read again, and its first setting selected
Refreshed(x) ==
  LET at == [x EXCEPT !.sel = 1, !.fresh = TRUE]
  IN  CASE x.row = 1 -> [at EXCEPT !.nv = NvmRead]
        [] x.row = 4 -> [at EXCEPT !.cpu = initFormCpu(@)]
        [] x.row = 7 -> [at EXCEPT !.boot = reloadFromBoot(@)]
        [] OTHER     -> at

GoTo(x) ==
  /\ su' = Refreshed(x)
  /\ nvram' = IF x.row = 1 THEN NvmRead ELSE nvram
  /\ ev' = [op |-> "form"]
  /\ UNCHANGED <<flash, chip, faults, rtc>>

At(x) ==
  /\ su' = x
  /\ ev' = [op |-> "move"]
  /\ UNCHANGED <<nvram, flash, chip, faults, rtc>>

-----------------------------------------------------------------------------
(* Starting; the keys in the menu.                                         *)
Off == [open |-> FALSE]
NoCpu  == [freq |-> 0, text |-> 0, fpu |-> 0, fpu_load |-> 0, blit |-> 0, blit_load |-> 0]
NoBoot == [devs |-> 0, log |-> 0, tos |-> 0, pciide |-> 0,
           load |-> [devs |-> 0, log |-> 0, tos |-> 0, pciide |-> 0]]

StartSetup ==
  /\ ~su.open
  /\ GoTo([open |-> TRUE, st |-> "MENU", row |-> 1, sel |-> 1, list |-> 0, nv |-> nvram,
           cpu |-> NoCpu, boot |-> NoBoot, fresh |-> TRUE])

RowUp(row) ==
  IF row = 1 THEN NUM_MENU_ENTRIES ELSE Max({r \in 1 .. row - 1 : r = 1 \/ r \notin Empty})
RowDown(row) ==
  IF row = NUM_MENU_ENTRIES THEN 1
  ELSE Min({r \in row + 1 .. NUM_MENU_ENTRIES : r = NUM_MENU_ENTRIES \/ r \notin Empty})

MenuKey ==
  /\ su.open /\ su.st = "MENU"
  /\ \/ GoTo([su EXCEPT !.row = RowUp(@)])
     \/ GoTo([su EXCEPT !.row = RowDown(@)])
     \/ GoTo([su EXCEPT !.row = NUM_MENU_ENTRIES, !.st = "FORM_SELECT"])   \* Escape
     \/ FormOf(su.row) # << >> /\ At([su EXCEPT !.st = "FORM_SELECT"])     \* Enter, right

-----------------------------------------------------------------------------
(* The keys in a form: the arrows move between its settings.               *)
InForm(st) == su.open /\ su.st = st

\* mutant of vt_setting_next: the end of the form is not looked for
vt_setting_next_on(sel, rows) == sel + 1

vt_setting_next(sel, rows) == IF sel < Len(rows) THEN sel + 1 ELSE sel

\* the first setting of the row above, of the row below
vt_setting_prevRow(sel, rows) ==
  LET above == {i \in 1 .. sel : rows[i] # rows[sel]}
  IN  Min({i \in DOMAIN rows : rows[i] = rows[IF above = {} THEN 1 ELSE Max(above)]})
vt_setting_nextRow(sel, rows) ==
  Min({i \in sel .. Len(rows) : rows[i] # rows[sel]} \cup {Len(rows)})

FormKey ==
  /\ InForm("FORM_SELECT")
  /\ LET rows == RowsOf(su.row)
     IN  \/ GoTo([su EXCEPT !.st = "MENU"])                                \* Escape
         \/ su.sel = 1 /\ GoTo([su EXCEPT !.st = "MENU"])                 \* left
         \/ su.sel > 1 /\ At([su EXCEPT !.sel = @ - 1])
         \/ At([su EXCEPT !.sel = vt_setting_next(@, rows)])              \* right
         \/ At([su EXCEPT !.sel = vt_setting_prevRow(@, rows)])           \* up
         \/ At([su EXCEPT !.sel = vt_setting_nextRow(@, rows)])           \* down

\* mutant of ClockParam: the error of the generator is not looked at
ClockParamAlways(err) == {"clock"}

(* The save of the CPU form programs the generator's EEPROM, and writes the *)
(* frequency to the flash when that was done.  A form writes the parameters *)
(* that differ from what was read, not from what was written since.        *)
ClockParam(err) == IF err = "none" THEN {"clock"} ELSE {}

saveFormCpu(cpu) ==
  \E r \in ct60_configure_clock(chip, cpu.freq, "rom", SETUP_LIMITS, faults > 0) :
    LET now == [clock |-> cpu.freq, cpufpu |-> cpu.fpu, blitter |-> cpu.blit]
        changed == ClockParam(r.err)
                     \cup (IF cpu.fpu # cpu.fpu_load THEN {"cpufpu"} ELSE {})
                     \cup (IF cpu.blit # cpu.blit_load THEN {"blitter"} ELSE {})
        upd == [f \in changed |-> now[f]]
    IN  \E failed \in IF r.err = "write" THEN {"none"} ELSE Failures(DOMAIN upd) :
          /\ chip' = r.chip
          /\ flash' = WriteParams(upd, failed)
          /\ faults' = IF r.err = "write" \/ failed # "none" THEN faults - 1 ELSE faults
          /\ ev' = [op |-> "cpusave", err |-> r.err, failed |-> failed]

saveToBoot(boot) ==
  LET now == [bootorder |-> boot.devs % 8, bootlog |-> boot.log, tosram |-> boot.tos,
              ctpci |-> boot.pciide]
      old == [bootorder |-> boot.load.devs, bootlog |-> boot.load.log,
              tosram |-> boot.load.tos, ctpci |-> boot.load.pciide]
      upd == [f \in {p \in DOMAIN now : now[p] # old[p]} |-> now[f]]
  IN  \E failed \in Failures(DOMAIN upd) :
        /\ flash' = WriteParams(upd, failed) /\ Spent(failed)
        /\ ev' = [op |-> "bootsave", failed |-> failed]

SaveForm ==
  /\ su' = [su EXCEPT !.fresh = FALSE]
  /\ \/ /\ su.row = 1
        /\ nvram' = su.nv /\ ev' = [op |-> "nvsave"]
        /\ UNCHANGED <<flash, chip, faults>>
     \/ /\ su.row = 4 /\ HasCT60 /\ saveFormCpu(su.cpu)
        /\ UNCHANGED nvram
     \/ /\ su.row = 7 /\ HasCT60 /\ saveToBoot(su.boot)
        /\ UNCHANGED <<nvram, chip>>
     \/ /\ su.row # 1 /\ ~HasCT60 /\ ev' = [op |-> "nosave"]
        /\ UNCHANGED <<nvram, flash, chip, faults>>
  /\ UNCHANGED rtc

ReloadForm ==
  /\ su' = CASE su.row = 1 -> [su EXCEPT !.nv = NvmRead, !.fresh = TRUE]
             [] su.row = 4 -> [su EXCEPT !.cpu = reloadFormCpu(@), !.fresh = TRUE]
             [] OTHER      -> [su EXCEPT !.boot = reloadFromBoot(@), !.fresh = TRUE]
  /\ nvram' = IF su.row = 1 THEN NvmRead ELSE nvram
  /\ ev' = [op |-> "reload"]
  /\ UNCHANGED <<flash, chip, faults, rtc>>

\* Enter on the last form sets exit_type, which ends the loop; the firmware then
\* restarts, the program returns to the desktop
Exit(how) ==
  /\ InForm("FORM_SELECT") /\ su.row = 9 /\ how = Setting(su)
  /\ su' = Off
  /\ ev' = [op |-> "exit", how |-> how]
  /\ UNCHANGED <<nvram, flash, chip, faults, rtc>>

Enter(s) ==
  /\ InForm("FORM_SELECT") /\ s = Setting(su)
  /\ \/ Kind(s) = "INPUT"  /\ \E v \in Typed[s] : NewValue(s, v)
     \/ Kind(s) = "BOOL"   /\ NewValue(s, 1 - TextsOf(su, rtc)[s])
     \/ Kind(s) = "LIST"   /\ At([su EXCEPT !.st = "FORM_LIST"])
     \/ Kind(s) = "UPDOWN" /\ At([su EXCEPT !.st = "FORM_UPDOWN", !.cpu.freq = Limited(@)])
     \/ s = "reload"       /\ ReloadForm
     \/ s = "save"         /\ SaveForm

\* the keys in a list and at the frequency; Escape leaves the frequency where it is
ListKey ==
  /\ InForm("FORM_LIST")
  /\ \/ At([su EXCEPT !.st = "FORM_SELECT", !.list = 0])
     \/ su.list > 0 /\ At([su EXCEPT !.list = @ - 1])
     \/ su.list + 1 < ListLen(Setting(su)) /\ At([su EXCEPT !.list = @ + 1])
     \/ NewValue(Setting(su), su.list)

StepKey(d) ==
  InForm("FORM_UPDOWN") /\ At([su EXCEPT !.cpu.freq = Limited(@ + Steps[d])])

UpDownKey ==
  /\ InForm("FORM_UPDOWN")
  /\ \/ At([su EXCEPT !.st = "FORM_SELECT"])
     \/ NewValue("freq", su.cpu.freq)
=============================================================================
