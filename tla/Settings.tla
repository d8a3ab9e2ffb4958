------------------------------ MODULE Settings ------------------------------
(***************************************************************************)
(* A CT60 as its user sets it up: sessions of the control panel and of the *)
(* firmware's setup, one after the other on the same NVRAM, flash, clock   *)
(* generator and file, with restarts and power cycles between them.        *)
(*                                                                         *)
(* A script says which sessions are made, and what a session is about: the *)
(* page it visits or the settings it changes, the keys it uses at the      *)
(* frequency, and how many clicks or keys that change something it takes.  *)
(* Moving about is free.                                                   *)
(***************************************************************************)
EXTENDS Panel, Setup

CONSTANTS
  Starts   \* [machine, chip, nvram, flash, disk, faults, sessions]: where a script begins

(* Where a script may begin: what is stored is what the programs can have  *)
(* stored, in NVRAM, flash, file and generator; the fields of the panel    *)
(* take only as many digits as they have.                                  *)
Machine == [cpu : {"060", "030"}, rev : Nat, half : BOOLEAN, sv : BOOLEAN, zcontrol : BOOLEAN,
            cookie : BOOLEAN, lc : BOOLEAN,
            exits : Seq({"reset", "rcold", "diag", "continue"}) \ {<< >>}]
HEADER == NV_FIELDS \cup SWITCHES \cup {"trigger", "daystop", "beep", "timestop", "frequency"}
HeaderField(f) ==
  CASE f = "language" -> Range(code_lang)      [] f = "keyboard" -> Range(code_key)
    [] f = "bootpref" -> Range(code_os)        [] f = "vmode" -> VMode
    [] f = "sep" -> {".", "-", "/"}            [] f \in {"delay", "trigger"} -> 0 .. 99
    [] f \in {"timestop", "frequency"} -> Nat
    [] OTHER -> Popups[f]
IsHeader(h) == DOMAIN h = HEADER /\ \A f \in HEADER : h[f] \in HeaderField(f)
FLASH == SWITCHES \cup {"clock", "sv", "tlv", "ctpci", "nv1", "nv2", "nv3"}
FlashField(f) ==
  CASE f \in SWITCHES -> Popups[f]
    [] f = "ctpci"    -> 0 .. 1
    [] f = "nv1"      -> [magic : BOOLEAN, bootpref : Range(code_os)]
    [] f = "nv2"      -> [language : 0 .. 8, keyboard : 0 .. 18, df : 0 .. 3, tf : 0 .. 1,
                          sep : {".", "-", "/"}]
    [] f = "nv3"      -> [delay : 0 .. 255, vmode : VMode, arb : 0 .. 1, id : 0 .. 7]
IsFlash(fl) ==
  DOMAIN fl = FLASH /\ \A f \in FLASH \ {"clock", "sv", "tlv"} : fl[f] \in FlashField(f)
Session == [who : {"panel", "setup"}, page : STRING, about : SUBSET STRING,
            keys : SUBSET {"up", "down", "left", "right"}, clicks : Nat]
WORDS == 0 .. WORD - 1
SvText == [hex : BOOLEAN, digits : Seq(Nat)]

ASSUME SettingsAssumption ==
  /\ \A s \in Starts :
        /\ s.machine \in Machine /\ s.nvram \in Nvram /\ IsFlash(s.flash)
        /\ IsChip(s.chip) /\ IsHeader(s.disk) /\ s.faults \in Nat
        /\ s.flash.sv.boot \in WORDS
        /\ s.sessions \in Seq(Session)
  /\ DOMAIN Edits = {"trigger", "delay", "time", "sep", "svboot"}
  /\ Edits.trigger \subseteq 0 .. 99 /\ Edits.delay \subseteq 0 .. 99
  /\ Edits.time \subseteq Times /\ Edits.sep \subseteq {".", "-", "/"}
  /\ Edits.svboot \subseteq SvText

VARIABLES
  script,  \* the sessions to come, with the present one first
  begun,   \* the present one has begun
  left     \* clicks left to it

vars == <<nvram, flash, chip, disk, head, started, faults, machine, ev, pn, sv_top, su, rtc,
          script, begun, left>>

Clock == [year |-> 2004, month |-> 1, day |-> 31, hour |-> 12, minute |-> 30]

\* ZCONTROL gives the panel a cleared header each time it opens it
Header(h) == IF machine.zcontrol THEN << >> ELSE h

Init ==
  \E s \in Starts :
    /\ machine = s.machine /\ chip = s.chip /\ nvram = s.nvram /\ flash = s.flash
    /\ disk = s.disk /\ head = Header(s.disk) /\ faults = s.faults
    /\ started = CpuClock
    /\ pn = Closed /\ sv_top = 0 /\ su = Off /\ rtc = Clock
    /\ ev = [op |-> "start"]
    /\ script = s.sessions /\ begun = FALSE /\ left = 0

Present == Head(script)
Firmware == machine.exits # <<"continue">>

Begin(who) ==
  /\ script # << >> /\ ~begun /\ Present.who = who
  /\ begun' = TRUE /\ left' = Present.clicks

Free == begun /\ UNCHANGED <<begun, left>>
Click == begun /\ left > 0 /\ left' = left - 1 /\ UNCHANGED begun
Close == begun /\ left' = 0 /\ UNCHANGED begun

PanelSession ==
  /\ \/ Begin("panel") /\ OpenPanel
     \/ Free /\ SelectPage(Present.page)
     \/ Click /\ (Control \/ cpx_key \/ Scroll \/ Load \/ Calibrate)
     \/ Click /\ \E clicks \in {1, 2} : Save(clicks)
     \/ Close /\ (Ok \/ Cancel)
  /\ UNCHANGED <<su, rtc, started, machine, script>>

\* the frequency's keys change it at once; a list acts when an entry is taken
SetupSession ==
  /\ \/ Begin("setup") /\ StartSetup
     \/ Free /\ (MenuKey \/ FormKey \/ ListKey)
     \/ Click /\ (UpDownKey \/ \E d \in Present.keys : StepKey(d))
     \/ Click /\ \E s \in Present.about \cup {"reload", "save"} : Enter(s)
     \/ Close /\ \E how \in Range(machine.exits) : Exit(how)
  /\ UNCHANGED <<pn, disk, head, sv_top, started, machine, script>>

\* between two sessions: nothing, a restart, or the power off and on
Between(how) ==
  /\ begun /\ ~pn.open /\ ~su.open
  /\ script' = Tail(script) /\ begun' = FALSE /\ left' = 0
  /\ how = "none" => ~Firmware \/ \A x \in Range(script) : x.who = "panel"
  /\ chip' = IF how = "power" THEN [chip EXCEPT !.ram = chip.rom] ELSE chip
  /\ head' = Header(IF how = "none" THEN head ELSE disk)
  /\ sv_top' = IF how = "none" THEN sv_top ELSE 0
  /\ ev' = [op |-> how]
  /\ UNCHANGED <<nvram, flash, disk, faults, machine, pn, su, rtc>>
  /\ started' = IF how = "none" THEN started ELSE CpuClock'

Next ==
  \/ PanelSession
  \/ SetupSession
  \/ \E how \in {"none", "restart", "power"} : Between(how)

Spec == Init /\ [][Next]_vars

-----------------------------------------------------------------------------
(* Properties.                                                             *)

\* A mode the Falcon and the panel's page can have: an ST mode has its colours'
\* resolution, two colours need 80 columns, VGA has neither 80 columns in true
\* colour nor overscan.
LegalMode(vm) ==
  /\ vm.st => vm.planes < 3 /\ ResIndex(vm) = StRes(vm.planes)
  /\ vm.planes = 0 => vm.c80
  /\ vm.vga => ~vm.ovr /\ ~(vm.c80 /\ vm.planes = 4)

NvFields == NV_FIELDS \ {"vmode"}
Known(f) ==
  CASE f = "language" -> nvram.language \in Range(code_lang)
    [] f = "keyboard" -> nvram.keyboard \in Range(code_key)
    [] f = "delay"    -> nvram.delay <= 99
    [] OTHER          -> TRUE

Near(f, g) == f - g \in -StepOf(chip) .. StepOf(chip)
WantsDoubling(f) == chip.kind = "dallas" /\ Strapped(f, SETUP_LIMITS) # f
Faultless(e) == e.failed = "none" /\ e.clock = "none"

\* Types: whatever one program stored, the other's indexes and texts stay inside
\* their tables and fields (the setup knows keyboards and delays the panel does not).
SettingsTypeOK ==
  /\ nvram \in Nvram /\ faults \in Nat /\ left \in Nat
  /\ \A f \in SWITCHES : flash[f] \in Popups[f]
  /\ sv_top \in 0 .. SV_ROWS - SV_VISIBLE
  /\ pn.open => /\ \A f \in DOMAIN Popups : pn[f] \in Popups[f]
                /\ pn.vmode \in VMode /\ pn.delay \in 0 .. 99 /\ pn.freq \in Nat
                /\ pn.trigger \in 0 .. 99 /\ pn.time \in Times /\ pn.page \in Pages
  /\ su.open => /\ su.nv \in Nvram /\ su.row \in 1 .. NUM_MENU_ENTRIES
                /\ su.boot.devs \in 0 .. 7

\* On the video page every click keeps a legal mode legal, in whatever order the
\* popups and buttons are used (cpx_button, MENUBVIDEO to OVERSCAN), and so does
\* LOAD when the header holds one.
ModeStaysLegal ==
  [][pn.open /\ pn'.open /\ LegalMode(pn.vmode) /\ (ev'.op = "load" => LegalMode(head.vmode))
       => LegalMode(pn'.vmode)]_vars

\* The texts and check marks of the video page are those of the mode OK will store:
\* each handler changes some of both (cpx_button, display of MENUB*).
PanelShowsMode == pn.open => pn.text = VideoTexts(pn.vmode)

\* The panel programs the generator's EEPROM only with a frequency the machine is
\* running at and may start with; the next power-on then gives that frequency.
EepromTested ==
  [][On060 /\ pn.open /\ chip'.rom # chip.rom
       => /\ ev'.op = "eeprom"
          /\ ct60_read_clock(chip) <= MaxBoot
          /\ ev'.clock = "none" => Near(FrequencyOf(chip.kind, chip'.rom), ct60_read_clock(chip))
     ]_vars

\* After an OK without a fault the panel, opened again, shows what was set: codes,
\* copies in the flash, the video mode, the SuperVidel's word and the frequency.
\* With the strap a frequency is left out that the generator, not the processor, has
\* already: OK compares the two as if there were no strap (MENUBOK, value!=frequency),
\* leaves the generator alone and the panel then shows another one.
OkShownAgain ==
  [][ev'.op = "ok" /\ Faultless(ev')
       => /\ \A f \in NvFields \cup SWITCHES \cup {"nvm"} : Opened'[f] = pn[f]
          /\ LegalMode(pn.vmode) => Opened'.vmode = pn.vmode
          /\ machine.sv => /\ Opened'.svdvi = pn.svdvi /\ Opened'.svchk = pn.svchk
                           /\ Opened'.sven = (pn.sven /\ read_number(pn.svboot) > 0)
                           /\ Opened'.sven => read_number(Opened'.svboot) = read_number(pn.svboot)
          /\ On060 /\ chip.kind # "none" /\ ev'.freq \in pn.min .. pn.max
               /\ ~(Halved /\ ct60_read_clock(chip) = ev'.freq)
               => Near(Opened'.freq, ev'.freq)]_vars

\* What SAVE recorded, LOAD shows again, as far as the user entered what the fields
\* can mean: a trigger, a time of day, a frequency within the limits.
LoadGivesSaved ==
  [][ev'.op = "save"
       => LET again == Loaded(pn, head)'
          IN  /\ \A f \in NvFields \cup SWITCHES \cup {"daystop", "beep"} : again[f] = pn[f]
              /\ LegalMode(pn.vmode) => again.vmode = pn.vmode
              /\ pn.trigger > 0 => again.trigger = pn.trigger
              /\ pn.time \div 100 < 24 /\ pn.time % 100 < 60 => again.time = pn.time
              /\ pn'.freq \in pn'.min .. pn'.max => again.freq = pn'.freq]_vars

\* OK keeps what the user did not touch: a setting of the NVRAM the panel knows, as
\* the setup or another program left it, and the frequency the generator runs at
\* when it is one the panel has and not the alert's "abnormal" one.
OkKeepsUntouched ==
  [][ev'.op = "ok" /\ Faultless(ev')
       => /\ \A f \in NvFields : Known(f) /\ pn[f] = Shown(nvram)[f] => nvram'[f] = nvram[f]
          /\ ev'.freq = ct60_read_clock(chip) \div (IF Halved THEN 2 ELSE 1)
             /\ ev'.freq \in pn.min .. pn.max
               => Near(ct60_read_clock(chip'), ct60_read_clock(chip))]_vars

\* The setup's selection never leaves its form nor its list, and the panel's cursor is
\* in a field of the page that is on and can be seen.
CursorInForm ==
  /\ su.open /\ su.st # "MENU" => su.sel \in 1 .. Len(FormOf(su.row))
  /\ su.open /\ su.st = "FORM_LIST" => /\ Kind(Setting(su)) = "LIST"
                                       /\ su.list \in 0 .. ListLen(Setting(su)) - 1
  /\ su.open /\ su.st = "FORM_UPDOWN" => Setting(su) = "freq"
  /\ pn.open /\ pn.edit # "none"
       => /\ PageOf(pn.edit) = pn.page
          /\ pn.edit = "svboot" => pn.sven /\ SvSeen("svboot", sv_top)

\* What is chosen in a form is what the form then shows, and nothing else in it
\* changes, but day and month which change places with the format of the date; a
\* number out of its range and a date that is none change nothing.
ShowsChoice ==
  [][ev'.op = "confirm"
       => LET now == TextsOf(su, rtc)
              new == TextsOf(su', rtc')
              s   == ev'.s
              Taken == Kind(s) = "INPUT" => InRange(FieldOf(su.nv, s), ev'.v)
          IN  /\ new[s] \in (IF Taken THEN {ev'.v} ELSE {now[s]})
                              \cup (IF s \in {"date1", "date2", "year"} THEN {now[s]} ELSE {})
              /\ \A f \in DOMAIN now \ {s} :
                   new[f] = now[f] \/ (s = "dfmt" /\ f \in {"date1", "date2"})]_vars

\* The first Save after the BOOT or the CPU form was read stores what the form shows:
\* read again it shows the same.  The frequency in the flash follows the generator's EEPROM, and
\* changes only when that was programmed.
SaveStores ==
  [][/\ ev'.op = "bootsave" /\ su.fresh /\ ev'.failed = "none"
          => BootShown(reloadFromBoot(su.boot)') = BootShown(su.boot)
     /\ ev'.op = "cpusave" /\ su.fresh /\ ev'.failed = "none"
          => LET again == CpuShown(reloadFormCpu(su.cpu)')
             IN  again.fpu = CpuShown(su.cpu).fpu /\ again.blit = su.cpu.blit
     /\ ev'.op = "cpusave"
          => IF ev'.err # "none" THEN flash'.clock = flash.clock
             ELSE ev'.failed = "none" =>
                    /\ flash'.clock = su.cpu.freq
                    /\ ~WantsDoubling(su.cpu.freq)
                         => Near(FrequencyOf(chip.kind, chip'.rom), su.cpu.freq)]_vars

\* A 68060 of the first revisions never runs above what it is rated for
\* (ct60_ctcm.h: MAX_FREQ_REV1 75000), which the setup's limits are there for.
ClockWithinRating ==
  On060 /\ machine.rev < 6 => CpuClock <= 75000
=============================================================================
