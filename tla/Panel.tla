------------------------------- MODULE Panel -------------------------------
(***************************************************************************)
(* CT60CONF.CPX, the control panel: what it shows when it opens, what each *)
(* control does to that, and what Save, Load, OK and Cancel do with it.    *)
(*                                                                         *)
(* pn is the open panel: an index for each popup, the text of each field,  *)
(* the video word with the texts its buttons show, and the frequency.      *)
(* Drawing, help, the page that shows the load and the information dialogs *)
(* change no setting and are left out, like the messages to the monitor.   *)
(***************************************************************************)
EXTENDS SettingsStore

CONSTANTS
  Edits       \* Edits[f]: what the user may type in the field f

VARIABLES
  pn,         \* the panel
  sv_top      \* first visible row of the SuperVidel page; outlives the panel

Popups ==
  [language |-> 0 .. 6, keyboard |-> 0 .. 8, df |-> 0 .. 3, tf |-> 0 .. 1,
   bootorder |-> 0 .. 7, bootpref |-> 0 .. 5, arb |-> 0 .. 1, id |-> 0 .. 7,
   blitter |-> 0 .. 1, tosram |-> 0 .. 1, bootlog |-> 0 .. 1, cpufpu |-> 0 .. 1,
   daystop |-> 0 .. 10, beep |-> 0 .. 1]

PageOf(f) ==
  CASE f \in {"trigger"}                                      -> "TEMP"
    [] f \in {"cpufpu", "freq"}                               -> "MEMORY"
    [] f \in {"language", "keyboard", "df", "tf", "sep"}      -> "LANG"
    [] f \in {"vmode", "nvm"}                                 -> "VIDEO"
    [] f \in {"daystop", "time", "beep"}                      -> "STOP"
    [] f \in {"sven", "svboot", "svdvi", "svchk"}             -> "SV"
    [] OTHER                                                  -> "BOOT"

\* the pages of MENUBSELECT; the load page only shows, like the memory's upper part
Pages == {"MEMORY", "BOOT", "STOP", "LANG", "VIDEO"}
           \cup (IF On060 THEN {"TEMP"} ELSE {}) \cup (IF machine.sv THEN {"SV"} ELSE {})

-----------------------------------------------------------------------------
(* The video word and what the page shows of it.                           *)
ResIndex(vm) == (IF vm.c80 THEN 2 ELSE 0) + (IF vm.vert # vm.vga THEN 1 ELSE 0)

SetRes(vm, r) ==
  [vm EXCEPT !.c80 = r >= 2, !.vert = IF r % 2 = 1 THEN ~vm.vga ELSE vm.vga]

\* the resolution an ST mode of so many planes has
StRes(planes) == CASE planes = 0 -> 3 [] planes = 1 -> 2 [] OTHER -> 0

StForced(vm) == SetRes(vm, StRes(vm.planes))

VideoTexts(vm) ==
  [video |-> vm.vga, pal |-> vm.pal, coul |-> vm.planes, res |-> ResIndex(vm),
   ovr |-> vm.ovr /\ ~vm.vga, st |-> vm.st]

\* cpx_call and MENUBLOAD: an ST mode is given its resolution, a deep one is none
VideoOpened(vm) ==
  IF vm.st /\ vm.planes < 3 THEN StForced(vm) ELSE [vm EXCEPT !.st = vm.st /\ vm.planes < 3]

\* MENUBVIDEO; 80 columns in true colour are refused on VGA, but VERTFLAG turns all the same
ChooseVideo(p, vga) ==
  LET got == vga /\ ~(p.vmode.c80 /\ p.vmode.planes = 4)
      vm  == [p.vmode EXCEPT !.vga = got, !.vert = ~p.vmode.vert,
                             !.ovr = ~got /\ p.vmode.ovr]
  IN  [p EXCEPT !.vmode = vm, !.text.video = got, !.text.res = ResIndex(vm),
                !.text.ovr = ~got /\ p.text.ovr]

ChooseMode(p, pal) == [p EXCEPT !.vmode.pal = pal, !.text.pal = pal]

\* mutant of ResGiven: true colour in 80 columns is let through
ResGivenDeep(vm, r) ==
  IF vm.st THEN StRes(vm.planes) ELSE IF r < 2 /\ vm.planes = 0 THEN r + 2 ELSE r

\* MENUBRES: two colours want 80 columns, VGA true colour 40, an ST mode its own
ResGiven(vm, r) ==
  IF vm.st THEN StRes(vm.planes)
  ELSE IF r < 2 /\ vm.planes = 0 THEN r + 2
  ELSE IF r >= 2 /\ vm.vga /\ vm.planes = 4 THEN r - 2
  ELSE r

ChooseRes(p, r) ==
  LET got == ResGiven(p.vmode, r)
  IN  [p EXCEPT !.vmode = SetRes(p.vmode, got), !.text.res = got]

\* MENUBCOUL: an ST mode takes the resolution of its colours, or ends
Coloured(vm, n) ==
  IF ~vm.st THEN vm
  ELSE IF n < 3 THEN SetRes(vm, StRes(n)) ELSE [vm EXCEPT !.st = FALSE]

ChooseColours(p, n) ==
  LET vm  == Coloured(p.vmode, n)
      got == IF ~vm.c80 /\ n = 0 THEN 1 ELSE IF vm.c80 /\ vm.vga /\ n = 4 THEN 3 ELSE n
  IN  [p EXCEPT !.vmode = [vm EXCEPT !.planes = got],
                !.text = [p.text EXCEPT !.coul = got, !.st = p.text.st /\ n < 3,
                            !.res = IF p.vmode.st /\ n < 3 THEN StRes(n) ELSE p.text.res]]

\* mutant of ToggleSt: the text of the resolution is not changed
ToggleStSilent(p) ==
  IF ~p.text.st /\ p.vmode.planes < 3
  THEN [p EXCEPT !.vmode = [StForced(p.vmode) EXCEPT !.st = TRUE], !.text.st = TRUE]
  ELSE [p EXCEPT !.vmode.st = FALSE, !.text.st = FALSE]

\* MENUSTMODES, after the AES has turned the button
ToggleSt(p) ==
  IF ~p.text.st /\ p.vmode.planes < 3
  THEN [p EXCEPT !.vmode = [StForced(p.vmode) EXCEPT !.st = TRUE], !.text.st = TRUE,
                 !.text.res = StRes(p.vmode.planes)]
  ELSE [p EXCEPT !.vmode.st = FALSE, !.text.st = FALSE]

ToggleOverscan(p) ==
  LET on == ~p.text.ovr /\ ~p.vmode.vga
  IN  [p EXCEPT !.vmode.ovr = IF p.text.ovr THEN FALSE ELSE on \/ @, !.text.ovr = on]

\* the states a click on the video page may lead to: a popup acts only on another entry
VideoClicks(p) ==
  {ChooseVideo(p, ~p.vmode.vga), ChooseMode(p, ~p.vmode.pal), ToggleSt(p), ToggleOverscan(p)}
    \cup {ChooseRes(p, r) : r \in (0 .. 3) \ {ResIndex(p.vmode)}}
    \cup {ChooseColours(p, n) : n \in (0 .. 4) \ {p.vmode.planes}}
    \cup {[p EXCEPT !.nvm = ~p.nvm]}

-----------------------------------------------------------------------------
(* The frequency.                                                          *)
DefaultTrigger == (90 * 3) \div 4
MaxFreq == IF On060 /\ machine.rev < 6 THEN 75000 ELSE MAX_FREQ_REV6
MaxBoot == IF machine.rev < 6 THEN 66000 ELSE 100000

\* the strap is told from the frequency measured at the last start
Halved == On060 /\ chip.kind = "dallas" /\ started < CPX_LIMITS.dallas + 300
Clamp(f, min, max) == IF f \in min .. max THEN f ELSE min
AtMost(n, max) == IF n > max THEN max ELSE n

\* the frequency, its limits and step as cpx_call leaves them, with the Xbios of the
\* patches (flag_xbios; without it the frequency read is kept in sixteen bits); 0
\* hides the slider
Frequencies ==
  LET stored == Clamp(flash.clock, CPX_LIMITS.min, MaxFreq)
      dallas == On060 /\ chip.kind = "dallas"
      min    == IF Halved THEN (CPX_LIMITS.dallas + 600) \div 2
                ELSE IF dallas THEN CPX_LIMITS.dallas + 600 ELSE CPX_LIMITS.min
      max    == IF Halved THEN CPX_LIMITS.dallas ELSE MaxFreq
      value  == ct60_read_clock(chip) \div (IF Halved THEN 2 ELSE 1)
  IN  [min |-> min, max |-> max, flagf |-> FALSE,
       step |-> IF On060 THEN StepOf(chip) ELSE CY_STEP,
       freq |-> IF ~On060 THEN stored
                ELSE IF ct60_read_clock(chip) < 0 THEN 0
                ELSE IF value \in min .. max THEN value ELSE stored]

AtLeast(n, min) == IF n < min THEN min ELSE n

\* the arrows, the box beside the slider and the slider itself
FreqClicks(p) ==
  IF p.freq = 0 THEN {}
  ELSE {[p EXCEPT !.freq = f, !.flagf = TRUE] :
          f \in (IF p.freq > p.min THEN {AtLeast(p.freq - p.step, p.min)} ELSE {})
           \cup (IF p.freq < p.max THEN {AtMost(p.freq + p.step, p.max)} ELSE {})
           \cup {AtMost(AtLeast(p.freq + d, p.min), p.max) : d \in {1000, -1000}}
           \cup {p.min + (((ret * (p.max - p.min)) \div 1000) \div p.step) * p.step :
                   ret \in {0, 500, 1000}}}

-----------------------------------------------------------------------------
(* The SuperVidel page: its word in the flash, the objects of the page and *)
(* its fourteen rows, of which five are visible.                           *)
SV_DEFAULT == [boot |-> 16410, dvi |-> FALSE, chk |-> {"clone", "rezdialog", "fast", "pmmu"}]

SV_ROWS == 14
SV_VISIBLE == 5
RowOf == [bps8c |-> 1, bps32 |-> 2, sven |-> 5, svboot |-> 5, svdvi |-> 6, clone |-> 7,
          rezdialog |-> 10, fast |-> 11, kill |-> 12, pmmu |-> 13]
SvSeen(o, top) == RowOf[o] \in top .. top + SV_VISIBLE - 1

\* a text is its digits, after a $ or not; 16 and more are characters that are none
Hex(n) ==
  [hex |-> TRUE, digits |-> <<n \div 4096, (n \div 256) % 16, (n \div 16) % 16, n % 16>>]

\* arithmetic of sixteen bits
WORD == 65536

\* the sixteen bit number a text stands for; 0 for a $ alone and what is no number
read_number(text) ==
  LET base == IF text.hex THEN 16 ELSE 10
      value[n \in 0 .. Len(text.digits)] ==
        IF n = 0 THEN 0 ELSE (value[n - 1] * base + text.digits[n]) % WORD
  IN  IF \E i \in DOMAIN text.digits : text.digits[i] >= base THEN 0
      ELSE value[Len(text.digits)]

\* set_sv_objects; a start mode of 0 is shown as off
SvObjects(w) == [svboot |-> Hex(w.boot), sven |-> w.boot # 0, svdvi |-> w.dvi, svchk |-> w.chk]

\* mutant of SvWord: the version that tells a written word from none is left out
SvWordNoVersion(p) ==
  [boot |-> IF p.sven THEN read_number(p.svboot) ELSE 0, dvi |-> p.svdvi,
   chk |-> p.svchk, version |-> FALSE]

\* get_sv_objects; a mode that is off, or whose text is no number, is written as 0
SvWord(p) ==
  [boot |-> IF p.sven THEN read_number(p.svboot) ELSE 0, dvi |-> p.svdvi,
   chk |-> p.svchk, version |-> TRUE]

\* sv_fields: the field is EDITABLE while its check box is ticked; sv_first_edit:
\* the field the cursor goes to, one that is on and inside the viewport
sv_first_edit(sven, top) == IF sven /\ SvSeen("svboot", top) THEN "svboot" ELSE "none"

SvClicks(p) ==
  (IF SvSeen("svdvi", sv_top) THEN {[p EXCEPT !.svdvi = ~p.svdvi]} ELSE {})
    \cup {[p EXCEPT !.svchk = IF c \in @ THEN @ \ {c} ELSE @ \cup {c}] :
            c \in {o \in DOMAIN RowOf \ {"sven", "svboot", "svdvi"} : SvSeen(o, sv_top)}}
    \cup (IF SvSeen("sven", sv_top)
          THEN {[p EXCEPT !.sven = ~p.sven, !.edit = sv_first_edit(~p.sven, sv_top)]} ELSE {})

\* sv_page_scroll, by the arrows, the bar and the knob
SvScroll(top) ==
  LET to == AtMost(AtLeast(top, 0), SV_ROWS - SV_VISIBLE)
  IN  /\ to # sv_top
      /\ sv_top' = to
      /\ pn' = [pn EXCEPT !.edit = sv_first_edit(pn.sven, to)]

-----------------------------------------------------------------------------
(* Codes in the NVRAM and in the header, indexes in the panel.             *)
\* mutant of IndexOf: a code that is not found leaves the index at the end of the table
IndexOfEnd(code, codes) ==
  IF code \in Range(codes) THEN (CHOOSE i \in DOMAIN codes : codes[i] = code) - 1 ELSE Len(codes)

IndexOf(code, codes) ==
  IF code \in Range(codes) THEN (CHOOSE i \in DOMAIN codes : codes[i] = code) - 1 ELSE 0

\* what the panel shows of the settings r of the NVRAM, or of the header
Shown(r) ==
  [language |-> IndexOf(r.language, code_lang), keyboard |-> IndexOf(r.keyboard, code_key),
   df |-> r.df, tf |-> r.tf, sep |-> r.sep, vmode |-> VideoOpened(r.vmode),
   text |-> VideoTexts(VideoOpened(r.vmode)), bootpref |-> IndexOf(r.bootpref, code_os),
   arb |-> r.arb, id |-> r.id, delay |-> AtMost(r.delay, 99)]

\* mutant of Coded: the indexes of the languages are taken for codes
CodedIndex(p) ==
  [language |-> p.language, keyboard |-> code_key[p.keyboard + 1],
   df |-> p.df, tf |-> p.tf, sep |-> p.sep, vmode |-> p.vmode,
   bootpref |-> code_os[p.bootpref + 1], arb |-> p.arb, id |-> p.id, delay |-> p.delay]

\* and what it writes back
Coded(p) ==
  [language |-> code_lang[p.language + 1], keyboard |-> code_key[p.keyboard + 1],
   df |-> p.df, tf |-> p.tf, sep |-> p.sep, vmode |-> p.vmode,
   bootpref |-> code_os[p.bootpref + 1], arb |-> p.arb, id |-> p.id, delay |-> p.delay]

\* what the four digits of the field of the time can be
Times == {n \in Nat : n <= 9999}

\* hours and minutes in a word of 16 bits, and back as they are shown
TimeWord(hhmm) == (2048 * (hhmm \div 100) + 32 * (hhmm % 100)) % WORD
TimeText(w) == AtMost(100 * ((w \div 2048) % 32) + ((w \div 32) % 64), 2359)

\* the settings only the header keeps
Kept(h) ==
  [trigger |-> IF h.trigger = 0 THEN DefaultTrigger ELSE AtMost(h.trigger, 99),
   daystop |-> IF h.daystop > 11 THEN 0 ELSE h.daystop, time |-> TimeText(h.timestop),
   beep |-> h.beep]

HeaderWith(p, word) ==
  [f \in NV_FIELDS \cup SWITCHES \cup {"trigger", "daystop", "beep", "timestop", "frequency"} |->
     CASE f \in NV_FIELDS  -> Coded(p)[f]
       [] f = "timestop"   -> word
       [] f = "frequency"  -> p.freq
       [] OTHER            -> p[f]]

\* mutant of HeaderOf: hours and minutes change places
HeaderOfSwapped(p) == HeaderWith(p, TimeWord(100 * (p.time % 100) + (p.time \div 100)))

HeaderOf(p) == HeaderWith(p, TimeWord(p.time))

\* the compiled-in settings, which CPX_Save replaces in the file
config == [language |-> 2, keyboard |-> 2, df |-> 1, tf |-> 1, sep |-> "/",
  vmode |-> [planes |-> 2, c80 |-> FALSE, vga |-> TRUE, pal |-> TRUE, ovr |-> FALSE,
             st |-> TRUE, vert |-> TRUE],
  bootpref |-> 0, arb |-> 1, id |-> 7, delay |-> 1, tosram |-> 0, blitter |-> 1,
  bootorder |-> 1, bootlog |-> 1, cpufpu |-> 1, trigger |-> 50, daystop |-> 0,
  timestop |-> 0, frequency |-> CPX_LIMITS.min, beep |-> 1]

\* ZCONTROL clears the header's buffer each time; fix_header then takes the file's
fix_header == IF head = << >> THEN disk ELSE head

-----------------------------------------------------------------------------
(* Opening, the pages and their controls.                                  *)
Closed == [open |-> FALSE]
FirstPage == IF On060 THEN "TEMP" ELSE "MEMORY"

\* display_selection: the field the cursor is given on a page
EditOn(page, p) ==
  CASE page = "TEMP" -> "trigger"  [] page = "BOOT" -> "delay" [] page = "STOP" -> "time"
    [] page = "LANG" -> "sep"      [] page = "SV" -> sv_first_edit(p.sven, sv_top)
    [] OTHER         -> "none"

SHOWN  == NV_FIELDS \cup {"text"}
KEPT   == {"trigger", "daystop", "time", "beep"}
CLOCK  == {"freq", "min", "max", "step", "flagf"}
SV     == {"svboot", "sven", "svdvi", "svchk"}
FIELDS == SHOWN \cup SWITCHES \cup KEPT \cup CLOCK \cup SV \cup {"nvm", "open", "page", "edit"}

Opened ==
  [f \in FIELDS |->
     CASE f \in SHOWN    -> Shown(NvmRead)[f]
       [] f \in SWITCHES -> flash[f]
       [] f \in KEPT     -> Kept(fix_header)[f]
       [] f \in CLOCK    -> Frequencies[f]
       [] f \in SV       ->
            SvObjects(IF machine.sv /\ flash.sv.version THEN flash.sv ELSE SV_DEFAULT)[f]
       [] f = "nvm"      -> flash.nv1.magic
       [] f = "open"     -> TRUE
       [] f = "page"     -> FirstPage
       [] f = "edit"     -> IF On060 THEN "trigger" ELSE "none"]

\* cpx_call on a Falcon, which reads the NVRAM and so restores the copy of it in the
\* flash; without a CT60 or a monitor an alert says so and nothing else changes
OpenPanel ==
  /\ ~pn.open
  /\ nvram' = NvmRead /\ head' = fix_header
  /\ pn' = Opened
  /\ ev' = [op |-> "open"]
  /\ UNCHANGED <<flash, chip, disk, faults, sv_top>>

SelectPage(page) ==
  /\ pn.open /\ page \in Pages \ {pn.page}
  /\ pn' = [pn EXCEPT !.page = page, !.edit = EditOn(page, pn)]
  /\ ev' = [op |-> "page"]
  /\ UNCHANGED <<nvram, flash, chip, disk, head, faults, sv_top>>

Clicks(p) ==
  CASE p.page = "VIDEO"  -> VideoClicks(p)
    [] p.page = "MEMORY" -> FreqClicks(p)
    [] p.page = "SV"     -> SvClicks(p)
    [] OTHER             -> {}

\* a popup acts when another entry is chosen
Control ==
  /\ pn.open
  /\ \/ pn' \in Clicks(pn)
     \/ \E f \in DOMAIN Popups : /\ PageOf(f) = pn.page
                                 /\ \E i \in Popups[f] \ {pn[f]} : pn' = [pn EXCEPT ![f] = i]
  /\ ev' = [op |-> "control"]
  /\ UNCHANGED <<nvram, flash, chip, disk, head, faults, sv_top>>

\* cpx_key: the field with the cursor takes what is typed; Return on the default
\* button, or another key that ends the dialog, closes the panel as Cancel does
cpx_key ==
  /\ pn.open
  /\ \E f \in DOMAIN Edits : /\ pn.edit = f
                             /\ \E v \in Edits[f] \ {pn[f]} : pn' = [pn EXCEPT ![f] = v]
  /\ ev' = [op |-> "control"]
  /\ UNCHANGED <<nvram, flash, chip, disk, head, faults, sv_top>>

Scroll ==
  /\ pn.open /\ pn.page = "SV"
  /\ \E by \in {-SV_VISIBLE, -1, 1, SV_VISIBLE} : SvScroll(sv_top + by)
  /\ ev' = [op |-> "scroll"]
  /\ UNCHANGED <<nvram, flash, chip, disk, head, faults>>

-----------------------------------------------------------------------------
(* OK.  A parameter that cannot be written keeps its old value; the result *)
(* of the switches and of the SuperVidel's word is looked at, that of the  *)
(* frequency and of the copy of the NVRAM is not.                          *)
Parameters(p) ==
  LET c == Coded(p)
  IN  [name \in SWITCHES \cup {"clock", "nv1", "nv2", "nv3"}
                 \cup (IF machine.sv THEN {"sv"} ELSE {}) |->
         CASE name \in SWITCHES -> p[name]
           [] name = "clock"    -> p.freq
           [] name = "nv1"      -> [magic |-> p.nvm, bootpref |-> c.bootpref]
           [] name = "sv"       -> SvWord(p)
           [] OTHER             -> [f \in DOMAIN flash[name] |-> c[f]]]

\* the generator gets the new frequency in its registers only, when it runs another
RunClock(p, faulty) ==
  IF On060 /\ p.freq # 0 /\ ct60_read_clock(chip) > 0 /\ ct60_read_clock(chip) # p.freq
  THEN ct60_configure_clock(chip, p.freq, "ram", CPX_LIMITS, faulty)
  ELSE {[chip |-> chip, err |-> "none"]}

Accept(p) ==
  \E failed \in Failures(DOMAIN Parameters(p)) :
    \E r \in RunClock(p, failed = "none" /\ faults > 0) :
      /\ nvram' = Coded(p)
      /\ flash' = WriteParams(Parameters(p), failed)
      /\ chip' = r.chip
      /\ faults' = IF failed # "none" \/ r.err = "write" THEN faults - 1 ELSE faults
      /\ ev' = [op |-> "ok", freq |-> p.freq, failed |-> failed, clock |-> r.err,
                alert |-> failed \in SWITCHES \cup {"sv"} \/ r.err # "none"]
      /\ pn' = Closed

Ok == pn.open /\ Accept(pn) /\ UNCHANGED <<disk, head, sv_top>>

\* MENUBCANCEL, or a key that ends the dialog
Cancel ==
  /\ pn.open
  /\ pn' = Closed
  /\ ev' = [op |-> "cancel"]
  /\ UNCHANGED <<nvram, flash, chip, disk, head, faults, sv_top>>

-----------------------------------------------------------------------------
(* SAVE: one click records the settings in the file, if the user confirms; *)
(* two clicks are about the start frequency in the generator's EEPROM.     *)
WantsClock(clicks) ==
  /\ IF On060 THEN clicks > 1 ELSE pn.flagf
  /\ pn.freq # 0 /\ ct60_read_clock(chip) > 0

\* the limit is set anew, without the strap, and the frequency raised to it
Raised(p) ==
  LET min == IF chip.kind = "dallas" THEN CPX_LIMITS.dallas + 600 ELSE CPX_LIMITS.min
  IN  [p EXCEPT !.min = min, !.step = StepOf(chip), !.freq = AtLeast(p.freq, min)]

\* mutant of MustTry: the frequency asked for last time is enough
MustTryStored(p) == On060 /\ flash.clock # p.freq

MustTry(p) == On060 /\ ct60_read_clock(chip) # p.freq
TooFast(p) == On060 /\ p.freq > MaxBoot

SaveNoClock ==
  /\ ev' = [op |-> "save", clock |-> "none"]
  /\ UNCHANGED <<pn, nvram, flash, chip, faults>>

\* the panel refuses, or the user cancels the try or the programming
NotProgrammed(p) ==
  /\ pn' = p
  /\ ev' = [op |-> "save", clock |-> "refused"]
  /\ UNCHANGED <<nvram, flash, chip, faults>>

SaveClock(p) ==
  \/ NotProgrammed(p)
  \/ MustTry(p) /\ Accept(p)
  \/ /\ ~MustTry(p) /\ ~TooFast(p)
     /\ \E r \in ct60_configure_clock(chip, p.freq, "rom", CPX_LIMITS, faults > 0) :
          /\ chip' = r.chip
          /\ faults' = IF r.err = "write" THEN faults - 1 ELSE faults
          /\ pn' = [p EXCEPT !.flagf = IF r.err = "none" THEN FALSE ELSE @]
          /\ ev' = [op |-> "eeprom", clock |-> r.err, freq |-> p.freq]
     /\ UNCHANGED <<nvram, flash>>

Save(clicks) ==
  /\ pn.open
  /\ head' = HeaderOf(pn)
  /\ disk' \in IF clicks > 1 THEN {disk} ELSE {disk, HeaderOf(pn)}
  /\ IF WantsClock(clicks) THEN SaveClock(Raised(pn)) ELSE SaveNoClock
  /\ UNCHANGED sv_top

\* LOAD shows what the header holds; a frequency out of the limits is the lowest
Loaded(p, h) ==
  [f \in FIELDS |->
     CASE f \in SHOWN    -> Shown(h)[f]
       [] f \in SWITCHES -> h[f]
       [] f \in KEPT     -> Kept(h)[f]
       [] f = "freq"     -> IF On060 /\ ct60_read_clock(chip) < 0 THEN 0
                            ELSE Clamp(h.frequency, p.min, p.max)
       [] f = "page"     -> FirstPage
       [] f = "edit"     -> EditOn(FirstPage, p)
       [] OTHER          -> p[f]]

Load ==
  /\ pn.open
  /\ pn' = Loaded(pn, head)
  /\ ev' = [op |-> "load"]
  /\ UNCHANGED <<nvram, flash, chip, disk, head, faults, sv_top>>

\* the double click on the temperature: an offset that is written at once
Calibrate ==
  /\ pn.open /\ pn.page = "TEMP"
  /\ \E failed \in Failures({"tlv"}), n \in {-99, 0, 99} :
       flash' = WriteParams([tlv |-> n], failed) /\ Spent(failed)
  /\ ev' = [op |-> "calibrate"]
  /\ UNCHANGED <<pn, nvram, chip, disk, head, sv_top>>
=============================================================================
