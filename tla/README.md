# CT60 TOS and tools: a TLA+ verification of the parts that can brick the machine

This directory holds TLA+ models of the programs in this repository, the TLC
configurations that check them on small instances, and proofs, checked by TLAPS,
of what matters most for every value of the constants. It is meant to be read
beside the source: each definition names in `PROJECT.json` ("map") the file and
lines it stands for, and each property is listed there with the code hazard it
is about.

The repository is the software of the CT60 accelerator (68060 on an Atari
Falcon) and, in part, of the FireBee (Coldfire): an operating system image in
flash, the programs that write it, the programs that reprogram the board's
CPLDs, and the control panel, firmware setup, temperature monitor and clock
generator driver around them. What makes it hard is that it talks to devices
that fail half way (a flash chip, a JTAG chain, an I2C clock generator), with
interrupts masked, with globals that survive from one dialog to the next, with
settings that two programs keep in five places, with a second program that
reads memory the first is changing, and with the power supply as the last actor.

## 1. Inventory

| Component | State it keeps | Operations | Talks to | Hard behaviours |
|---|---|---|---|---|
| **FLASH060, flash branch** (`flash060.c` `load_file`, `Button`; `flash.s`; `flash_cf.s`; `srec.c`) | `size_tos`, `start_adr`, `soft_hard`, `file_loaded`, `device`, `buffer_flash`; registers of `program_flash` | load a BIN or HEX file, toggle the chip, PROG | flash chip, keyboard processor, interrupt mask, data cache or write protection, user's alerts | half-erased sectors, dead words, power loss, stale globals, masked interrupts, error exits |
| **FLASH060, JTAG driver** (`jtag.c`, `jtag_p.s`) | `*TapState`, `Hir/Tir/Hdr/Tdr`, `out_bits` | `ChangeTapState`, `JtagShift`, `JtagSelectTarget`, `waitTime` | the CPLDs' TAP controllers, over the printer port | the driver cannot read the chips' state; neighbours in the chain; retries |
| **FLASH060, JTAG session** (`Button` HARD_JED branch, `jtag_*` of `flash060.c`, `jedec.c`) | `usercode`, `code_abe`, `code_sdr`, `repeat`, `error` | test, enable, erase, blank check, program, verify, exit | JTAG driver, NVRAM | rounds of erase and check, status one shift late, NVRAM written before verification |
| **Image generator and command line flasher** (`gentos.c`; `flash.c`, `write.S`) | the buffer; none | concatenate, patch, checksum; detect, erase all, program, verify | build host; flash chip | overlapping blocks, cut tests, half words; word counts, no reset of the chip on errors |
| **Clock generator** (`ct60ctcm.c`, `ct60_ctcm.c`) | the chip's registers, in RAM and EEPROM | read, set a frequency | I2C | failure between two registers, rounding, two copies of the driver with different limits |
| **Control panel** (`ct60conf.c`, `ct60xbio.c`) | the open panel, the header XCONTROL keeps, the SuperVidel page's scroll | every control, OK, SAVE, LOAD, Cancel | NVRAM, parameters in flash, clock generator, cookie, CT60TEMP | texts and stored words that must agree, codes the panel does not know, a copy of the NVRAM in flash |
| **Setup firmware** (`ct60_setup/*`) | menu position, copies of the settings | forms, reload, save, exits | the same stores | the two programs count and order the same settings differently |
| **Temperature monitor** (`ct60temp.c`) | filter, curves, minute of the last turn, stop requests | main loop, dialogs, messages | sensor, cookie, panel, MiNT | two time sources, an edge-triggered stop, dialogs that take time |
| **Panel and monitor together** (`cpx_timer`, `cpx_hook`, `temp_thread`; `send_mess`, `scan_mess` of `ct60temp.c`) | `temp_id`, `time_out_thread`, the curve and a pointer into the other program | question, answer, copy | AES messages, shared memory | lost messages, a service that ends or restarts, a copy taken while the source moves |
| **TOS patches, SDRAM test, ATA boot, video, loaders, small tools, FPSP/ISP** | - | boot-time code | hardware | not modelled, see section 8 |

`PROJECT.json` lists all components with their status, and forty hazards line
by line with the properties that cover them or the reason why none does.

## 2. Modules

```
NorFlash            the flash chip: sectors, words, erase, program
  SectorUpdate      abstract: what any flash update promises
  FlashTool         FLASH060's flash branch, with chip faults and power loss
    MCFlashCT60, MCFlashCF             TLC instances
    FlashTool_proofs                   types, bounds, restoration, consent; the
                                       sweep: order and completeness; what a file
                                       becomes; FlashTool implements SectorUpdate
  GenTos            the image generator, as functions of its inputs
    FlashTos        the command line flasher, writing what gentos makes
      MCFlashTos
      FlashTos_proofs                  OK means a TOS that boots
JtagChain           the JTAG driver and the scan chain, clock by clock
  MCJtagShift
  JtagChain_proofs                     the driver knows where the chips are,
                                       and what it sends lands where it is sent
IspSession          the JEDEC reader and a CPLD session over the driver's calls
  MCIsp
  IspSession_proofs                    types, and its four safety properties
ClockGenerator      both drivers of the clock generator, as operators
  ClockGenerator_proofs                what a call of a driver leaves and makes
  SettingsStore     NVRAM, parameters, generator, file: what is shared
    Panel           the control panel
    Setup           the firmware's setup
      Settings      sessions of both on one computer, restarts, power cycles
        MCSettings
        Settings_proofs                types, page and mode, cursors, what a form shows,
                                       what is set, saved and kept
TempMonitor         CT60TEMP's loop, its day of the week and stops
  MCTemp
  TempMonitor_proofs                   the calendar, why a stop is asked for,
                                       and that none is missed
TempLink            panel and service over lossy messages and shared memory
  MCLink
  TempLink_proofs                      types, the order of the curve
```

### NorFlash

A word is the **set of its bits that are still 1**: blank is the full set, the
program command is intersection, erase restores the full set on a sector. That
is all the chip contributes, and it is what makes "program without erase",
"erase without program" and "half erased" different states. The sector table
is `Starts`, which the assumption requires to ascend; `SectorFrom(n)` is the
search of `.find_offset`, which accepts only an offset that *is* a sector's
start.

### FlashTool

State, and the code's names for it:

| Variable | Code |
|---|---|
| `flash`, `chip` | the device's contents and what it answers to a read (contents, identification, status) |
| `irq`, `armed`, `kbd` | the mask in SR; CACR off (CT60) or write protection lifted (FireBee); keyboard output paused by the 0x13 command |
| `file_loaded`, `soft_hard`, `device`, `buffer`, `start_adr`, `size_tos` | the globals of the same names |
| `pc`, `lock_interrupts`, `offset`, `ok` | Button's locals |
| `sect`, `ptr`, `retry`, `ret` | program_flash: the sector found, A0/A2, the dbf counter, D0/D1 |
| `file`, `base`, `atload`, `front`, `asked`, `outcome`, `faults` | history for the properties |

Actions follow the code's steps: `LoadBin`, `LoadHex`, `LoadJed` are whole
`load_file` calls; `Press`, `CancelLoad`, `Decline`, `Begin` are Button up to
the loop; `Pause`, `PastImage`, `Unasked`/`AnswerYes`/`AnswerYesAll`/`AnswerNo`,
`Resume`, `Exhausted` are the loop; `Probe` to `Leave` are `program_flash` and
`program_flash_cf`, which differ only where the code does (`Coldfire`): the
CT60's masks interrupts around the identification and may take a bus error, the
FireBee's lifts a write protection. Erase and programming are separate from
their outcome (`busy`, then done or failed), so a power loss or a failure can
come between. `EraseFails` stops after any number of words of the sector,
`WordFails` leaves any word between the one found and the one intended, `Decay`
changes a word after it was compared and before the second pass,
`PowerLoss` may come at any step.

### GenTos and FlashTos

`GenTos` has no state: `gentos(in)` is the file the generator writes from a TOS
image, blocks at linker addresses, tests and the two command lines it accepts,
step by step in the code's order (buffer of 0xff, TOS, date, blocks, checksum of
the first half, tests at a fixed place, length). A block's address may be one
in the flash or relative to it (`Rebased`); later blocks lie over earlier ones;
the tests are cut to their area, and a file may end with half a word (`odd`).

`FlashTos` is the flasher for a CT60 that runs its 68030: `detect_flash`,
`erase_flash` (all sectors up to the parameters), `program_flash`,
`verify_flash`. The loop of `write.S` tests its byte count after the decrement,
so a file of whole words programs the word *behind* it too (`Count`,
`beyond`); and on a time-out it leaves without a reset, so the chip goes on
answering with its status (`chip = "failed"`) until the next attempt's
identification ends with one. The user tries again after an error, as the
program advises, or after a power cut.

### JtagChain

The driver writes beside each clock what state it believes the chips to be in
(`*TapState`, here `tap_state`); nothing ever reads it back. The model has both
sides: `Pulse(tms, tdi)` is one TCK cycle, on which the chips' controllers move
through the IEEE 1149.1 diagram (`TapLow`, `TapHigh`) and their registers
capture, shift and update; the driver's side is the switch of `ChangeTapState`
as four tables (`LowGoals`: for which goals a state keeps TMS low; `NotedLow`,
`NotedHigh`: what is then noted), one turn of its loop per action, and
`JtagShift`/`JtagShiftOnly` bit by bit, with header and trailer bits for the
other device of the chain, comparison of TDO, the retry through Pause-DR and
the wait in Run-Test/Idle. A session starts with the chips in **any** of the 16
states. Calls are taken from a set `Shifts`; `CallOrder` keeps the one rule all
callers of `flash060.c` follow, that an instruction is shifted before data. The
chains and goals of `Goals` let `ChangeTapState` be called for every state.

`MaxRepeat` is 0 in every call of `flash060.c`; the model also runs the retry
path with 1, because it is the driver's documented interface and the part
where belief and chips are furthest apart.

### IspSession

| Variable | Code |
|---|---|
| `file_loaded`, `design`, `device` | the globals; `design` is the fuses of `jed`, a value per row |
| `verify`, `usercode`, `op`, `repeat`, `error` | Button's locals, the operation in hand |
| `pc`, `row`, `cmp` | where Button or the operation's loop is; the row of the shift; whether `tdo_cmp`/`tdo_mask` compare the status |
| `nvram` | `code_abe`, `code_sdr` |
| `cells`, `isp`, `burnt`, `status`, `out` | the chips: contents, ISP mode, the row buffer's sector, the status a shift brings back, the row it brings back |
| `cable`, `faults`, `presses`, `outcome` | the environment and how the last session ended |

`LoadJedec` folds the fields of a file as `jedec_read` does and picks the
device. A session is `Press`, `TestDevice`, `CheckCode`, `StartRounds`, then for
each operation `Enable`, the operation's actions (`Erase`, `Blank`,
`ProgramRow` with `ProgramEnd`, `VerifyRow` with `VerifyEnd`) and `Exit`, which
goes on to the next operation, to another round (`EndRound`: at most
`Repeat + 1`) or out; `SaveCode` writes NVRAM between programming and
verification, as the code does, and `Report` is the alert. Both shift loops see
what the shift *before* found: `ProgramRow` compares the status of the last
sector at the first row of the next, `VerifyRow` the row before. A shift is one
step because `JtagChain` shows that it lands. `LoseCable` and `PowerLoss` come
anywhere, an erase may keep rows, a weak row may not burn, and burning a row
that is not blank leaves `JUNK`.

### ClockGenerator, SettingsStore, Panel, Setup, Settings

`ClockGenerator` is the arithmetic of both drivers: what frequency registers of
the Dallas DS1085 or the Cypress CY27EE16 make, and the sequence of register
writes a frequency becomes, in the order of the code and with its truncating
divisions, cut by a bus error after any of them. Its two copies differ in the
limits of their headers (`CPX_LIMITS`, `SETUP_LIMITS`) and in what they read
where there is no generator or a blank one: an error in the panel
(`ct60_read_clock`), a frequency in the setup (`setup_read_clock`, 0 without a
chip). `SettingsStore` has
what the two programs share: `nvram`, `flash` (switches, frequency, the
SuperVidel's word and the copy of the NVRAM in three parameters, which a read of
the NVRAM restores when it is marked valid), `chip`, `disk` (the panel's file)
and `head` (the header XCONTROL keeps in memory).

`Panel` keeps the open panel in one record `pn`: an index per popup, the text of
each field, the video word **and** the texts the page shows of it, because each
handler of `cpx_button` changes some of both. `OpenPanel` is `cpx_call`,
`Control` every control, `Load`, `Save`, `Ok`, `Cancel`, `Calibrate` (programming
the EEPROM) and `Scroll` the rest. `Setup` keeps `su`: the row of the menu, the
selection, the state of the key machine (`MENU`, form, list, input, up-down) and
its copies of the settings; `MenuKey`, `FormKey`, `ListKey`, `UpDownKey`,
`StepKey`, `Enter`, `Exit` are its keys.

`Settings` composes them: a **script** is a sequence of sessions of either
program on one computer, with the clicks each has, and `Between` two sessions
there is nothing, a restart or a power cycle (which reloads the generator from
its EEPROM). Moving about costs no click.

### TempMonitor

One turn of the monitor's loop is `Top` (clock, keys, `test_stop`), perhaps
`Ask`, `Sense` (filter, the overheating test), `Minute` (once a minute: curves,
how the load is measured, alarm) and `Wait`, where messages (`Message`, `About`)
arrive. Time passes only where the program waits: in its event call and in its
dialogs, by any number of slots up to their time-out (`Pass`). `ticked` says
whether `ticks` has moved since the start: it is refreshed only when the load is
*not* read through Suptime (`Refreshed`). The calendar (`NextDate`) is the clock
chip's; `dayofweek` and `isleapyear` are the program's, in the 16-bit `int` of
Pure C: the day number of any date since 1980 overflows it (`Int16`), and C's
remainder takes the sign of what is left (`Rem`). `DayNumber` is a reference,
written another way, to say what the right day is.

### TempLink

The panel's side has `cpx_init` (find or start the service), `cpx_timer` (once a
second: question, give up after `Patience` turns, move the curve when the minute
has changed), `cpx_hook` (an answer, then the copy of the curve entry by entry,
`Copy`) and the user's pages and buttons. The service's side is a turn of its
loop: the minute, `read_temp` with the shift of its curve entry by entry
(`Shift`), the dialogs, messages (`Serve`). Messages go through two pipes of
`PipeSize`; a full one loses what is sent, a closed panel has its answers
discarded, the service may end at any time and be started again under another
number, leaving the panel a pointer into freed memory (`stale`). A curve's
entry is the minute it was taken in, so that order can be told.

## 3. What the runs check

| Run | Question | Properties |
|---|---|---|
| `flash_ct60` | any session on a CT60: seven kinds of file, two faults or power cuts anywhere | `TypeOK`, `SectorPrefix`, `InBounds`, `DoneMeansImage`, `FileLanded`, `Restored`, `FetchSafe`, `ParamKept`, `PressEnds`, `KeepsPromise` |
| `flash_firebee` | the same on a FireBee, where the buffer is the whole chip and two areas are guarded | `InBounds`, `Restored`, `GuardedSectors` |
| `flash_keyboard` | is the keyboard resumed when PROG is over? (no) | `KeyboardResumed`, violated |
| `flash_tos` | images gentos makes, written by the old flasher with faults, retries and power cuts | `OkIsBootable`, `RetryHeals` |
| `jtag_shift` | sequences of instruction and data shifts, retries and waits on two chains from any state of the chips; on one, every start and goal of `ChangeTapState` | `Agrees`, `ClockedInPlace`, `InstructionLands`, `DataLands`, `CallsReturn` |
| `isp_session` | two sessions over every kind of JEDEC file and old contents, a fault anywhere | `DoneMeansDesign`, `IspLeft`, `BurnsBlank`, `NvramAfterBurn`, `SessionEnds` |
| `settings` | scripts of panel and setup sessions on nine computers | `SettingsTypeOK`, `PanelShowsMode`, `CursorInForm`, `ModeStaysLegal`, `EepromTested`, `OkShownAgain`, `LoadGivesSaved`, `OkKeepsUntouched`, `ShowsChoice`, `SaveStores` |
| `settings_rating` | does an early 68060 stay within its rating? (no) | `ClockWithinRating`, violated |
| `temp_monitor` | the monitor from 29 February 2000, over a year's end and over 15 June 2064 | `AskedForReason`, `ScheduledAsked`, `OverheatStops` |
| `temp_weekday` | is a stop proposed on a day the list names, on every date the clock holds? (no) | `AskedOnNamedDay`, violated |
| `temp_overheat` | is an overheating processor stopped on every system? (no) | `OverheatStopsAlways`, violated |
| `temp_link` | panel and service, every kind of service, messages lost, service ended and restarted | `CurveInOrder`, `SettingsArrive` |

In words:

- `SectorPrefix`: while an update runs and after it, the sectors behind the
  frontier hold the image, those ahead of the sector in hand are untouched.
  Whatever fails, one sector at most is damaged.
- `DoneMeansImage`, `FileLanded`: an update that ends without a message has
  written the whole buffer; and the buffer was the file (plus the branch to the
  boot code) or, for a HEX file, its records over what the chip held.
- `InBounds`: no read outside `buffer_flash`, no write outside the sector in
  hand, for no file, address or number of presses.
- `Restored`, `FetchSafe`: every exit of the assembler routines gives back the
  chip, the mask and the cache or protection; TOS code is never fetched from a
  chip that answers with status.
- `ParamKept`, `GuardedSectors`: the parameter sector of a CT60 is never
  written; BaS, dBUG and the FPGA table of a FireBee only with consent to that
  very sector or to all.
- `KeepsPromise`: FlashTool implements `SectorUpdate`.
- `OkIsBootable`: the flasher's "OK" means TOS, each patch where the linker put
  it, the tests, and a checksum that fits what is in the chip; and that the
  parameters are untouched, *unless the file fills the whole area*: then the
  word behind it, the first of the parameters, is programmed with whatever lies
  behind the file in memory (`write.S:257`). `RetryHeals`: whoever goes on
  trying while the chip can be written ends with OK, though an error leaves the
  chip answering with its status (`write.S:243`).
- `Agrees`, `ClockedInPlace`: the driver's belief is true at every step; data
  bits are clocked in the shift state of their call, waiting clocks in
  Run-Test/Idle. `InstructionLands`, `DataLands`: after a call the target holds
  what was shifted, the other device holds BYPASS, TDO was captured whole, and
  exactly one Update applied the data, also after a retry.
- `DoneMeansDesign`: no alert means the design is in the chip and its usercode
  in NVRAM. `NvramAfterBurn`: NVRAM learns only a usercode read from the chip or
  one all of whose rows were reported burnt. `BurnsBlank`: a sector is never
  burnt twice. `IspLeft`: every way out leaves ISP mode.
- `PressEnds`, `CallsReturn`, `SessionEnds`: PROG, driver calls and CPLD
  sessions come back.
- `PanelShowsMode`, `ModeStaysLegal`: the video page's texts are those of the
  mode OK will store, and no order of clicks makes a mode the Falcon has not.
  `CursorInForm`: neither program's cursor leaves its form, list or page.
- `OkShownAgain`, `LoadGivesSaved`, `ShowsChoice`, `SaveStores`: what was set is
  what is shown when the panel is opened again, loaded, or the form (in
  `SaveStores` the BOOT or the CPU form) is read again. `OkShownAgain` leaves one case out: where the strap halves the clock, OK
  compares the generator's own frequency with the halved one (`ct60conf.c:3225`), so
  a choice equal to what the *generator* runs at changes nothing, and the panel may
  then show another. `OkKeepsUntouched`: OK keeps what the user did not touch, as the other
  program left it, and the frequency the generator runs at unless it is one the panel
  has not (then the alert says "abnormal" and another is offered). `EepromTested`: the panel programs the generator's EEPROM
  only with a frequency the machine is running at.
- `AskedForReason`: a stop is asked for only in a minute and on a day the
  schedule names, or for a key. `ScheduledAsked`: no scheduled minute goes by
  unasked, however long the program's own dialogs take. Both hold up to 16 June
  2064, and for a schedule of every day on any date (`Sure`): until then the day
  number wraps to a number between 0 and 32767, and 11 * 65536 days are whole
  weeks and one day, the one `test_stop` adds again. `OverheatStops`: a 68060 that stays too hot is stopped, where the load
  is sampled.
- `CurveInOrder`: the curve the panel draws never runs back in time, although
  two programs move it and one copies it while the other may be shifting it.
  `SettingsArrive`: while a page of measures stays open the service comes to use
  the settings shown, whatever was lost before.

Every property of a passing run has a mutant in `PROJECT.json`: a changed
definition, kept in the module under a comment "mutant", under which TLC finds
the property violated.

### Findings

1. **The keyboard stays paused** (`flash060.c:704`, run `flash_keyboard`). With
   `lock_interrupts` the loop sends "pause output" at its top (701) and "resume"
   after the sector (726), but the test `offset>=size_tos` between them leaves
   the loop. A TOS image that ends before the end of the TOS area leaves the
   machine deaf to keyboard and mouse.
2. **Weekly stops lose their days after 16 June 2064** (`ct60temp.c:1018`, run
   `temp_weekday`). Up to that day the 16-bit `doe` is not negative and
   `dayofweek + 1` numbers the days as the settings do, Monday 1 (`ct60temp.c:21`).
   From the next day on `doe` is negative, the remainder is -6 to 0, and the
   number compared is 0, 1 or above 65530: a stop on working days (`ct60conf.c:1197`)
   comes on weekends too, one on weekends or from Tuesday to Sunday never, and
   Monday's on Wednesdays. The clock and the setup go on to 2107
   (`form_nvram.c:413`).
3. **No overheating stop under MiNT or plain TOS** (`ct60temp.c:420`, run
   `temp_overheat`). The stop needs `ticks` to have moved since the start, but
   `ticks` is refreshed only where the load is sampled (504, 518).
4. **Twice the frequency without a change** (`ct60conf.c:1769`, run
   `settings_rating`). A frequency the setup lowered below 66.3 MHz makes the
   panel take a Dallas generator for one halved by the strap; OK without a
   change then doubles the clock of a processor rated for 75 MHz.

## 4. Bounds

| Bound | Value | Why it is enough |
|---|---|---|
| bits of a word | 1; 2 in `flash_tos` | programming is bitwise; one bit tells erased, programmed and wrongly programmed apart, two tell the halves of a word apart. The proofs are for any set of bits |
| sectors | 4 (CT60, flasher), 6 (FireBee) | a short first sector, sectors of one to three words, a block of several sectors, the parameter sector; guarded areas at both ends |
| `Tries` | 2 (16 in the code) | first attempt, last attempt, and the reset of the counter between words |
| `MaxFaults` | 2 (CT60, flasher), 1 (FireBee, CPLD) | a fault during the repair of an earlier one; power loss during an update after a failed one |
| `SizeCap` | 6, 8 | `size_tos` grows with each press on a FireBee (`flash060.c:692`): two presses beyond the area already read past its end if anything does. It bounds the number of presses and appears only in the guard of `Press`. The theorems leave it arbitrary |
| register lengths | IR 2, DR 3 | two patterns besides BYPASS; unequal lengths, so that a header of the wrong length shows |
| `MaxRepeat` | 1 | one retry and the last failure; the theorems leave it arbitrary |
| `updates` | 2 | a history counter: 2 stands for "more than one", which is already wrong |
| `Wait` | one clock or none | in Run-Test/Idle further clocks change nothing |
| CPLD | 2 sectors of 15 rows, rows of 4 groups | a first, an inner and a last strobe; a status that arrives in the other sector; the theorems are for any number of sectors and rows of 4, 8 or 16 |
| `Repeat` | 2 (10 in the code) | first, inner and last round; arbitrary in the theorems |
| `MaxPresses` | 2 | a second session on what the first has left |
| scripts | one session of up to four clicks, or two | a click on each of two controls that disturb each other and one between; the second program on what the first stored. Nine computers: both generators and none, strap, early and late 68060, an early one with the strap at 64 MHz, 68030, SuperVidel under ZCONTROL, no CT60 found. Numbers typed are the limits of a field and one beyond |
| day, minute | 2 minutes of 5 slots | a scheduled minute and one that is not; the longest dialog (3 slots for 30 s) plus the other dialogs in one minute |
| `MaxDays`, `MaxEvents` | 1, 1 | one midnight after each of three dates (29 February of the leap century 2000; Friday 31 December 2004; Sunday 15 June 2064, the last but one that is counted right; in `temp_weekday` Friday 20 June 2064); one key, message or cookie change. `MaxDays` stops the clock only; the theorem leaves both arbitrary |
| `FilterLength` | 2 (8) | a filter that is not yet full of the same value |
| `Hour`, `Patience`, `PipeSize` | 2, 1, 1 (61, 10, the AES's) | two entries, so that a copy may be half done and a shift too; an answer too late; a full pipe. Arbitrary in the theorems |
| `MaxMinutes`, `MaxStarts`, `MaxActs` | 1, 2, 3 | one minute passes while a copy goes on; a service restarted once; the user leaves a page, edits, comes back |

Deadlock is checked for the programs that never end: FLASH060 (`flash_ct60`,
`flash_firebee`, `flash_keyboard`, `isp_session`) and the driver (`jtag_shift`).
The other configurations say `CHECK_DEADLOCK FALSE` because there something does
stop: a script ends, the flasher exits, the temperature monitor stops the
processor or ends.

## 5. Fairness

- `FlashTool`: `WF_vars(Tool)`; `JtagChain`: `WF_vars(Driver)`; `IspSession`:
  `WF_vars(Session)`. All are single loops nothing preempts for good. For the
  flash it includes that the chip ends each operation with DQ7 or DQ5, because
  the polling loops of `flash.s` and `flash_cf.s` have no timeout of their own,
  and that the user answers the alerts. Nothing is assumed of loading, pressing
  or of faults, whose number is bounded.
- `FlashTos`: `WF` of `Make`, `write_flash` and `Try`; the last says that the
  user starts the program again after an error, which is what it advises.
- `TempMonitor`: `WF_vars(Monitor)`: the loop gets its turns, and its own
  dialogs end by an answer or their time-out. The alert of a bad sensor has no
  time-out and is **not** assumed to be answered, nor is any key, message or
  change of the cookie.
- `TempLink`: `WF` of `CpxTimer`, `Hook`, `Copy` (the panel's callbacks, called by
  the XCONTROL loop while the panel is open) and of `Service`. The user, the end
  of the service and the clock have none.
- `Settings` states no liveness: each click is one handler that returns.

Liveness is checked by TLC only.

## 6. Proofs

Assumptions are the named `ASSUME`s of the modules. Those of `NorFlash` and
`FlashTool` say that the sector table ascends, that the 64 KiB blocks, the TOS
area and the upper guarded area begin between sectors, and that files are made
of words; they hold for every device in the tables of the source.
`JtagAssumption` says that registers have at least one bit and that data is
shifted from a shift state. `FilesAssumption` (IspSession) says that a file the
session accepts has a fuse for every row of the device. `LinkAssumption` is typing.
`GenTosAssumption` says that TOS, the date's place, the tests' area and the
checksum lie in the flash area in that order, as the constants of `gentos.c`
and the linker scripts have it. `SettingsAssumption` says what may be stored when a script
begins: in NVRAM, flash and file only what one of the two programs can have
written (the SuperVidel's start mode a word of sixteen bits), and of the panel's
fields only digits and as many as they have; and it says that the generator is a
chip as it is found (`IsChip`): registers of their width, and a DS1085 whose offset
is at most six ranges from its own, where the driver itself leaves it. One case
it excludes is worth knowing: an NVRAM with VGA *and* overscan, which neither program
writes but another might; the panel would show it as a mode OK does not
store, and `PanelShowsMode` would be false. `StartsAssumption` (TempMonitor) says that the clock starts on a date of the
calendar from 1980 to 2107, all that it holds, and what day of the week that
date is, by `DayNumber` and not by the program; TLC evaluates it for the dates
of the instances. `TempAssumption` says of the
dialogs that the question (30 seconds, `ct60temp.c:394`) and the alarm (10, lines
501 and 558) leave room for a turn in one minute, `AskSlots + AlarmSlots <
MinuteSlots`, and that a day has more than one minute: with a day of one, yesterday's
refusal would be today's.

**FlashTool_proofs**: the inductive invariant is
`IInv == TypeOK /\ Placed /\ Mode /\ Masked /\ Agreed`.
`Placed` ties `offset` and `sect` to the sector table at each step of the loop
(without it neither the copy's bounds nor the returned offset can be bounded),
`Mode` says which steps may find the chip in which command state, `Masked` where
the interrupts are masked and the cache off, `Agreed` that a sector inside the
call was consented to. From it follow `TypeCorrect`, `CopyInBounds`,
`AlwaysRestored`, `NeverFetchesStatus`, `ParametersKept` and
`GuardedNeedConsent`. The table lemmas (`TableOrdered`, `SectorFound`,
`NextBoundary`, `LoopStarts`, ...) hold the arithmetic.

In the same module, `SectorPrefix` is not inductive, as it does not say what
the words already burned in the sector in hand are. The strengthening has three
parts: `Behind` and `Ahead` while an update is active, `Frontier` relating
`front` to `offset`, and `Sector`, the words of the sector in hand up to `ptr`
before and after verification. From it follow `SectorsInOrder` and `DoneIsWritten`.

`FileReachesChip` is `FileLanded` for every file: its
invariant `FileHeld` says what `buffer` is made of from the load to the end of
the update (the words of a BIN file and its branch, or each record of a HEX file
over what the chip held), and that nothing touches it in between. With
`DoneIsWritten` the chip then holds the file.

And `Refines`: every step of FlashTool is a step of
`SectorUpdate` or a stutter under the mapping in `FlashTool` (`image` is the
buffer, `upto` the smaller of `size_tos` and `EndOffset`, `phase` from `pc` and
`outcome`). The interesting cases are `Leave`, which must find the sector full
of image (`Advance`), and `Resume`, `PastImage` and `Exhausted`, which must find
the frontier past the image (`Complete`).

**JtagChain_proofs**: `JInv` has the reset sequences (`Resetting`: after *n* clocks
with TMS high the chips are in one of `AfterHigh[n + 1]`, after five only in
reset, whatever state they came from), what both sides hold in common outside
them (`Common`), why `ChangeTapState` was called (`Purpose`: without it nothing
says in which state the shift begins), and how far a shift is (`InShift`). From
it follow `DriverAgrees` and `ClocksInPlace`, for all register lengths, chains,
calls and retries.

In the same module, what is sent lands: the registers of the chain end to end have as many places as a
shift has clocks (`Geometry`). `Lying` says what is in each place: the bit sent
as many clocks ago as the place counts from TDI, and behind those what the
target captured; `Moved` is the clock that keeps it. Around the shift, `Starting`
(a data shift begins on what Capture-DR loaded, which needs the instruction to
be in), `Counting` (what was read, and that nothing is updated in the shift),
`Held` (from an instruction's update on the chips stay on the data side of the
diagram, so that no later move can lose it), `Sites` (a call ends in
Run-Test/Idle, and only a retry goes by way of Pause-DR) and `Applied` (one
update on the way back). From it follow `EveryInstructionLands` and
`EveryDataShiftLands`, for all lengths, both places in the chain and any number
of retries. The one assumption is `LengthAssumption`: an instruction has
`CMD_BIT_LENGTH` bits, and the bits of a data shift fill the register its
instruction selects, as in all calls of `flash060.c`; how many clocks the devices
before and behind the target need is the driver's own knowledge, and proved.

**IspSession_proofs**: the invariant `IInv` has, beside the types, `Targeted`
(a session is about a device the file names), `Counted` (a round of erase and
check is one that is left), `Left` (the chip is in ISP mode only inside an
operation), `Verified` (a verification has compared every row below the last it
asked for), `Programmed` (rows of the sector in hand are buffered, those of
earlier sectors are burnt, but for a sector whose failed status the next shift
is about to compare), `ReadOnly` (the session that only verifies) and `Blanked`
(from the blank check that passed, what is not burnt yet is blank). `RowAdr`,
`OneLastRow` and `RowPlace` are the arithmetic of `jtag_device_adr`: each row has
an address of its own, fifteen to a sector, one of them the last. From it follow
all four safety properties of `isp_session`, for any number of sectors and rounds.

**TempLink_proofs**: `CurveInOrder` is not inductive, as it says nothing of a copy
under way. The invariant says that the service's curve is in order at every step
of its shift (`HourInOrder`), that no answer in the panel's pipe is from a
service yet to be started (`Sources`: without it a new service's memory could be
taken for the one of an ended service), that a panel that is closed is in no
copy (`Copying`), and that what is copied is in order and not later than what
is still to be copied from a service that moves on (`CopyInOrder`).

**TempMonitor_proofs**: `Digits` and `YearDays` are the arithmetic of the Gregorian
calendar: the days before a year, split into 400, 100, 4 and 1 years;
`MonthStarts` is the table `doylookup`; `Midnight` puts them together: the true
day number grows by one each midnight, on every date. `CodeDigits` says that
`dayofweek` sums that number, and `WrapShifts` what its 16 bits leave of it up to
16 June 2064: the number less 11 * 65536, whose remainder is one day behind. So
`test_stop` compares the true day of the week (`ScheduleNamesDay`). With
`StopKept` (past the top of the loop `old_stop` is what `stop` was found to be)
this gives `AskedOnlyForReason`: the stop is asked for on a day the schedule
names until that date, and only the first turn may act on the `stop` nobody has
initialised. `NoStopMissed` is the other half: no scheduled minute
goes by unasked while nobody disturbs the program. Its invariant (`Scheduled`) ties the
clock to the turn of the loop: a turn reaches at most into the minute after the one it
read, and then so little of that minute has passed (fewer slots than the dialogs
already behind it may last, `OneMinuteOn`) that what is left of the turn cannot cross
into a third; what the turn found due was asked in that minute, and an `old_stop` left
over from it is of that minute alone (`AskedOfDue`); an accessory's settings name
the stop of the cookie they follow (`Undisturbed`). Without the slots of `OneMinuteOn`
a minute could pass between two tops of the loop.

**FlashTos_proofs**: `Inv` is `Typed /\ Made /\ InArea /\ Kept /\ Verified`. `Made`:
the file in hand is one `gentos` makes (so its length, its parts and its checksum
are the generator's), `InArea`: erase and program stay in the area but for the one word
`Count` adds, `Kept`: unless the file fills the area, nothing behind it has
changed, `Verified`: after "OK" every word of the file has been compared with
the chip. `Bootable` lifts `OkIsBootable` to
any blocks, tests, area and number of attempts. The lemmas on `patchTos` say that
the blocks laid over the image leave every word either the TOS's or the last
block's that covers it; they are an induction over the list of blocks.

**Settings_proofs**: the invariant `Inv` is about what the two programs leave each
other. `Stored`: NVRAM, the flash with the three words of its copy of the NVRAM, file
and header are of their types, and only a closed panel has an empty header.
`Scripted`: a session that has begun is the first of a script that is not
empty. `IsPanel`: while the panel is open each of its fields is of the type its
popup or text gives it (`Field`), the texts and marks of the video page are those
of the mode in hand (`PanelShowsMode`, which is inductive only together with the
legal indexes of that mode), and the field with the cursor is on the page that is
on and scrolled into view (`InPage`). `IsSetup`: the setup's three copies of the
settings are of their types and the selection is inside its form and its list in
each state of the key machine (`InForms`). Every handler of panel and setup has a lemma that it
keeps this. From it follow `SettingsTyped`, `PanelShows`, `CursorStays`,
`ModesStayLegal` and `ChoicesAreShown`, for every computer, every stored state, every script of any length and
any number of faults.
`ChoicesAreShown` needs, beside the invariant, one lemma per form: what
`confirm` stores is read back by the form as the value confirmed (`NvChoiceShown`,
`CpuChoiceShown`, `BootChoiceShown`, `DateChoiceShown`; the hard ones are the
twelve resolutions of four bits whose doubling bit means its opposite on a
monitor, `ResChosen`, and the boot device looked up in a table, `BootPrefChosen`),
and every other text depends on fields that `confirm` leaves alone (`SameNvTexts`).

The properties about numbers need a second invariant, `Held`: the generator is
always a chip its driver can program (`IsChip`; without it a call could end in an
offset it refuses), the start mode in the flash is a word, panel and setup are never
open at once (`Alone`: otherwise one could program the generator under the other),
an open panel has the limits of its computer and no frequency where no generator can be read (`Rules`:
without it OK could store a frequency of 0 as one), and what the setup compares a
form with when it saves is what the flash holds until it is saved (`ReadIn`).
`HeldInvariant` proves it of every step of both programs and between them. From it
follow `FrequencyTested` (the EEPROM), `SavesStore`, `LoadsSaved`, `OkShown` and `OkKeeps`. The
lemmas they rest on are the inverses: an index of a table without doubles is found
again from its code (`IndexOfCode`, `CodeBack`), a legal mode passes `VideoOpened`
unchanged (`LegalOpened`), a time of day passes its word of 2048 and 32
(`TimeBack`), a word passes its hexadecimal text (`HexIs`; `NumberIs` is an induction
over a text's digits), and a frequency passes the generator but for a step, also where
the strap halves it (`OkClock`, `HalvedGiven`, `OkFrequency`).

**ClockGenerator_proofs**: `Configured` says what any outcome of
`ct60_configure_clock` is, for either chip, any registers, frequency and limits and
a bus error after any write: a chip of the same kind with registers of their width; writing the
registers in force leaves the EEPROM, and writing the EEPROM leaves a chip that runs
(a Cypress whose write enable was changed is not blank, `RunsStill`); and without an
error the frequency asked for, doubled below the strap's limit, but for less than a
step and on the side of the default frequency (`Given`: the divisions truncate
toward zero). The writes are followed one by one: `AfterIs` and `Along` carry a
statement over any prefix of them, `DallasConfigured` and `CypressConfigured` say what
each register then holds, and `DallasMakes` and `CypressMakes` what frequency that is.
For the Cypress this is the arithmetic of its two counters: the multiplier and
divisor the driver's loop finds, taken apart into the bits of four registers, are
put together again by the read (`CypressCounters`, `PumpIs`).

Where a proof needs induction over the naturals it is made in set form: the numbers for
which a statement fails have a least one (`LeastNumber`, `Induct`, by
`WellFoundedInduction` on `OpToRel(<, Nat)`), which needs no theorem with an operator
parameter.

Only model-checked:

- the liveness properties (section 5), which are out of the prover's reach.

Every other property of a passing run is also a theorem.

## 7. What could follow

- The DSP lock functions of `dsp.S` and the boot order of `magxboot`, the two
  pieces of boot code with a protocol.

## 8. Not modelled, and why

- **What the programs only draw or say**: resource trees, redraw, help bubbles,
  the load and temperature curves as pictures, the memory and SDRAM pages, the
  drag-and-drop pipe and the event loop of FLASH060, date and version of an
  image. It is most of `ct60conf.c` by lines and holds no state another part uses.
- **Inside the modelled parts**: a file that cannot be opened or parsed (it
  leaves the buffer half filled and no file loaded); byte order of JTAG buffers
  and TDO masks (a comparison may come out either way), shifts that stay in
  their Shift state (no caller asks for one), cable and power tests as
  measurements; fuse numbers outside the QF count; the serial protocol of the
  temperature sensor (`temp.s`); the load average; how long the drivers wait;
  blocks outside the generator's buffer (`gentos.c:151` does not look, the
  linker script is what keeps them inside); the ETHERNAT card (a JEDEC file
  that names its device is one without a device here); the panel on a firmware
  without the Xbios of the patches (`flag_xbios`, where `ct60conf.c:1705` keeps the
  frequency it reads in 16 bits).
- **A language of code 6** in the NVRAM: `form_nvram.c:564` lets it pass, to the
  `NULL` that ends the list of names. Neither program writes this code (the panel's
  are 0, 1, 2, 4, 5, 7 and 8, the setup's 0 to 5), so `NvShown` keeps the index the
  code takes and no property says what is then drawn.
- **Assembly of the TOS patches** (`ct60tos/*.S`: XBIOS, cache, PMMU, vectors,
  video, blitter, console), SDRAM test, ATA boot and loaders: straight-line
  hardware code without a control structure that a model would add to.
- **Vendored or generated**: FPSP and ISP packages, the boot demo's pictures
  (`BootDemo/pic_boot.h` alone is 6400 lines of pixels), the ATA and Linux loader.
- **Small one-shot tools**: `poweroff`, `patch_xc`, Cubase and Eiffel patches.

## 9. Running

    tlc -config flash_ct60.cfg MCFlashCT60        (likewise for the other runs)
    tlapm FlashTool_proofs.tla                    (likewise for the other proofs)

`PROJECT.json` names the module of each run. Every run takes less than three
minutes with two workers.
