--------------------------- MODULE SettingsStore ---------------------------
(***************************************************************************)
(* What the control panel and the firmware setup share: the NVRAM, the     *)
(* parameter sector of the flash, the clock generator and the panel's      *)
(* saved settings, with the calls both make (NVMaccess, ct60_rw_parameter).*)
(*                                                                         *)
(* The flash may hold a copy of the NVRAM, marked by the magic code 'NV':  *)
(* a read of the NVRAM then restores the copy first (xbios2.S, nvm_access).*)
(***************************************************************************)
EXTENDS ClockGenerator

VARIABLES
  nvram,   \* the clock chip's battery backed RAM
  flash,   \* the parameters in the flash
  chip,    \* the clock generator
  disk,    \* the panel's settings in its file
  head,    \* the panel's settings in memory, in the header XCONTROL keeps
  started, \* the processor's frequency the firmware measured at the last start (cookie)
  faults,  \* bus and flash errors still allowed
  machine, \* the computer: [cpu, rev, half, sv, zcontrol, cookie, lc, exits]
  ev       \* what the last operation did: its name and what failed

(* half: the strap halves the generator's clock; sv: a SuperVidel; zcontrol: *)
(* the panel is run by ZCONTROL; cookie: the setup finds a CT60; lc: a 68LC060. *)
On060 == machine.cpu = "060"
\* the frequency the processor runs at
CpuClock == ct60_read_clock(chip) \div (IF machine.half THEN 2 ELSE 1)
StepOf(chp) == IF chp.kind = "dallas" THEN DAC_STEP ELSE CY_STEP

(* A video mode, field by field of the NVRAM's word.  Overscan is for a     *)
(* television: neither program stores it with VGA.                         *)
VMode == {vm \in [planes : 0 .. 4, c80 : BOOLEAN, vga : BOOLEAN, pal : BOOLEAN,
                  ovr : BOOLEAN, st : BOOLEAN, vert : BOOLEAN] : ~(vm.vga /\ vm.ovr)}

(* The fields of the NVRAM both programs edit; code_os, code_lang and      *)
(* code_key are the panel's tables, the setup writes what its lists count. *)
code_os   == <<0, 128, 8, 64, 16, 32>>
code_lang == <<0, 1, 2, 4, 5, 7, 8>>
code_key  == <<0, 1, 2, 3, 4, 5, 6, 7, 8>>

Nvram == [bootpref : Range(code_os), language : 0 .. 8, keyboard : 0 .. 18, df : 0 .. 3,
          tf : 0 .. 1, sep : {".", "-", "/"}, delay : 0 .. 255, vmode : VMode,
          arb : 0 .. 1, id : 0 .. 7]

NV_FIELDS == {"bootpref", "language", "keyboard", "df", "tf", "sep", "delay", "vmode", "arb", "id"}

(* The flash holds the switches, the frequency of the next start (kHz),    *)
(* the SuperVidel's word and, in three parameters, the copy of the NVRAM.  *)
SWITCHES == {"tosram", "blitter", "bootorder", "bootlog", "cpufpu"}

\* NVMaccess(0): the copy in the flash, when it is valid, goes back to the NVRAM
NvmRead ==
  IF ~flash.nv1.magic THEN nvram
  ELSE [f \in DOMAIN nvram |->
          CASE f \in DOMAIN flash.nv1 -> flash.nv1[f]
            [] f \in DOMAIN flash.nv2 -> flash.nv2[f]
            [] OTHER                  -> flash.nv3[f]]

\* the flash after the parameters of upd were written, all but the one that failed
WriteParams(upd, failed) == [f \in DOMAIN flash |->
  IF f \in DOMAIN upd /\ f # failed THEN upd[f] ELSE flash[f]]

Failures(names) == {"none"} \cup (IF faults > 0 THEN names ELSE {})
Spent(failed) == faults' = IF failed = "none" THEN faults ELSE faults - 1
=============================================================================
