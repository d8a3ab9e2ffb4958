--------------------------- MODULE ClockGenerator ---------------------------
(***************************************************************************)
(* The programmable clock generator on the CT60 and the two copies of its  *)
(* driver: the panel's (ct60conf.cpx/ct60ctcm.c) and the setup's           *)
(* (ct60_setup/ct60_ctcm.c), which differ in the limits MIN_FREQ and       *)
(* MIN_FREQ_DALLAS of their headers, here the parameter lim, and in what   *)
(* they read from no chip and from a blank one.                            *)
(*                                                                         *)
(* A chip is [kind, ram, rom]: the registers in force and those the next   *)
(* power-on loads.  The driver turns a frequency (in kHz) into a sequence  *)
(* of register writes; a bus error stops it between two of them.           *)
(***************************************************************************)
EXTENDS Integers, Sequences, FiniteSetsExt

REF             == 10000
MAX_FREQ_REV6   == 110000
MAX_FREQ_DALLAS == 133000
DEF_FREQ        == 101800
DAC_STEP        == 50
DAC_DEF         == 500
OFFSET_STEP     == 6400
CY_STEP         == 125

CPX_LIMITS   == [min |-> 65000, dallas |-> 66000]
SETUP_LIMITS == [min |-> 50000, dallas |-> 50000]

\* the Dallas DS1085's step has ten bits, a register of the Cypress CY27EE16 eight
DACWORDS == 0 .. 1023
BYTES    == 0 .. 255

\* C division truncates toward zero
Quot(a, b) == IF a >= 0 THEN a \div b ELSE -((-a) \div b)

-----------------------------------------------------------------------------
(* Reading: the Dallas DS1085's words, or the Cypress CY27EE16's counters  *)
(* and the tap of its clock 4.                                             *)
DallasFrequency(r) ==
  DEF_FREQ + OFFSET_STEP * (r.OFFSET - r.RANGEWORD) - (DAC_DEF - r.DACWORD) * DAC_STEP

\* only the counter's two bits of CHARGEP are looked at
NullClock(r) ==
  r.CHARGEP % 4 = 0 /\ \A reg \in DOMAIN r \ {"CHARGEP"} : r[reg] = 0

Divider(d) == IF d % 128 < 4 THEN d + 4 ELSE d
Tap(d, vco, n) == (IF d >= 128 THEN REF ELSE vco) \div n

CypressFrequency(r) ==
  LET q   == (r.QCOUNTER % 128) + 2
      p   == (r.QCOUNTER \div 128) + 2 * (256 * (r.CHARGEP % 4) + r.PBCOUNTER + 4)
      vco == (REF * p) \div q
      d1  == Divider(r.DIV1N)
      d2  == Divider(r.DIV2N)
      sel == (r.MATRIX2 \div 16) % 8
  IN  CASE sel = 0 -> REF
        [] sel = 1 -> Tap(d1, vco, d1 % 128)
        [] sel = 2 -> Tap(d1, vco, 2)
        [] sel = 3 -> Tap(d1, vco, 3)
        [] sel = 4 -> Tap(d2, vco, d2 % 128)
        [] sel = 5 -> Tap(d2, vco, 2)
        [] sel = 6 -> Tap(d2, vco, 4)
        [] OTHER   -> vco

\* what registers r make the chip produce; -1: no chip answers, -3: a blank Cypress
FrequencyOf(kind, r) ==
  CASE kind = "dallas"                    -> DallasFrequency(r)
    [] kind = "cypress" /\ ~NullClock(r)  -> CypressFrequency(r)
    [] kind = "cypress" /\ NullClock(r)   -> -3
    [] OTHER                              -> -1

ct60_read_clock(chip) == FrequencyOf(chip.kind, chip.ram)

\* the setup's copy: no chip is no frequency, a blank Cypress what its counters give
setup_read_clock(chip) ==
  CASE chip.kind = "none"                           -> 0
    [] chip.kind = "cypress" /\ NullClock(chip.ram) -> (REF * 8) \div 2
    [] OTHER                                        -> ct60_read_clock(chip)

-----------------------------------------------------------------------------
(* Writing.  A write is <<where, register, value>>.                        *)
tab_cy_reg ==
  << <<"CLKOE", 105>>, <<"DIV1N", 6>>, <<"PINCTRL", 80>>, <<"OSCDRV", 40>>, <<"INLOAD", 107>>,
     <<"ADCREG", 0>>, <<"MATRIX1", 182>>, <<"DIV2N", 8>>, <<"WPREG", 28>> >>

ChargePump(p) ==
  192 + ((p \div 2) - 4) \div 256
      + (CASE p < 45 -> 0 [] p <= 479 -> 4 [] p <= 639 -> 8 [] p <= 799 -> 12 [] OTHER -> 16)

Matrix2(f) == IF f > 51000 /\ f <= 77000 THEN 222 ELSE 223
Matrix3(f) == IF f > 77000 THEN 183 ELSE IF f > 51000 THEN 223 ELSE 111

CypressMultiplier(f) ==
  LET p == f \div 5
      q == Max({n \in 1 .. (REF \div 250) : n = 1 \/ p * n <= 2055000})
  IN  [p |-> (p * q) \div 1000, q |-> q, pll |-> (p \div 1000) * REF]

CypressLegal(f, lim) ==
  /\ f \in lim.min .. MAX_FREQ_REV6
  /\ LET m == CypressMultiplier(f)
     IN  m.q \in 2 .. 129 /\ 100000 <= m.pll /\ m.pll <= 400000 /\ 8 <= m.p /\ m.p <= 2055

\* The first write enable of WPREG is sent twice and only the second is looked at.
CypressWrites(f, mode) ==
  LET m    == CypressMultiplier(f)
      regs == << <<"MATRIX2", Matrix2(f)>>, <<"MATRIX3", Matrix3(f)>>,
                 <<"CHARGEP", ChargePump(m.p)>>,
                 <<"PBCOUNTER", ((m.p \div 2) - 4) % 256>>,
                 <<"QCOUNTER", 128 * (m.p % 2) + m.q - 2>> >> \o tab_cy_reg
  IN  (IF mode = "rom" THEN << <<"ram", "WPREG", 12>> >> ELSE << >>)
        \o [i \in 1 .. Len(regs) |-> <<mode, regs[i][1], regs[i][2]>>]

\* below the chip's range the strap is taken to halve the clock
Strapped(f, lim) == IF f < lim.dallas + 300 THEN 2 * f ELSE f

Dac(f, fos) == Quot(f - fos, DAC_STEP) + DAC_DEF
DallasOffset(f) ==
  IF Dac(f, DEF_FREQ) \in DACWORDS THEN 0 ELSE Quot(f - DEF_FREQ, OFFSET_STEP)
DallasDac(f) == Dac(f, DEF_FREQ + OFFSET_STEP * DallasOffset(f))

DallasLegal(f, r, lim) ==
  /\ f \in lim.dallas .. MAX_FREQ_DALLAS
  /\ DallasOffset(f) \in -6 .. 6
  /\ DallasOffset(f) + r.RANGEWORD \in 0 .. 31
  /\ DallasDac(f) \in DACWORDS

DallasWrites(f, r, mode) ==
  (IF (r.ADR \div 8) % 2 = 0 THEN << <<"ram", "ADR", 8>> >> ELSE << >>)
    \o << <<"ram", "MUXWORD", IF f > 51000 THEN 4800 ELSE 4672>>,
          <<"ram", "DACWORD", DallasDac(f)>>,
          <<"ram", "OFFSET", DallasOffset(f) + r.RANGEWORD>> >>
    \o (IF mode = "rom" THEN << <<"rom", "WRITEE2", 0>> >> ELSE << >>)

Written(chip, w) ==
  IF w[2] = "WRITEE2" THEN [chip EXCEPT !.rom = chip.ram]
  ELSE [chip EXCEPT ![w[1]][w[2]] = w[3]]

\* the chip as it was, and after each of the writes ws
AfterWrites(chip, ws) ==
  LET after[n \in 0 .. Len(ws)] == IF n = 0 THEN chip ELSE Written(after[n - 1], ws[n])
  IN  after

WritesFor(chip, f, mode, lim) ==
  IF chip.kind = "dallas" THEN DallasWrites(Strapped(f, lim), chip.ram, mode)
  ELSE CypressWrites(f, mode)

Legal(chip, f, lim) ==
  CASE chip.kind = "dallas"  -> DallasLegal(Strapped(f, lim), chip.ram, lim)
    [] chip.kind = "cypress" -> CypressLegal(f, lim)

\* What a call may leave behind: [chip, err], err "none", "absent", "calc" or "write".
\* With a fault on the bus any prefix of the writes may be what was done.
ct60_configure_clock(chip, f, mode, lim, faulty) ==
  IF chip.kind = "none" THEN {[chip |-> chip, err |-> "absent"]}
  ELSE IF ~Legal(chip, f, lim) THEN {[chip |-> chip, err |-> "calc"]}
  ELSE LET ws   == WritesFor(chip, f, mode, lim)
           Done == AfterWrites(chip, ws)
       IN  {[chip |-> Done[Len(ws)], err |-> "none"]}
             \cup (IF faulty THEN {[chip |-> Done[n], err |-> "write"] : n \in 0 .. Len(ws) - 1}
                             ELSE {})

-----------------------------------------------------------------------------
(* Chips as they are found.                                                *)
CY_REGS == {w[1] : w \in {tab_cy_reg[i] : i \in DOMAIN tab_cy_reg}}
             \cup {"MATRIX2", "MATRIX3", "CHARGEP", "PBCOUNTER", "QCOUNTER"}

\* registers as a program or the factory leaves them: a DS1085's offset is at most
\* six ranges from its own range
IsDallas(r) ==
  /\ DOMAIN r = {"ADR", "MUXWORD", "DACWORD", "OFFSET", "RANGEWORD"}
  /\ r.DACWORD \in DACWORDS /\ r.RANGEWORD \in 0 .. 31 /\ r.OFFSET \in 0 .. 31
  /\ r.OFFSET - r.RANGEWORD \in -6 .. 6
IsCypress(r) == DOMAIN r = CY_REGS /\ \A reg \in CY_REGS : r[reg] \in BYTES
IsChip(c) ==
  /\ DOMAIN c = {"kind", "ram", "rom"}
  /\ \/ c.kind = "none"
     \/ c.kind = "dallas"  /\ IsDallas(c.ram)  /\ IsDallas(c.rom)
     \/ c.kind = "cypress" /\ IsCypress(c.ram) /\ IsCypress(c.rom)

BlankCypress == [reg \in CY_REGS |-> 0]
Programmed(kind, r, f, lim) ==
  LET chip == [kind |-> kind, ram |-> r, rom |-> r]
      ws   == WritesFor(chip, f, "rom", lim) \o WritesFor(chip, f, "ram", lim)
  IN  AfterWrites(chip, ws)[Len(ws)]
Cypress(f) == Programmed("cypress", BlankCypress, f, SETUP_LIMITS)
Dallas(f)  ==
  Programmed("dallas",
    [ADR |-> 8, MUXWORD |-> 0, DACWORD |-> DAC_DEF, OFFSET |-> 16, RANGEWORD |-> 16],
    f, SETUP_LIMITS)
NoChip == [kind |-> "none", ram |-> << >>, rom |-> << >>]
=============================================================================
