------------------------------ MODULE NorFlash ------------------------------
(***************************************************************************)
(* The flash EPROM both flashers write: a NOR chip cut in sectors, with    *)
(* the sector map the drivers carry for each device they know (the table   *)
(* "devices" of flash.s, flash_cf.s and flash.tos/src/flash.h).            *)
(*                                                                         *)
(* A 16-bit word is represented by the set of its bits that are cleared:   *)
(* an erased word (0xFFFF) is {}, and programming can only clear bits, so  *)
(* burning v over w leaves w \cup v.  Addresses count words from the base  *)
(* of the chip.                                                            *)
(***************************************************************************)
EXTENDS Integers

CONSTANTS
  Bits,     \* the bits of a word (16 of them in the chip)
  NSect,    \* number of sectors of the device
  Starts    \* first address of each sector; Starts[NSect + 1] ends the chip

ASSUME NorFlashAssumption ==
  /\ NSect \in Nat \ {0}
  /\ Starts \in [1 .. NSect + 1 -> Nat]
  /\ Starts[1] = 0
  /\ \A i, j \in 1 .. NSect + 1 : i < j => Starts[i] < Starts[j]

Word  == SUBSET Bits
Blank == {}
Addr  == 0 .. Starts[NSect + 1] - 1

Cells(s) == Starts[s] .. Starts[s + 1] - 1

\* mutant: only the first word is tested
FirstBlank(f, s) == f[Starts[s]] = Blank
IsBlank(f, s) == \A a \in Cells(s) : f[a] = Blank

(* The chip's sector erase: every word of the sector reads 0xFFFF. *)
Erased(f, s) == [a \in Addr |-> IF a \in Cells(s) THEN Blank ELSE f[a]]

(* An erase that runs into the chip's time limit (DQ5) clears the words    *)
(* below some point and leaves the others.                                 *)
HalfErased(f, s, upto) ==
  [a \in Addr |-> IF a \in Cells(s) /\ a < upto THEN Blank ELSE f[a]]

(* The chip's word program: bits go from 1 to 0, never back. *)
Burned(w, v) == w \cup v

(* The driver's search (.find_offset): the first sector of the table that  *)
(* starts at or after off.  Only sectors of the chip are entries; NoSector *)
(* stands for the end of the table.                                        *)
NoSector == 0
SectorFrom(off) ==
  IF \E s \in 1 .. NSect : Starts[s] >= off
  THEN CHOOSE s \in 1 .. NSect :
         /\ Starts[s] >= off
         /\ \A t \in 1 .. NSect : Starts[t] >= off => s <= t
  ELSE NoSector
=============================================================================
