------------------------------ MODULE FlashTos ------------------------------
(***************************************************************************)
(* flash.ttp, the command line flasher of a CT60 that runs its 68030: it   *)
(* erases the whole TOS area, programs the file and verifies it (flash.c,  *)
(* write.S).  The file is one gentos has made; the user tries again after  *)
(* an error or a power cut, as the program advises.                        *)
(*                                                                         *)
(* The sectors of every table adjoin, so the program loop is one run of    *)
(* addresses.  A chip whose time ran out answers with its status until it  *)
(* is reset: what is read or programmed then may or may not be taken.      *)
(***************************************************************************)
EXTENDS GenTos

CONSTANTS
  Inputs,     \* what gentos is given
  Contents,   \* contents of the chip before
  High,       \* the bits of the first byte of a word
  Tries,      \* 16 attempts at a word
  MaxFaults   \* bound: faults of the chip and power cuts

ASSUME FlashTosAssumption ==
  /\ \A in \in Inputs : IsInput(in)
  /\ Contents \subseteq [Addr -> Word] /\ High \subseteq Bits
  /\ Tries \in Nat \ {0} /\ MaxFaults \in Nat

VARIABLES
  board,               \* a CT60 is there
  flash, chip,         \* its chip: contents; "read", or "failed" after a time-out
  input, file, beyond, \* what gentos is given and makes; the word behind the file in memory
  pc, sect, ptr, retry,
  old, faults          \* history: the contents before; faults so far

vars == <<board, flash, chip, input, file, beyond, pc, sect, ptr, retry, old, faults>>

Init ==
  /\ board \in BOOLEAN
  /\ flash \in Contents /\ old = flash /\ chip = "read"
  /\ input \in Inputs /\ file = NoFile /\ beyond \in Word
  /\ pc = "make" /\ sect = 1 /\ ptr = 0 /\ retry = 0 /\ faults = 0

Make ==
  /\ pc = "make"
  /\ file' = gentos(input)
  /\ pc' = IF Refused(input) THEN "nofile" ELSE "ready"
  /\ UNCHANGED <<board, flash, chip, input, beyond, sect, ptr, retry, old, faults>>

Try ==
  /\ pc \in {"ready", "error"} /\ pc' = "detect"
  /\ UNCHANGED <<board, flash, chip, input, file, beyond, sect, ptr, retry, old, faults>>

-----------------------------------------------------------------------------
(* detect_flash: a bus error without the board; the codes are read and the *)
(* chip is reset, whatever was read.                                       *)
\* mutant: the chip is left as it was found
AsFound == chip
AfterDetect == "read"

detect_flash(known) ==
  /\ pc = "detect"
  /\ IF board
     THEN /\ chip = "read" => known
          /\ chip' = AfterDetect
          /\ pc' = IF known THEN "erase" ELSE "error"
          /\ sect' = 1
     ELSE pc' = "error" /\ UNCHANGED <<chip, sect>>
  /\ UNCHANGED <<board, flash, input, file, beyond, ptr, retry, old, faults>>

(* erase_flash: sector by sector up to the parameters.                     *)
erase_flash ==
  /\ pc = "erase"
  /\ IF Starts[sect] = TosSize
     THEN pc' = "program" /\ ptr' = 0 /\ retry' = Tries - 1 /\ UNCHANGED <<flash, sect>>
     ELSE flash' = Erased(flash, sect) /\ sect' = sect + 1 /\ UNCHANGED <<pc, ptr, retry>>
  /\ UNCHANGED <<board, chip, input, file, beyond, old, faults>>

Fault == faults < MaxFaults /\ faults' = faults + 1

EraseFails(upto) ==
  /\ pc = "erase" /\ Starts[sect] # TosSize /\ Fault
  /\ flash' = HalfErased(flash, sect, upto)
  /\ chip' = "failed" /\ pc' = "error"
  /\ UNCHANGED <<board, input, file, beyond, sect, ptr, retry, old>>

(* program_flash: the count of bytes, less two per word, ends the loop     *)
(* when it is negative: a file of whole words takes one word more.         *)
Count == IF file.odd THEN Len(file.data) ELSE Len(file.data) + 1
Source(i) ==
  IF i = Len(file.data) THEN beyond
  ELSE IF file.odd /\ i = Len(file.data) - 1
  THEN (file.data[i + 1] \cap High) \cup (beyond \ High)
  ELSE file.data[i + 1]

TryAgain ==
  IF retry = 0 THEN pc' = "error" /\ UNCHANGED retry
  ELSE retry' = retry - 1 /\ UNCHANGED pc

program_flash ==
  /\ pc = "program"
  /\ flash' = [flash EXCEPT ![ptr] = Burned(@, Source(ptr))]
  /\ chip' = "read"
  /\ IF flash'[ptr] = Source(ptr)
     THEN /\ ptr' = ptr + 1 /\ retry' = Tries - 1
          /\ pc' = IF ptr + 1 = Count THEN "verify" ELSE "program"
     ELSE TryAgain /\ UNCHANGED ptr
  /\ UNCHANGED <<board, input, file, beyond, sect, old, faults>>

(* A word that failed once may go on failing: it counts as one fault.      *)
WordFails(w) ==
  /\ pc = "program"
  /\ IF retry < Tries - 1 THEN UNCHANGED faults ELSE Fault
  /\ flash[ptr] \subseteq w /\ w \subseteq Burned(flash[ptr], Source(ptr))
  /\ flash' = [flash EXCEPT ![ptr] = w]
  /\ chip' = "failed" /\ TryAgain
  /\ UNCHANGED <<board, input, file, beyond, sect, ptr, old>>

(* verify_flash: the bytes of the file, no others.                         *)
Compared(a) == IF file.odd /\ a = Len(file.data) - 1 THEN High ELSE Bits

verify_flash ==
  /\ pc = "verify"
  /\ pc' = IF \A a \in 0 .. Len(file.data) - 1 :
                flash[a] \cap Compared(a) = file.data[a + 1] \cap Compared(a)
           THEN "ok" ELSE "error"
  /\ UNCHANGED <<board, flash, chip, input, file, beyond, sect, ptr, retry, old, faults>>

(* A word just programmed does not hold.                                   *)
Decay(a, w) ==
  /\ pc = "verify" /\ Fault
  /\ a < Count /\ flash[a] # w /\ a < TosSize
  /\ flash' = [flash EXCEPT ![a] = w]
  /\ UNCHANGED <<board, chip, input, file, beyond, pc, sect, ptr, retry, old>>

(* The power goes between two operations; the user starts anew.            *)
PowerCut ==
  /\ pc \in {"erase", "program", "verify"} /\ Fault
  /\ chip' = "read" /\ pc' = "ready"
  /\ UNCHANGED <<board, flash, input, file, beyond, sect, ptr, retry, old>>

write_flash ==
  \/ \E known \in BOOLEAN : detect_flash(known)
  \/ erase_flash \/ program_flash \/ verify_flash
  \/ \E w \in Word : WordFails(w)

Chip == (\E a \in Addr : EraseFails(a)) \/ (\E a \in Addr, w \in Word : Decay(a, w))

Next == Make \/ Try \/ write_flash \/ Chip \/ PowerCut

Spec     == Init /\ [][Next]_vars
FairSpec == Spec /\ WF_vars(Make) /\ WF_vars(Try) /\ WF_vars(write_flash)

-----------------------------------------------------------------------------
(* Properties.                                                             *)

\* the file of whole words that fills the area: its loop reaches the parameters
Full == ~file.odd /\ Len(file.data) = TosSize

(* "OK" means the machine can start: TOS, every patch where the linker put *)
(* it, the tests at their place and the checksum are in the chip, and the  *)
(* parameters are what they were, unless the file fills the area.          *)
LastPatch(a) ==
  LET over == {i \in DOMAIN input.patches : a \in Block(input.patches[i])}
  IN  input.patches[CHOOSE i \in over : \A j \in over : j <= i]
IsPatched(a) == \E i \in DOMAIN input.patches : a \in Block(input.patches[i])
Code == {a \in 0 .. TosSize - 1 : a # TosHalf - 1 /\ (IsPatched(a) \/ a < TosHalf)}
Holds(a) ==
  CASE IsPatched(a) -> flash[a] = LastPatch(a).data[a - Rebased(LastPatch(a).adr) + 1]
    [] a = DateAt /\ ~IsPatched(a) -> flash[a] = Today
    [] OTHER -> flash[a] = input.tos[a + 1]
TestHolds(i) ==
  LET seen == IF file.odd /\ i = Len(input.tests) THEN High ELSE Bits
  IN  flash[TestsAt + i - 1] \cap seen = input.tests[i] \cap seen
OkIsBootable ==
  pc = "ok" =>
    /\ \A a \in Code : Holds(a)
    /\ flash[TosHalf - 1] = Crc([i \in 1 .. TosHalf - 1 |-> flash[i - 1]])
    /\ input.with_tests => \A i \in 1 .. TestsRead(input) : TestHolds(i)
    /\ ~Full => \A a \in Addr : a >= TosSize => flash[a] = old[a]

(* "Retry", the program says after an error: while the chip can be written *)
(* the user who does so ends with OK, though the error has left the chip   *)
(* in a state that hides it from the next try.                             *)
RetryHeals == board /\ ~Refused(input) => <>(pc = "ok" \/ Full)
=============================================================================
