------------------------------- MODULE GenTos -------------------------------
(***************************************************************************)
(* gentos.c, the build's last step: TOS 4.04, a new date, the blocks of    *)
(* the patches at the addresses ct60.ld gives them, a checksum of the      *)
(* first half and, at a fixed place, the hardware tests make one file.     *)
(* Sizes and addresses count words; a file may end with half a word.       *)
(***************************************************************************)
EXTENDS NorFlash, Sequences

CONSTANTS
  FlashAdr,   \* FLASH_ADR: an address from here on is one in the flash
  TosHalf,    \* TOS4_SIZE, which is half of the flash
  TosSize,    \* FLASH_SIZE - PARAM_SIZE
  TestsSize,  \* TESTS_SIZE
  Tos404,     \* the word with the version, in TOS 4.04
  DateAt,     \* where TOS keeps its date ...
  Today,      \* ... and the day of the build
  Crc(_)      \* the checksum of a sequence of words

(* A block lies in the buffer: that is left to ct60.ld, and patchTos takes *)
(* at least one of them.                                                   *)
Rebased(adr) == IF adr >= FlashAdr THEN adr - FlashAdr ELSE adr
Block(p) == Rebased(p.adr) .. Rebased(p.adr) + Len(p.data) - 1
IsInput(in) ==
  /\ in.tos \in Seq(Word)
  /\ in.patches \in Seq([adr : Nat, data : Seq(Word)]) \ {<<>>}
  /\ \A i \in DOMAIN in.patches :
        Rebased(in.patches[i].adr) + Len(in.patches[i].data) <= TosSize
  /\ in.tests \in Seq(Word) /\ in.with_tests \in BOOLEAN /\ in.odd \in BOOLEAN

ASSUME GenTosAssumption ==
  /\ TosSize \in 1 .. Starts[NSect + 1] - 1 /\ \E s \in 1 .. NSect : Starts[s] = TosSize
  /\ TosHalf \in 2 .. TosSize /\ TestsSize \in 0 .. TosSize - TosHalf
  /\ FlashAdr \in Nat /\ FlashAdr >= Starts[NSect + 1]
  /\ DateAt \in 0 .. TosHalf - 2 /\ Today \in Word /\ Tos404 \in Word
  /\ \A s \in [1 .. TosHalf - 1 -> Word] : Crc(s) \in Word

NoFile == [data |-> <<>>, odd |-> FALSE]

-----------------------------------------------------------------------------
(* The buffer of the flash: 0xff, TOS and the date.                        *)
loadFile(tos) == [a \in 0 .. TosSize - 1 |-> IF a < Len(tos) THEN tos[a + 1] ELSE Blank]
Dated(buffer) == [buffer EXCEPT ![DateAt] = Today]

(* patchTos: the blocks in their order, and the end of the highest.        *)
memcpy(buffer, p) ==
  [a \in DOMAIN buffer |->
     IF a \in Block(p) THEN p.data[a - Rebased(p.adr) + 1] ELSE buffer[a]]
patchTos(buffer, patches) ==
  LET copied[n \in 0 .. Len(patches)] ==
        IF n = 0 THEN Dated(buffer) ELSE memcpy(copied[n - 1], patches[n])
  IN  copied[Len(patches)]
Top(patches) ==
  LET ends == {Rebased(patches[i].adr) + Len(patches[i].data) : i \in DOMAIN patches}
  IN  CHOOSE n \in ends : \A e \in ends : e <= n
\* mutant: the file ends with the highest patch
TopOnly(patches) == Top(patches)
FlashSize(patches) == IF TosHalf > Top(patches) THEN TosHalf ELSE Top(patches)

(* createChecksum: the last word of the first half.                        *)
createChecksum(buffer) ==
  [buffer EXCEPT ![TosHalf - 1] = Crc([i \in 1 .. TosHalf - 1 |-> buffer[i - 1]])]

Patched(in) == createChecksum(patchTos(loadFile(in.tos), in.patches))

(* The tests, cut to their area; without them the file ends with the code. *)
TestsAt == TosSize - TestsSize
TestsRead(in) == IF Len(in.tests) > TestsSize THEN TestsSize ELSE Len(in.tests)
WithTests(in) ==
  [a \in 0 .. TosSize - 1 |->
     IF a \in TestsAt .. TestsAt + TestsRead(in) - 1 THEN in.tests[a - TestsAt + 1]
     ELSE Patched(in)[a]]

saveFile(buffer, size, odd) == [data |-> [i \in 1 .. size |-> buffer[i - 1]], odd |-> odd]

Refused(in) ==
  \/ Len(in.tos) # TosHalf \/ in.tos[2] # Tos404
  \/ in.with_tests /\ FlashSize(in.patches) > TestsAt
gentos(in) ==
  IF Refused(in) THEN NoFile
  ELSE IF in.with_tests
  THEN saveFile(WithTests(in), TestsAt + TestsRead(in),
                in.odd /\ Len(in.tests) \in 1 .. TestsSize)
  ELSE saveFile(Patched(in), FlashSize(in.patches), FALSE)
=============================================================================
