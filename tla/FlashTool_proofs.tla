-------------------------- MODULE FlashTool_proofs --------------------------
(***************************************************************************)
(* What FLASH060 guarantees for every device, file and machine.  The       *)
(* inductive invariant says where the loop's offset and program_flash's    *)
(* sector can be, how the chip's command state follows the control point,  *)
(* and who agreed to the sector in hand.                                   *)
(***************************************************************************)
EXTENDS FlashTool, TLAPS

(* offset is between sectors or past the end of the loop; program_flash    *)
(* works on the sector that starts there; its result is an error code or   *)
(* the next boundary.                                                      *)
InLoop  == Session \ {"loop", "after"}
InSector == {"erase", "burn", "poll", "verify", "reset"}

Placed ==
  /\ pc = "loop" => offset >= 0 /\ (Boundary(offset) \/ offset >= EndOffset)
  /\ pc \in InLoop => Boundary(offset) /\ 0 <= offset /\ offset < EndOffset
  /\ pc \in InSector => sect # NoSector /\ Starts[sect] = offset
  /\ pc = "erase" => ptr = 0
  /\ pc \in {"burn", "poll"} => ptr < Count(sect)
  /\ pc \in {"reset", "leave"} => ret < 0 \/ Boundary(ret)
  /\ pc = "after" => offset < 0 \/ Boundary(offset)

(* The chip is in its read mode except between a command and its reset. *)
Mode ==
  /\ pc \notin {"identify"} \cup InSector => chip = "read"
  /\ pc \notin Calling => ~irq /\ ~armed

(* The interrupts are masked for the whole call whenever they must be. *)
Masked ==
  /\ pc \in Session => lock_interrupts = LockNeeded
  /\ pc = "identify" => irq = ~Coldfire
  /\ pc \in Calling \ {"identify"} => irq = (lock_interrupts /\ ~Coldfire)

(* The user has agreed to a guarded sector before program_flash is called. *)
Agreed == pc \in Calling \cup {"call"} => (Guarded => ok \/ asked = offset)

IInv == TypeOK /\ Placed /\ Mode /\ Masked /\ Agreed

-----------------------------------------------------------------------------
(* The sector table: starts are ordered, and a boundary below the end of   *)
(* the chip is the start of one sector, which .find_offset finds.          *)
LEMMA TableOrdered ==
  ASSUME NEW s \in 1 .. NSect + 1, NEW t \in 1 .. NSect + 1
  PROVE  /\ Starts[s] \in Nat
         /\ s < t <=> Starts[s] < Starts[t]
         /\ s = t <=> Starts[s] = Starts[t]
         /\ Starts[s] <= Starts[NSect + 1]
<1>1. NSect + 1 \in 1 .. NSect + 1
  BY NorFlashAssumption
<1>2. Starts[s] \in Nat /\ Starts[t] \in Nat /\ Starts[NSect + 1] \in Nat
  BY <1>1, NorFlashAssumption
<1>3. /\ s < t => Starts[s] < Starts[t]
      /\ t < s => Starts[t] < Starts[s]
      /\ s < NSect + 1 => Starts[s] < Starts[NSect + 1]
  BY <1>1, NorFlashAssumption
<1> QED
  BY <1>2, <1>3, NorFlashAssumption

LEMMA BoundaryNat ==
  ASSUME NEW n, Boundary(n)
  PROVE  n \in Nat /\ n <= Starts[NSect + 1]
BY TableOrdered DEF Boundary

LEMMA SectorFound ==
  ASSUME NEW n, Boundary(n), n < Starts[NSect + 1]
  PROVE  LET s == SectorFrom(n)
         IN  /\ s \in 1 .. NSect
             /\ Starts[s] = n
             /\ Boundary(Starts[s + 1])
             /\ Starts[s] < Starts[s + 1]
             /\ Cells(s) \subseteq Addr
<1>1. PICK s \in 1 .. NSect + 1 : Starts[s] = n
  BY DEF Boundary
<1>2. s \in 1 .. NSect
  BY <1>1, NorFlashAssumption
<1>3. \A t \in 1 .. NSect : Starts[t] >= n => s <= t
  BY <1>1, <1>2, TableOrdered, NorFlashAssumption
<1>4. Starts[s] >= n
  BY <1>1, TableOrdered
<1>5. \A u \in 1 .. NSect :
        (Starts[u] >= n /\ \A t \in 1 .. NSect : Starts[t] >= n => u <= t) => u = s
  BY <1>2, <1>3, <1>4, NorFlashAssumption
<1>6. SectorFrom(n) = s
  BY <1>2, <1>3, <1>4, <1>5 DEF SectorFrom
<1>7. s + 1 \in 1 .. NSect + 1 /\ NSect + 1 \in 1 .. NSect + 1
  BY <1>2, NorFlashAssumption
<1>8. /\ Starts[s] < Starts[s + 1] /\ Starts[s + 1] <= Starts[NSect + 1]
      /\ Starts[s] \in Nat /\ Starts[s + 1] \in Nat /\ Starts[NSect + 1] \in Nat
  BY <1>2, <1>7, TableOrdered, NorFlashAssumption
<1>9. Boundary(Starts[s + 1])
  BY <1>7 DEF Boundary
<1>10. Cells(s) \subseteq Addr
  BY <1>8 DEF Cells, Addr
<1> QED
  BY <1>1, <1>2, <1>6, <1>8, <1>9, <1>10

(* The next boundary does not jump over another one. *)
LEMMA NextBoundary ==
  ASSUME NEW s \in 1 .. NSect, NEW n, Boundary(n), Starts[s] < n
  PROVE  Starts[s + 1] <= n
<1>1. PICK t \in 1 .. NSect + 1 : Starts[t] = n
  BY DEF Boundary
<1>2. s \in 1 .. NSect + 1 /\ s + 1 \in 1 .. NSect + 1
  BY NorFlashAssumption
<1>3. s < t
  BY <1>1, <1>2, TableOrdered
<1>4. CASE t = s + 1
  BY <1>1, <1>2, <1>4, TableOrdered
<1>5. CASE s + 1 < t
  BY <1>1, <1>2, <1>5, TableOrdered
<1> QED
  BY <1>2, <1>3, <1>4, <1>5, NorFlashAssumption

(* Where the loop may go. *)
LEMMA LoopEnds ==
  /\ Boundary(EndOffset) /\ EndOffset \in Nat
  /\ EndOffset <= BufEnd /\ BufEnd <= Starts[NSect + 1] /\ BufEnd \in Nat
  /\ Buf \subseteq Addr
<1>1. NSect + 1 \in 1 .. NSect + 1
  BY NorFlashAssumption
<1>2. Boundary(Starts[NSect + 1]) /\ Starts[NSect + 1] \in Nat
  BY <1>1, TableOrdered DEF Boundary
<1>3. Boundary(EndOffset)
  BY <1>2, FlashToolAssumption DEF EndOffset
<1>4. Boundary(TosBase + TosSize) /\ TosBase + TosSize <= Starts[NSect + 1]
  BY BoundaryNat, FlashToolAssumption
<1>5. EndOffset <= BufEnd /\ BufEnd <= Starts[NSect + 1] /\ BufEnd \in Nat
  BY <1>2, <1>4, FlashToolAssumption DEF EndOffset, BufEnd
<1> QED
  BY <1>2, <1>3, <1>5, BoundaryNat DEF Buf, Addr

LEMMA AlignDownNat ==
  ASSUME NEW n \in Nat
  PROVE  AlignDown(n) \in Nat /\ AlignDown(n) % Block = 0
<1>1. Block \in Nat \ {0}
  BY FlashToolAssumption
<1>2. n % Block \in 0 .. Block - 1 /\ n = Block * (n \div Block) + (n % Block)
  BY <1>1
<1>3. n \div Block \in Nat
  BY <1>1
<1>4. \A q \in Nat : Block * q \in Nat /\ (Block * q) % Block = 0
  BY <1>1
<1>5. AlignDown(n) = Block * (n \div Block)
  BY <1>2, <1>3, <1>4 DEF AlignDown
<1> QED
  BY <1>3, <1>4, <1>5

LEMMA LoopStarts ==
  ASSUME start_adr \in Int
  PROVE  /\ StartOffset \in Nat
         /\ Boundary(StartOffset) \/ StartOffset >= EndOffset
<1>1. Boundary(0)
  BY NorFlashAssumption DEF Boundary
<1>2. CASE soft_hard # "HEX"
  BY <1>1, <1>2, FlashToolAssumption DEF StartOffset
<1>3. CASE soft_hard = "HEX"
  <2> DEFINE n == start_adr % Wrap
  <2>1. n \in Nat
    BY FlashToolAssumption
  <2>2. AlignDown(n) \in Nat /\ AlignDown(n) % Block = 0
    BY <2>1, AlignDownNat
  <2>3. AlignDown(n) \in Addr => Boundary(AlignDown(n))
    BY <2>2, FlashToolAssumption
  <2>4. AlignDown(n) \in Addr \/ AlignDown(n) >= EndOffset
    <3> HIDE DEF n
    <3>1. NSect + 1 \in 1 .. NSect + 1
      BY NorFlashAssumption
    <3>2. Starts[NSect + 1] \in Nat
      BY <3>1, TableOrdered
    <3> QED
      BY <2>2, <3>2, LoopEnds DEF Addr
  <2> QED
    BY <1>3, <2>2, <2>3, <2>4 DEF StartOffset
<1> QED
  BY <1>2, <1>3

(* The sector at the loop's offset is inside the chip and the loop's end,  *)
(* and ends between sectors.                                               *)
LEMMA LoopSector ==
  ASSUME Placed, pc \in InLoop
  PROVE  LET s == SectorFrom(offset)
         IN  /\ s \in 1 .. NSect /\ s # NoSector
             /\ Starts[s] = offset /\ offset \in Nat
             /\ Starts[s + 1] \in Nat /\ Boundary(Starts[s + 1])
             /\ offset < Starts[s + 1] /\ Starts[s + 1] <= EndOffset
             /\ Cells(s) \subseteq Addr
<1> DEFINE s == SectorFrom(offset)
<1>1. Boundary(offset) /\ offset < EndOffset
  BY DEF Placed
<1>2. Starts[NSect + 1] \in Nat
  BY TableOrdered, NorFlashAssumption
<1>3. offset \in Nat /\ offset < Starts[NSect + 1]
  BY <1>1, <1>2, LoopEnds, BoundaryNat
<1>4. /\ s \in 1 .. NSect /\ Starts[s] = offset
      /\ Boundary(Starts[s + 1]) /\ Starts[s] < Starts[s + 1]
      /\ Cells(s) \subseteq Addr
  BY <1>1, <1>3, SectorFound
<1>5. Starts[s + 1] <= EndOffset
  <2> HIDE DEF s
  <2> QED
    BY <1>1, <1>4, LoopEnds, NextBoundary
<1>6. s # NoSector
  <2> HIDE DEF s
  <2> QED
    BY <1>4, NorFlashAssumption DEF NoSector
<1> QED
  BY <1>3, <1>4, <1>5, <1>6, BoundaryNat

(* ... and it is the one program_flash works on once it has found it. *)
LEMMA InHand ==
  ASSUME TypeOK, Placed, pc \in InSector
  PROVE  /\ sect = SectorFrom(offset) /\ sect \in 1 .. NSect
         /\ Starts[sect] = offset /\ Starts[sect + 1] \in Nat
         /\ Boundary(Starts[sect + 1]) /\ offset < Starts[sect + 1]
         /\ Starts[sect + 1] <= EndOffset
         /\ Cells(sect) \subseteq Addr
<1>1. sect \in 1 .. NSect /\ Starts[sect] = offset
  BY NorFlashAssumption DEF TypeOK, Placed, NoSector
<1>2. pc \in InLoop
  BY DEF InLoop, InSector, Session
<1>3. SectorFrom(offset) = sect
  <2>1. SectorFrom(offset) \in 1 .. NSect /\ Starts[SectorFrom(offset)] = offset
    BY <1>2, LoopSector
  <2> QED
    BY <1>1, <2>1, TableOrdered, NorFlashAssumption
<1> QED
  BY <1>1, <1>2, <1>3, LoopSector

(* The bounds of the copy loop follow. *)
LEMMA CopyBounds ==
  ASSUME TypeOK, Placed, pc \in {"burn", "poll"}
  PROVE  InBounds /\ Source \in Buf /\ Target \in Addr
<1>1. pc \in InSector /\ ptr < Count(sect) /\ ptr \in Nat /\ offset \in Nat
  BY BoundaryNat DEF InSector, Placed, TypeOK, InLoop, Session
<1>2. ptr < Starts[sect + 1] - Starts[sect]
  BY <1>1, InHand DEF Count, Minimum, TypeOK
<1>3. Target = Source /\ Source \in Nat /\ Source < Starts[sect + 1]
  BY <1>1, <1>2, InHand DEF Target, Source
<1>4. Source \in Buf
  BY <1>1, <1>3, InHand, LoopEnds DEF Buf
<1>5. Target \in Cells(sect)
  BY <1>1, <1>3, InHand DEF Cells, Target
<1> QED
  BY <1>1, <1>3, <1>4, <1>5, InHand DEF InBounds
-----------------------------------------------------------------------------
(* Every step keeps the types. *)

(* What a load leaves in the buffer. *)
LEMMA BuffersTyped ==
  ASSUME TypeOK, NEW f \in Files
  PROVE  /\ f.kind = "BIN" =>
              /\ BinBuffer(f) \in [Buf -> Word] /\ BinLen(f) \in Nat
              /\ f.tos \in BOOLEAN
         /\ f.kind = "HEX" =>
              /\ HexBuffer(f) \in [Buf -> Word]
              /\ f.recs # {} => StartAdr(f) \in Int /\ EndAdr(f) \in Int
<1>1. IsFile(f)
  BY FlashToolAssumption
<1>2. CASE f.kind = "BIN"
  <2>1. f.data \in Seq(Word) /\ f.tos \in BOOLEAN
    BY <1>1, <1>2 DEF IsFile
  <2>2. BinLen(f) \in Nat /\ BinLen(f) <= Len(f.data)
    BY <2>1, FlashToolAssumption DEF BinLen, Minimum
  <2>3. Blank \in Word
    BY DEF Blank, Word
  <2>4. \A i \in Nat : BinWord(f, i) \in Word
    BY <2>1, <2>2, <2>3, FlashToolAssumption DEF BinWord
  <2>5. BinBuffer(f) \in [Buf -> Word]
    BY <2>3, <2>4, LoopEnds, FlashToolAssumption DEF BinBuffer, Buf
  <2> QED
    BY <1>2, <2>1, <2>2, <2>5
<1>3. CASE f.kind = "HEX"
  <2>1. \A r \in f.recs : r.at \in Int /\ r.data \in Seq(Word)
    BY <1>1, <1>3 DEF IsFile
  <2>2. \A r \in f.recs : \A a \in Span(r) : r.data[a - r.at + 1] \in Word
    BY <2>1 DEF Span
  <2>3. \A a \in Buf : flash[a] \in Word
    BY LoopEnds DEF TypeOK
  <2>4. ASSUME NEW a \in Buf, \E r \in f.recs : Stored(r) /\ a \in Span(r)
        PROVE  LET r == CHOOSE r \in f.recs : Stored(r) /\ a \in Span(r)
               IN  r.data[a - r.at + 1] \in Word
    BY <2>2, <2>4
  <2>5. HexBuffer(f) \in [Buf -> Word]
    BY <2>3, <2>4 DEF HexBuffer
  <2>6. ASSUME f.recs # {}
        PROVE  StartAdr(f) \in Int
    <3>1. \E n \in {r.at : r \in f.recs} : \A r \in f.recs : n <= r.at
      BY <1>1, <1>3, <2>6 DEF IsFile
    <3>2. StartAdr(f) \in {r.at : r \in f.recs}
      BY <3>1 DEF StartAdr
    <3> QED
      BY <2>1, <3>2
  <2>7. ASSUME f.recs # {}
        PROVE  EndAdr(f) \in Int
    <3>1. \E n \in {r.at + Len(r.data) : r \in f.recs} :
            \A r \in f.recs : r.at + Len(r.data) <= n
      BY <1>1, <1>3, <2>7 DEF IsFile
    <3>2. EndAdr(f) \in {r.at + Len(r.data) : r \in f.recs}
      BY <3>1 DEF EndAdr
    <3> QED
      BY <2>1, <3>2
  <2> QED
    BY <1>3, <2>5, <2>6, <2>7
<1> QED
  BY <1>2, <1>3

(* The types in two parts: the flags, and the rest. *)
FlagsOK ==
  /\ irq \in BOOLEAN /\ armed \in BOOLEAN /\ file_loaded \in BOOLEAN
  /\ lock_interrupts \in BOOLEAN /\ ok \in BOOLEAN
DataOK ==
  /\ flash \in [Addr -> Word] /\ base \in [Addr -> Word] /\ atload \in [Addr -> Word]
  /\ chip \in {"read", "autoselect", "busy", "failed"} /\ kbd \in {"normal", "paused"}
  /\ machine \in Machines /\ soft_hard \in {"BIN", "HEX", "JED"}
  /\ buffer \in [Buf -> Word] /\ start_adr \in Int /\ size_tos \in Int
  /\ pc \in Session \cup {"idle", "choose", "ask"} /\ offset \in Int
  /\ sect \in 0 .. NSect /\ ptr \in Nat /\ retry \in 0 .. Tries - 1 /\ ret \in Int
  /\ front \in Int /\ asked \in Int /\ faults \in 0 .. MaxFaults
  /\ outcome \in {"none", "done", "declined", "error"}

LEMMA TypeParts == TypeOK <=> FlagsOK /\ DataOK
BY DEF TypeOK, FlagsOK, DataOK

LEMMA FlagsStep ==
  ASSUME FlagsOK, [Next]_vars
  PROVE  FlagsOK'
<1> USE DEF FlagsOK, chipVars, envVars, fileVars, callVars, histVars, loopVars
<1>1. ASSUME NEW f \in Files, LoadBin(f) \/ LoadHex(f) \/ LoadJed(f)
      PROVE  FlagsOK'
  <2>1. f.kind = "BIN" => f.tos \in BOOLEAN
    BY FlashToolAssumption DEF IsFile
  <2> QED
    BY <1>1, <2>1 DEF LoadBin, LoadHex, LoadJed, Loading, Loaded, Forget
<1>2. CASE ToggleDevice \/ Press
  BY <1>2 DEF ToggleDevice, Press
<1>3. CASE CancelLoad \/ Decline
  BY <1>3 DEF CancelLoad, Decline
<1>4. CASE Begin
  BY <1>4 DEF Begin, LockNeeded, Alert060
<1>5. CASE Exhausted \/ Pause \/ PastImage
  BY <1>5 DEF Exhausted, PastImage, Pause, EndLoop, NoLocals
<1>6. CASE Unasked \/ AnswerYes \/ AnswerYesAll \/ AnswerNo
  BY <1>6 DEF Unasked, AnswerYes, AnswerYesAll, AnswerNo, EndLoop, NoLocals
<1>7. CASE Probe
  BY <1>7 DEF Probe
<1>8. CASE BusError
  BY <1>8 DEF BusError
<1>9. ASSUME NEW known \in BOOLEAN, Identify(known)
      PROVE  FlagsOK'
  BY <1>9 DEF Identify
<1>10. CASE FindSector
  BY <1>10 DEF FindSector
<1>11. CASE EraseDone \/ BurnWord \/ WordDone \/ Verify \/ ReadReset
  BY <1>11 DEF EraseDone, BurnWord, WordDone, Verify, ReadReset
<1>12. CASE Leave \/ Resume
  BY <1>12 DEF Leave, Resume, EndLoop, NoLocals
<1>13. CASE Fault
  BY <1>13 DEF Fault, EraseFails, WordFails, Decay, PowerLoss, NoLocals
<1>14. CASE UNCHANGED vars
  BY <1>14 DEF vars
<1> QED
  BY <1>1, <1>2, <1>3, <1>4, <1>5, <1>6, <1>7, <1>8, <1>9, <1>10, <1>11, <1>12, <1>13,
     <1>14
  DEF Next, Load, Tool

(* The data keep their types because the copy loop stays in its bounds. *)
LEMMA DataStep ==
  ASSUME TypeOK, Placed, [Next]_vars
  PROVE  DataOK'
<1> DataOK /\ FlagsOK
  BY TypeParts
<1> USE DEF DataOK, Session, chipVars, envVars, fileVars, callVars, histVars, loopVars
<1>1. ASSUME NEW f \in Files, LoadBin(f)
      PROVE  DataOK'
  BY <1>1, BuffersTyped DEF LoadBin, Loading, Loaded, Forget
<1>2. ASSUME NEW f \in Files, LoadHex(f)
      PROVE  DataOK'
  BY <1>2, BuffersTyped DEF LoadHex, Loading, Loaded, Forget
<1>3. ASSUME NEW f \in Files, LoadJed(f)
      PROVE  DataOK'
  BY <1>3 DEF LoadJed, Loading, Loaded, Forget
<1>4. CASE ToggleDevice \/ Press
  BY <1>4 DEF ToggleDevice, Press, Forget
<1>5. CASE CancelLoad \/ Decline
  BY <1>5 DEF CancelLoad, Decline
<1>6. CASE Begin
  <2>1. StartOffset \in Nat
    BY LoopStarts
  <2>2. SizeAtStart \in Int
    BY FlashToolAssumption DEF SizeAtStart, AlignUp, AlignDown
  <2> QED
    BY <1>6, <2>1, <2>2 DEF Begin
<1>7. CASE Exhausted \/ PastImage
  BY <1>7 DEF Exhausted, PastImage, EndLoop, NoLocals
<1>8. CASE Pause
  BY <1>8 DEF Pause
<1>9. CASE Unasked \/ AnswerYes \/ AnswerYesAll
  BY <1>9 DEF Unasked, AnswerYes, AnswerYesAll
<1>10. CASE AnswerNo
  BY <1>10 DEF AnswerNo, EndLoop, NoLocals
<1>11. CASE Probe
  BY <1>11 DEF Probe
<1>12. CASE BusError
  BY <1>12 DEF BusError, ERR_CT60
<1>13. ASSUME NEW known \in BOOLEAN, Identify(known)
       PROVE  DataOK'
  BY <1>13 DEF Identify, ERR_DEVICE
<1>14. CASE FindSector
  <2> DEFINE s == SectorFrom(offset)
  <2>1. s \in 1 .. NSect /\ NextOffset(s) \in Int
    BY <1>14, LoopSector DEF FindSector, InLoop, NextOffset
  <2>2. Tries - 1 \in 0 .. Tries - 1
    BY FlashToolAssumption
  <2>3. s \in 0 .. NSect /\ s # NoSector
    BY <2>1, NorFlashAssumption DEF NoSector
  <2>4. /\ sect' = s /\ ptr' = 0 /\ retry' = Tries - 1
        /\ UNCHANGED <<flash, kbd, machine, fileVars, loopVars, histVars, faults>>
    BY <1>14 DEF FindSector
  <2>5. /\ pc' \in Session /\ chip' \in {chip, "busy"}
        /\ ret' \in {ret, NextOffset(s)}
    <3> HIDE DEF s
    <3> QED
      BY <1>14, <2>3 DEF FindSector, Program, s
  <2> HIDE DEF s
  <2> QED
    BY <2>1, <2>2, <2>3, <2>4, <2>5
<1>15. CASE EraseDone
  <2>1. NextOffset(sect) \in Int
    BY <1>15, InHand DEF EraseDone, InSector, NextOffset
  <2>2. Erased(flash, sect) \in [Addr -> Word]
    BY DEF Erased, Blank, Word
  <2> QED
    BY <1>15, <2>1, <2>2 DEF EraseDone, Program
<1>16. CASE BurnWord
  BY <1>16 DEF BurnWord
<1>17. CASE WordDone
  <2>1. buffer[Source] \in Word /\ flash[Target] \in Word
    BY <1>17, CopyBounds DEF WordDone
  <2>2. Burned(flash[Target], buffer[Source]) \in Word
    BY <2>1 DEF Burned, Word
  <2>3. [flash EXCEPT ![Target] = Burned(@, buffer[Source])] \in [Addr -> Word]
    BY <2>2
  <2>4. Tries - 1 \in 0 .. Tries - 1
    BY FlashToolAssumption
  <2> QED
    BY <1>17, <2>3, <2>4 DEF WordDone, TryAgain, ERR_PROGRAM
<1>18. CASE Verify
  BY <1>18, InHand DEF Verify, InSector, NextOffset, ERR_VERIFY
<1>19. CASE ReadReset
  BY <1>19 DEF ReadReset
<1>20. CASE Leave
  BY <1>20, NorFlashAssumption, FlashToolAssumption DEF Leave, NoRegisters, NoSector
<1>21. CASE Resume
  BY <1>21 DEF Resume, EndLoop, NoLocals
<1>22. ASSUME NEW n, EraseFails(n)
       PROVE  DataOK'
  <2>1. HalfErased(flash, sect, n) \in [Addr -> Word]
    BY DEF HalfErased, Blank, Word
  <2> QED
    BY <1>22, <2>1, FlashToolAssumption DEF EraseFails, ERR_ERASE
<1>23. ASSUME NEW w \in Word, WordFails(w)
       PROVE  DataOK'
  <2>1. [flash EXCEPT ![Target] = w] \in [Addr -> Word]
    OBVIOUS
  <2> QED
    BY <1>23, <2>1, FlashToolAssumption DEF WordFails, TryAgain, ERR_PROGRAM
<1>24. ASSUME NEW a, NEW w \in Word, Decay(a, w)
       PROVE  DataOK'
  <2>1. [flash EXCEPT ![a] = w] \in [Addr -> Word]
    OBVIOUS
  <2> QED
    BY <1>24, <2>1, FlashToolAssumption DEF Decay
<1>25. CASE PowerLoss
  BY <1>25, NorFlashAssumption, FlashToolAssumption
  DEF PowerLoss, NoLocals, NoRegisters, NoSector, Forget
<1>26. CASE UNCHANGED vars
  BY <1>26 DEF vars
<1> QED
  BY <1>1, <1>2, <1>3, <1>4, <1>5, <1>6, <1>7, <1>8, <1>9, <1>10, <1>11, <1>12, <1>13,
     <1>14, <1>15, <1>16, <1>17, <1>18, <1>19, <1>20, <1>21, <1>22, <1>23, <1>24,
     <1>25, <1>26
  DEF Next, Load, Tool, Fault

LEMMA TypeStep ==
  ASSUME TypeOK, Placed, [Next]_vars
  PROVE  TypeOK'
<1>1. FlagsOK' /\ DataOK'
  BY TypeParts, FlagsStep, DataStep
<1> QED
  BY <1>1 DEF TypeOK, FlagsOK, DataOK

-----------------------------------------------------------------------------
(* Every step leaves the loop and the call where they may be. *)

(* The constants of the loop do not change during an update. *)
LEMMA BoundsKept ==
  ASSUME soft_hard' = soft_hard
  PROVE  EndOffset' = EndOffset
BY DEF EndOffset

LEMMA PlacedStep ==
  ASSUME TypeOK, Placed, [Next]_vars
  PROVE  Placed'
<1> USE DEF Session, InLoop, InSector, chipVars, envVars, fileVars, callVars,
            histVars, loopVars
<1>1. CASE pc' \in {"idle", "choose", "ask"}
  BY <1>1 DEF Placed
<1>2. CASE Begin
  BY <1>2, LoopStarts, BoundsKept DEF Begin, Placed, TypeOK
<1>3. CASE Pause
  BY <1>3, BoundsKept, LoopEnds DEF Pause, Placed, TypeOK
<1>4. CASE Unasked \/ AnswerYes \/ AnswerYesAll \/ Probe
  BY <1>4, BoundsKept DEF Unasked, AnswerYes, AnswerYesAll, Asking, Probe, Placed
<1>5. CASE BusError
  BY <1>5, BoundsKept DEF BusError, Placed, ERR_CT60
<1>6. ASSUME NEW known \in BOOLEAN, Identify(known)
      PROVE  Placed'
  BY <1>6, BoundsKept DEF Identify, Placed, ERR_DEVICE
<1>7. CASE FindSector
  <2> DEFINE s == SectorFrom(offset)
  <2>1. /\ s \in 1 .. NSect /\ s # NoSector /\ Starts[s] = offset
        /\ Boundary(Starts[s + 1])
    BY <1>7, LoopSector DEF FindSector
  <2>2. Count(s) \in Int
    BY <1>7, LoopSector DEF FindSector, Count, Minimum, TypeOK
  <2>3. /\ sect' = s /\ ptr' = 0 /\ offset' = offset
        /\ pc = "sector" /\ pc' \in {"reset", "burn", "erase"}
        /\ pc' = "burn" => 0 < Count(s)
        /\ pc' = "reset" => ret' = Starts[s + 1]
    <3> HIDE DEF s
    <3> QED
      BY <1>7, <2>1, <2>2 DEF FindSector, Program, NextOffset, s
  <2>4. EndOffset' = EndOffset /\ Count(sect)' = Count(s)
    BY <1>7, <2>3 DEF FindSector, EndOffset, Count
  <2> HIDE DEF s
  <2> QED
    BY <2>1, <2>3, <2>4 DEF Placed
<1>8. CASE EraseDone
  <2>1. Boundary(Starts[sect + 1]) /\ Count(sect) \in Int
    BY <1>8, InHand DEF EraseDone, Count, Minimum, TypeOK
  <2>2. Count(sect)' = Count(sect) /\ sect' = sect
    BY <1>8 DEF EraseDone, Count
  <2> QED
    BY <1>8, <2>1, <2>2, BoundsKept DEF EraseDone, Program, NextOffset, Placed
<1>9. CASE BurnWord
  BY <1>9, BoundsKept DEF BurnWord, Placed, Count
<1>10. CASE WordDone
  BY <1>10, BoundsKept DEF WordDone, TryAgain, Placed, Count, ERR_PROGRAM
<1>11. CASE Verify
  <2>1. Boundary(Starts[sect + 1])
    BY <1>11, InHand DEF Verify
  <2> QED
    BY <1>11, <2>1, BoundsKept DEF Verify, NextOffset, Placed, ERR_VERIFY
<1>12. CASE ReadReset
  BY <1>12, BoundsKept DEF ReadReset, Placed
<1>13. CASE Leave
  BY <1>13 DEF Leave, Placed
<1>14. CASE Resume
  <2>1. CASE offset < 0
    BY <1>14, <2>1 DEF Resume, EndLoop, Placed
  <2>2. CASE offset >= 0
    BY <1>14, <2>2, BoundsKept DEF Resume, EndLoop, Placed
  <2> QED
    BY <2>1, <2>2 DEF TypeOK
<1>15. ASSUME NEW n, EraseFails(n)
       PROVE  Placed'
  BY <1>15, BoundsKept DEF EraseFails, Placed, ERR_ERASE
<1>16. ASSUME NEW w \in Word, WordFails(w)
       PROVE  Placed'
  BY <1>16, BoundsKept DEF WordFails, TryAgain, Placed, Count, ERR_PROGRAM
<1>17. ASSUME NEW a, NEW w \in Word, Decay(a, w)
       PROVE  Placed'
  BY <1>17, BoundsKept DEF Decay, Placed, Count
<1>18. CASE UNCHANGED vars
  BY <1>18, BoundsKept DEF vars, Placed, Count
<1>19. \/ pc' \in {"idle", "choose", "ask"}
       \/ Tool \/ Fault \/ UNCHANGED vars
  BY DEF Next, Load, LoadBin, LoadHex, LoadJed, Loading, ToggleDevice, Press
<1>20. PowerLoss \/ CancelLoad \/ Decline \/ Exhausted \/ PastImage \/ AnswerNo
       => pc' \in {"idle", "choose", "ask"}
  BY DEF PowerLoss, CancelLoad, Decline, Exhausted, PastImage, AnswerNo, EndLoop
<1> QED
  BY <1>1, <1>2, <1>3, <1>4, <1>5, <1>6, <1>7, <1>8, <1>9, <1>10, <1>11, <1>12, <1>13,
     <1>14, <1>15, <1>16, <1>17, <1>18, <1>19, <1>20
  DEF Tool, Fault

-----------------------------------------------------------------------------
(* Every exit of program_flash restores the chip and the processor. *)
LEMMA ModeStep ==
  ASSUME TypeOK, Placed, Mode, [Next]_vars
  PROVE  Mode'
<1> USE DEF Mode, InSector, Calling, chipVars, envVars, fileVars, callVars, histVars,
            loopVars
<1>1. CASE Load
  <2>1. PICK f \in Files : Loading(f)
    BY <1>1 DEF Load, LoadBin, LoadHex, LoadJed
  <2>2. /\ pc \in {"idle", "choose"} /\ pc' \in {"idle", "ask"}
        /\ chip' = chip /\ irq' = irq /\ armed' = armed
    BY <2>1 DEF Loading
  <2> QED
    BY <2>2
<1>2. CASE ToggleDevice \/ Press \/ CancelLoad \/ Decline \/ Begin
  BY <1>2 DEF ToggleDevice, Press, CancelLoad, Decline, Begin
<1>3. CASE Exhausted \/ Pause \/ PastImage
  BY <1>3 DEF Exhausted, Pause, PastImage, EndLoop
<1>4. CASE Unasked \/ AnswerYes \/ AnswerYesAll \/ AnswerNo
  BY <1>4 DEF Unasked, AnswerYes, AnswerYesAll, AnswerNo, Asking, EndLoop
<1>5. CASE Probe \/ BusError
  BY <1>5 DEF Probe, BusError
<1>6. ASSUME NEW known \in BOOLEAN, Identify(known)
      PROVE  Mode'
  BY <1>6 DEF Identify
<1>7. CASE FindSector
  BY <1>7 DEF FindSector, Program
<1>8. CASE EraseDone \/ BurnWord \/ WordDone
  BY <1>8 DEF EraseDone, Program, BurnWord, WordDone, TryAgain
<1>9. CASE Verify \/ ReadReset \/ Leave \/ Resume
  BY <1>9 DEF Verify, ReadReset, Leave, Resume, EndLoop
<1>10. CASE Fault
  BY <1>10 DEF Fault, EraseFails, WordFails, TryAgain, Decay, PowerLoss
<1>11. CASE UNCHANGED vars
  BY <1>11 DEF vars
<1> QED
  BY <1>1, <1>2, <1>3, <1>4, <1>5, <1>6, <1>7, <1>8, <1>9, <1>10, <1>11
  DEF Next, Tool

(* The interrupts stay masked through the whole call when they must. *)
LEMMA MaskedStep ==
  ASSUME TypeOK, Placed, Masked, [Next]_vars
  PROVE  Masked'
<1> USE DEF Masked, Session, Calling, chipVars, envVars, fileVars, callVars, histVars,
            loopVars
<1>1. machine' = machine => LockNeeded' = LockNeeded
  BY DEF LockNeeded, Alert060
<1>2. CASE pc' \in {"idle", "choose", "ask"}
  BY <1>2
<1>3. CASE Begin
  BY <1>1, <1>3 DEF Begin
<1>4. CASE Pause \/ Unasked \/ AnswerYes \/ AnswerYesAll
  BY <1>1, <1>4 DEF Pause, Unasked, AnswerYes, AnswerYesAll, Asking
<1>5. CASE Probe
  BY <1>1, <1>5 DEF Probe
<1>6. CASE BusError
  BY <1>1, <1>6 DEF BusError, TypeOK
<1>7. ASSUME NEW known \in BOOLEAN, Identify(known)
      PROVE  Masked'
  BY <1>1, <1>7 DEF Identify
<1>8. CASE FindSector
  BY <1>1, <1>8 DEF FindSector, Program
<1>9. CASE EraseDone \/ BurnWord \/ WordDone
  BY <1>1, <1>9 DEF EraseDone, Program, BurnWord, WordDone, TryAgain
<1>10. CASE Verify \/ ReadReset \/ Leave
  BY <1>1, <1>10 DEF Verify, ReadReset, Leave
<1>11. CASE Resume
  BY <1>1, <1>11 DEF Resume, EndLoop
<1>12. ASSUME NEW n, EraseFails(n)
       PROVE  Masked'
  BY <1>1, <1>12 DEF EraseFails
<1>13. ASSUME NEW w \in Word, WordFails(w)
       PROVE  Masked'
  BY <1>1, <1>13 DEF WordFails, TryAgain
<1>14. ASSUME NEW a, NEW w \in Word, Decay(a, w)
       PROVE  Masked'
  BY <1>1, <1>14 DEF Decay
<1>15. CASE UNCHANGED vars
  BY <1>1, <1>15 DEF vars
<1>16. \/ pc' \in {"idle", "choose", "ask"}
       \/ Tool \/ Fault \/ UNCHANGED vars
  BY DEF Next, Load, LoadBin, LoadHex, LoadJed, Loading, ToggleDevice, Press
<1>17. PowerLoss \/ CancelLoad \/ Decline \/ Exhausted \/ PastImage \/ AnswerNo
       => pc' \in {"idle", "choose", "ask"}
  BY DEF PowerLoss, CancelLoad, Decline, Exhausted, PastImage, AnswerNo, EndLoop
<1> QED
  BY <1>2, <1>3, <1>4, <1>5, <1>6, <1>7, <1>8, <1>9, <1>10, <1>11, <1>12, <1>13, <1>14,
     <1>15, <1>16, <1>17
  DEF Tool, Fault

(* Consent given for a sector lasts until program_flash has left it. *)
LEMMA AgreedStep ==
  ASSUME TypeOK, Placed, Agreed, [Next]_vars
  PROVE  Agreed'
<1> USE DEF Agreed, Calling, Guarded, chipVars, envVars, fileVars, callVars, histVars,
            loopVars
<1>1. CASE pc' \notin Calling \cup {"call"}
  BY <1>1
<1>2. CASE Unasked
  BY <1>2 DEF Unasked, Asking
<1>3. CASE AnswerYes \/ AnswerYesAll
  BY <1>3 DEF AnswerYes, AnswerYesAll
<1>4. ASSUME pc \in Calling \cup {"call"}, UNCHANGED <<offset, ok, asked>>
      PROVE  Agreed'
  BY <1>4
<1>5. CASE Probe \/ BusError \/ \E known \in BOOLEAN : Identify(known)
  BY <1>4, <1>5 DEF Probe, BusError, Identify
<1>6. CASE FindSector \/ EraseDone \/ BurnWord \/ WordDone \/ Verify \/ ReadReset
  BY <1>4, <1>6 DEF FindSector, EraseDone, BurnWord, WordDone, Verify, ReadReset
<1>7. CASE Fault
  BY <1>1, <1>4, <1>7 DEF Fault, EraseFails, WordFails, Decay, PowerLoss
<1>8. CASE UNCHANGED vars
  BY <1>8 DEF vars
<1>9. \/ pc' \notin Calling \cup {"call"}
      \/ Tool \/ Fault \/ UNCHANGED vars
  BY DEF Next, Load, LoadBin, LoadHex, LoadJed, Loading, ToggleDevice, Press
<1>10. \/ CancelLoad \/ Decline \/ Begin \/ Exhausted \/ Pause \/ PastImage
       \/ AnswerNo \/ Leave \/ Resume
       => pc' \notin Calling \cup {"call"}
  BY DEF CancelLoad, Decline, Begin, Exhausted, Pause, PastImage, AnswerNo, Leave,
         Resume, EndLoop
<1> QED
  BY <1>1, <1>2, <1>3, <1>5, <1>6, <1>7, <1>8, <1>9, <1>10 DEF Tool

-----------------------------------------------------------------------------
(* The invariant holds throughout. *)
LEMMA InvInit == Init => IInv
<1> SUFFICES ASSUME Init PROVE IInv
  OBVIOUS
<1> USE DEF Init
<1>1. FlagsOK
  BY DEF FlagsOK
<1>2. PICK f \in Factory : buffer = [a \in Buf |-> f[a]]
  OBVIOUS
<1>3. flash \in [Addr -> Word] /\ buffer \in [Buf -> Word]
  <2>1. f \in [Addr -> Word] /\ flash \in [Addr -> Word]
    BY FlashToolAssumption
  <2> QED
    BY <1>2, <2>1, LoopEnds
<1>4. DataOK
  BY <1>3, NorFlashAssumption, FlashToolAssumption DEF DataOK, NoSector, Session
<1>5. TypeOK
  BY <1>1, <1>4, TypeParts
<1>6. Placed /\ Mode
  BY DEF Placed, Mode, Session, InLoop, InSector, Calling
<1>7. Masked /\ Agreed
  BY DEF Masked, Agreed, Session, Calling
<1> QED
  BY <1>5, <1>6, <1>7 DEF IInv

THEOREM Invariant == Spec => []IInv
<1>1. Init => IInv
  BY InvInit
<1>2. IInv /\ [Next]_vars => IInv'
  BY TypeStep, PlacedStep, ModeStep, MaskedStep, AgreedStep DEF IInv
<1> QED
  BY <1>1, <1>2, PTL DEF Spec

(* The types hold for every device, file and machine. *)
THEOREM TypeCorrect == Spec => []TypeOK
<1>1. IInv => TypeOK
  BY DEF IInv
<1> QED
  BY <1>1, Invariant, PTL

(* program_flash stays inside buffer_flash and inside the sector in hand. *)
THEOREM CopyInBounds == Spec => []InBounds
<1>1. IInv => InBounds
  BY CopyBounds DEF IInv, InBounds
<1> QED
  BY <1>1, Invariant, PTL

(* Every exit from program_flash leaves the chip answering reads, the      *)
(* interrupts free and the cache or the write protection restored.         *)
THEOREM AlwaysRestored == Spec => []Restored
<1>1. IInv => Restored
  BY DEF IInv, Mode, Restored, Calling, InSector
<1> QED
  BY <1>1, Invariant, PTL

(* While the chip does not answer reads, the CT60 that runs TOS from it    *)
(* serves no interrupt.                                                    *)
THEOREM NeverFetchesStatus == Spec => []FetchSafe
<1>1. ASSUME IInv, ~Coldfire, Alert060, ~machine.magx, chip # "read"
      PROVE  irq
  <2>1. pc = "identify" \/ pc \in InSector
    BY <1>1 DEF IInv, Mode
  <2>2. LockNeeded
    BY <1>1 DEF LockNeeded
  <2>3. CASE pc = "identify"
    BY <1>1, <2>3 DEF IInv, Masked
  <2>4. CASE pc \in InSector
    <3>1. pc \in Session /\ pc \in Calling \ {"identify"}
      BY <2>4 DEF InSector, Session, Calling
    <3> QED
      BY <1>1, <2>2, <3>1 DEF IInv, Masked
  <2> QED
    BY <2>1, <2>3, <2>4
<1>2. IInv => FetchSafe
  BY <1>1 DEF FetchSafe
<1> QED
  BY <1>2, Invariant, PTL

-----------------------------------------------------------------------------
(* What a step may change in the chip: words of the sector in hand only.   *)
LEMMA OnlySectorInHand ==
  ASSUME IInv, [Next]_vars, NEW a \in Addr, flash'[a] # flash[a]
  PROVE  pc \in InSector /\ a \in Cells(sect)
<1> USE DEF IInv, InSector, chipVars, envVars, fileVars, callVars, histVars, loopVars
<1>1. EraseDone \/ WordDone \/ Fault
  BY DEF Next, Load, LoadBin, LoadHex, LoadJed, Loading, ToggleDevice, Press, Tool,
         CancelLoad, Decline, Begin, Exhausted, Pause, PastImage, Unasked, AnswerYes,
         AnswerYesAll, AnswerNo, Probe, BusError, Identify, FindSector, BurnWord,
         Verify, ReadReset, Leave, Resume, vars
<1>2. CASE EraseDone
  BY <1>2 DEF EraseDone, Erased
<1>3. CASE WordDone
  BY <1>3, CopyBounds DEF WordDone, TypeOK, InBounds
<1>4. CASE Fault
  <2>1. ASSUME NEW n, EraseFails(n)
        PROVE  pc \in InSector /\ a \in Cells(sect)
    BY <2>1 DEF EraseFails, HalfErased
  <2>2. ASSUME NEW w \in Word, WordFails(w)
        PROVE  pc \in InSector /\ a \in Cells(sect)
    BY <2>2, CopyBounds DEF WordFails, TypeOK, InBounds
  <2>3. ASSUME NEW b \in Cells(sect), NEW w \in Word, Decay(b, w)
        PROVE  pc \in InSector /\ a \in Cells(sect)
    BY <2>3 DEF Decay, TypeOK
  <2>4. ~PowerLoss
    BY DEF PowerLoss
  <2> QED
    BY <1>4, <2>1, <2>2, <2>3, <2>4 DEF Fault
<1> QED
  BY <1>1, <1>2, <1>3, <1>4

(* On a CT60 the parameter sector is never written. *)
THEOREM ParametersKept == Spec => ParamKept
<1>1. ASSUME IInv, [Next]_vars, ~Coldfire, NEW a \in Addr, a >= TosSize
      PROVE  flash'[a] = flash[a]
  <2> SUFFICES ASSUME flash'[a] # flash[a]
               PROVE  FALSE
    OBVIOUS
  <2>1. pc \in InSector /\ a \in Cells(sect)
    BY <1>1, OnlySectorInHand
  <2>2. Starts[sect + 1] <= EndOffset /\ Starts[sect + 1] \in Nat /\ EndOffset = TosSize
    BY <1>1, <2>1, InHand DEF IInv, EndOffset
  <2> QED
    BY <1>1, <2>1, <2>2, FlashToolAssumption DEF Cells, Addr
<1>2. IInv /\ [Next]_vars => (~Coldfire => \A a \in Addr : a >= TosSize => flash'[a] = flash[a])
  BY <1>1
<1> QED
  BY <1>2, Invariant, PTL DEF Spec, ParamKept

(* On a FireBee no guarded word changes without the user's consent. *)
THEOREM GuardedNeedConsent == Spec => GuardedSectors
<1>1. ASSUME IInv, [Next]_vars, Coldfire, NEW a \in Addr, flash'[a] # flash[a],
             a < GuardLow \/ a >= GuardHigh
      PROVE  ok \/ asked = offset
  <2>1. pc \in InSector /\ a \in Cells(sect)
    BY <1>1, OnlySectorInHand
  <2>2. /\ Starts[sect] = offset /\ sect \in 1 .. NSect
        /\ Starts[sect + 1] \in Nat /\ offset < Starts[sect + 1] /\ offset \in Int
    BY <1>1, <2>1, InHand DEF IInv, TypeOK
  <2>3. a >= offset /\ a < Starts[sect + 1] /\ a \in Int
    BY <2>1, <2>2 DEF Cells
  <2>4. offset < GuardLow \/ offset >= GuardHigh
    <3>1. CASE a < GuardLow
      BY <2>2, <2>3, <3>1, FlashToolAssumption
    <3>2. CASE a >= GuardHigh
      <4>1. Boundary(GuardHigh) /\ GuardHigh \in Nat
        BY FlashToolAssumption
      <4>2. offset < GuardHigh => Starts[sect + 1] <= GuardHigh
        BY <2>2, <4>1, NextBoundary
      <4> QED
        BY <2>2, <2>3, <3>2, <4>1, <4>2
    <3> QED
      BY <1>1, <3>1, <3>2
  <2>5. Guarded
    BY <1>1, <2>4 DEF Guarded
  <2>6. pc \in Calling
    BY <2>1 DEF InSector, Calling
  <2> QED
    BY <1>1, <2>5, <2>6 DEF IInv, Agreed
<1>2. IInv /\ [Next]_vars =>
        \A a \in Addr :
          Coldfire /\ flash'[a] # flash[a] /\ (a < GuardLow \/ a >= GuardHigh)
            => ok \/ asked = offset
  BY <1>1
<1> QED
  BY <1>2, Invariant, PTL DEF Spec, GuardedSectors

-----------------------------------------------------------------------------
(***************************************************************************)
(* The update sweeps the chip from its start to its end, one sector at a   *)
(* time: behind the frontier the chip holds the image, ahead of its sector *)
(* it holds what it held.  Hence an update that ends without a message has *)
(* written the whole image.                                                *)
(***************************************************************************)

(* What the sweep leaves at address a. *)
Image(a) == IF a < size_tos THEN buffer[a] ELSE Blank

Active == pc \in Session \/ outcome # "none"

(* The two halves of SectorPrefix. *)
Behind == \A a \in Addr : StartOffset <= a /\ a < front => flash[a] = Image(a)
Ahead ==
  LET s == SectorFrom(front)
  IN  \A a \in Addr : a < StartOffset \/ (s # NoSector /\ a >= Starts[s + 1])
                        => flash[a] = base[a]

(* The frontier is the loop's offset, until program_flash fails. *)
Frontier ==
  /\ outcome # "none" => pc = "idle"
  /\ Active => StartOffset <= front
  /\ pc \in Session => front = offset \/ (pc = "after" /\ offset < 0)
  /\ outcome = "done" => front >= EndOffset \/ front >= size_tos

(* Past the image's end the sector in hand is blank once it is erased; when *)
(* program_flash has a new offset to return, the sector holds its image.   *)
Sector ==
  /\ pc \in {"burn", "poll", "verify"} =>
       \A a \in Cells(sect) : a >= size_tos => flash[a] = Blank
  /\ pc \in {"reset", "leave"} /\ ret >= 0 =>
       /\ sect = SectorFrom(offset) /\ ret = Starts[sect + 1]
       /\ \A a \in Cells(sect) : flash[a] = Image(a)

Swept == (Active => Behind /\ Ahead) /\ Frontier /\ Sector

-----------------------------------------------------------------------------
(* Which step may do what. *)

(* During an update, only its own steps, which keep the image and the      *)
(* record of what was found; only Leave moves the frontier.                *)
LEMMA SessionStep ==
  ASSUME [Next]_vars, pc \in Session, Active'
  PROVE  /\ UNCHANGED <<buffer, start_adr, size_tos, soft_hard, base>>
         /\ UNCHANGED front \/ Leave
<1> USE DEF Session, Active, chipVars, envVars, fileVars, callVars, histVars, loopVars
<1>1. CASE Exhausted \/ Pause \/ PastImage
  BY <1>1 DEF Exhausted, Pause, PastImage
<1>2. CASE Unasked \/ AnswerYes \/ AnswerYesAll \/ AnswerNo
  BY <1>2 DEF Unasked, AnswerYes, AnswerYesAll, AnswerNo
<1>3. CASE Probe \/ BusError \/ \E known \in BOOLEAN : Identify(known)
  BY <1>3 DEF Probe, BusError, Identify
<1>4. CASE FindSector \/ EraseDone \/ BurnWord \/ WordDone \/ Verify \/ ReadReset
  BY <1>4 DEF FindSector, EraseDone, BurnWord, WordDone, Verify, ReadReset
<1>5. CASE Leave \/ Resume
  BY <1>5 DEF Leave, Resume
<1>6. CASE Fault
  BY <1>6 DEF Fault, EraseFails, WordFails, Decay, PowerLoss
<1>7. CASE UNCHANGED vars
  BY <1>7 DEF vars
<1>8. ~(Load \/ ToggleDevice \/ Press \/ CancelLoad \/ Decline \/ Begin)
  BY DEF Load, LoadBin, LoadHex, LoadJed, Loading, ToggleDevice, Press, CancelLoad,
         Decline, Begin
<1> QED
  BY <1>1, <1>2, <1>3, <1>4, <1>5, <1>6, <1>7, <1>8 DEF Next, Tool

(* Outside an update, only Begin starts one, and the record of the last    *)
(* one lasts only as long as nothing is loaded or pressed.                 *)
LEMMA IdleStep ==
  ASSUME Frontier, [Next]_vars, pc \notin Session, Active'
  PROVE  \/ Begin
         \/ /\ Active /\ pc' = pc /\ outcome' = outcome
            /\ UNCHANGED <<flash, buffer, start_adr, size_tos, soft_hard, base, front>>
<1> USE DEF Session, Active, chipVars, envVars, fileVars, callVars, histVars, loopVars
<1>1. CASE ToggleDevice
  BY <1>1 DEF ToggleDevice
<1>2. CASE UNCHANGED vars
  BY <1>2 DEF vars
<1>3. ~(Load \/ Press \/ CancelLoad \/ Decline)
  BY DEF Load, LoadBin, LoadHex, LoadJed, Loading, Press, CancelLoad, Decline, Frontier
<1>4. ~Fault
  BY DEF Fault, EraseFails, WordFails, Decay, PowerLoss
<1>5. ~(Tool /\ ~CancelLoad /\ ~Decline /\ ~Begin)
  BY DEF Tool, Exhausted, Pause, PastImage, Unasked, AnswerYes, AnswerYesAll, AnswerNo,
         Asking, Probe, BusError, Identify, FindSector, EraseDone, BurnWord, WordDone,
         Verify, ReadReset, Leave, Resume
<1> QED
  BY <1>1, <1>2, <1>3, <1>4, <1>5 DEF Next, Tool

LEMMA OffsetsKept ==
  ASSUME UNCHANGED <<start_adr, soft_hard>>
  PROVE  StartOffset' = StartOffset /\ EndOffset' = EndOffset
BY DEF StartOffset, EndOffset

LEMMA ImageKept ==
  ASSUME UNCHANGED <<buffer, size_tos>>
  PROVE  \A a : Image(a)' = Image(a)
BY DEF Image

-----------------------------------------------------------------------------
(* A step inside the sector in hand disturbs neither half. *)
LEMMA SweepKept ==
  ASSUME IInv, Frontier, Behind, Ahead, [Next]_vars, pc \in Session,
         UNCHANGED <<buffer, start_adr, size_tos, soft_hard, base, front>>
  PROVE  Behind' /\ Ahead'
<1> DEFINE s == SectorFrom(front)
<1>1. StartOffset' = StartOffset /\ SectorFrom(front') = s
  BY OffsetsKept
<1>2. ASSUME NEW a \in Addr, flash'[a] # flash[a]
      PROVE  /\ front \in Int /\ StartOffset \in Int /\ StartOffset <= front
             /\ s # NoSector /\ Starts[s + 1] \in Nat
             /\ front <= a /\ a < Starts[s + 1]
  <2>1. pc \in InSector /\ a \in Cells(sect)
    BY <1>2, OnlySectorInHand
  <2>2. /\ sect = SectorFrom(offset) /\ Starts[sect] = offset /\ sect # NoSector
        /\ Starts[sect + 1] \in Nat /\ offset \in Int
    BY <2>1, InHand DEF IInv, Placed, TypeOK
  <2>3. front = offset
    BY <2>1 DEF Frontier, InSector
  <2>4. StartOffset <= front /\ StartOffset \in Int
    BY LoopStarts DEF Frontier, Active, IInv, TypeOK
  <2> QED
    BY <2>1, <2>2, <2>3, <2>4 DEF Cells
<1>3. Behind'
  <2>1. \A a \in Addr : StartOffset <= a /\ a < front => flash'[a] = flash[a]
    BY <1>2 DEF Addr
  <2> QED
    BY <1>1, <2>1, ImageKept DEF Behind
<1>4. Ahead'
  <2>1. \A a \in Addr : a < StartOffset \/ (s # NoSector /\ a >= Starts[s + 1])
                          => flash'[a] = flash[a]
    BY <1>2 DEF Addr
  <2> HIDE DEF s
  <2>2. \A a \in Addr : a < StartOffset \/ (s # NoSector /\ a >= Starts[s + 1])
                          => flash'[a] = base'[a]
    BY <2>1 DEF Ahead, s
  <2> QED
    BY <1>1, <2>2 DEF Ahead, s
<1> QED
  BY <1>3, <1>4

(* program_flash returns the next offset: the sector in hand joins what is *)
(* behind, and the next one becomes the sector in hand.                    *)
LEMMA SweepAdvances ==
  ASSUME IInv, Swept, Leave
  PROVE  Behind' /\ Ahead'
<1> USE DEF chipVars, fileVars, Session
<1>1. pc = "leave" /\ Behind /\ Ahead /\ Active
  BY DEF Leave, Swept, Active
<1>2. UNCHANGED <<flash, buffer, start_adr, size_tos, soft_hard, base>>
  BY DEF Leave
<1>3. StartOffset' = StartOffset
  BY <1>2, OffsetsKept
<1>4. CASE ret < 0
  <2>1. front' = front
    BY <1>4 DEF Leave, IInv, TypeOK
  <2> QED
    BY <1>1, <1>2, <1>3, <2>1, ImageKept DEF Behind, Ahead
<1>5. CASE ret >= 0
  <2>1. /\ front' = ret /\ ret = Starts[sect + 1] /\ sect = SectorFrom(offset)
        /\ \A a \in Cells(sect) : flash[a] = Image(a)
    BY <1>1, <1>5 DEF Leave, Swept, Sector
  <2>2. front = offset /\ StartOffset <= front
    BY <1>1 DEF Swept, Frontier
  <2>3. /\ sect \in 1 .. NSect /\ sect # NoSector /\ Starts[sect] = offset
        /\ offset \in Nat /\ Starts[sect + 1] \in Nat /\ offset < Starts[sect + 1]
        /\ Boundary(Starts[sect + 1])
    BY <1>1, <2>1, LoopSector DEF IInv, InLoop
  <2>4. Behind'
    <3>1. ASSUME NEW a \in Addr, StartOffset <= a, a < ret
          PROVE  flash[a] = Image(a)
      <4>1. CASE a < front
        BY <1>1, <3>1, <4>1 DEF Behind
      <4>2. CASE a >= front
        BY <2>1, <2>2, <2>3, <3>1, <4>2 DEF Cells, Addr
      <4> QED
        BY <2>2, <2>3, <4>1, <4>2 DEF Addr
    <3> QED
      BY <1>2, <1>3, <2>1, <3>1, ImageKept DEF Behind
  <2>5. Ahead'
    <3> DEFINE t == SectorFrom(ret)
    <3>1. ASSUME t # NoSector
          PROVE  Starts[t + 1] \in Nat /\ Starts[t + 1] >= Starts[sect + 1]
      <4>1. t \in 1 .. NSect /\ Starts[t] >= ret
        BY <3>1 DEF SectorFrom, NoSector
      <4>2. t \in 1 .. NSect + 1 /\ t + 1 \in 1 .. NSect + 1
        BY <4>1, NorFlashAssumption
      <4>3. Starts[t] \in Nat /\ Starts[t + 1] \in Nat /\ Starts[t] < Starts[t + 1]
        BY <4>1, <4>2, TableOrdered, NorFlashAssumption
      <4> HIDE DEF t
      <4> QED
        BY <2>1, <2>3, <4>1, <4>3
    <3>2. \A a \in Addr : a < StartOffset \/ (t # NoSector /\ a >= Starts[t + 1])
                            => flash[a] = base[a]
      <4> HIDE DEF t
      <4> QED
        BY <1>1, <2>1, <2>2, <2>3, <3>1 DEF Ahead, Addr
    <3> QED
      BY <1>2, <1>3, <2>1, <3>2 DEF Ahead
  <2> QED
    BY <2>4, <2>5
<1> QED
  BY <1>4, <1>5 DEF IInv, TypeOK

LEMMA HalvesStep ==
  ASSUME IInv, Swept, [Next]_vars, Active'
  PROVE  Behind' /\ Ahead'
<1>1. CASE Begin
  <2>1. front' = StartOffset /\ flash' = flash /\ base' = flash
    BY <1>1 DEF Begin, chipVars
  <2>2. StartOffset' = StartOffset /\ StartOffset \in Nat
    BY <1>1, OffsetsKept, LoopStarts DEF Begin, IInv, TypeOK
  <2> QED
    BY <2>1, <2>2 DEF Behind, Ahead, Addr
<1>2. CASE pc \in Session /\ Leave
  BY <1>2, SweepAdvances
<1>3. CASE pc \in Session /\ ~Leave
  <2>1. Behind /\ Ahead /\ Frontier
    BY <1>3 DEF Swept, Active
  <2> QED
    BY <1>3, <2>1, SessionStep, SweepKept
<1>4. CASE pc \notin Session /\ ~Begin
  <2>1. /\ Active
        /\ UNCHANGED <<flash, buffer, start_adr, size_tos, soft_hard, base, front>>
    BY <1>4, IdleStep DEF Swept
  <2>2. Behind /\ Ahead /\ StartOffset' = StartOffset
    BY <2>1, OffsetsKept DEF Swept
  <2> QED
    BY <2>1, <2>2, ImageKept DEF Behind, Ahead
<1> QED
  BY <1>1, <1>2, <1>3, <1>4

-----------------------------------------------------------------------------
(* The frontier follows the loop, and ends it past the end of the image. *)
LEMMA FrontierStep ==
  ASSUME IInv, Swept, [Next]_vars
  PROVE  Frontier'
<1> Frontier
  BY DEF Swept
<1> USE DEF Frontier, Active, Session, chipVars, envVars, fileVars, callVars, histVars,
            loopVars
<1>1. UNCHANGED <<start_adr, soft_hard>> => StartOffset' = StartOffset /\ EndOffset' = EndOffset
  BY OffsetsKept
<1>2. CASE ~Active'
  BY <1>2
<1>3. CASE Begin
  <2>1. StartOffset' = StartOffset /\ StartOffset \in Nat /\ outcome' = outcome
    BY <1>1, <1>3, LoopStarts DEF Begin, IInv, TypeOK
  <2> QED
    BY <1>3, <2>1 DEF Begin
<1>4. CASE Exhausted \/ PastImage
  <2>1. /\ pc \in Session /\ pc # "after" /\ UNCHANGED <<front, start_adr, size_tos, soft_hard>>
        /\ pc' = "idle" /\ outcome' = "done"
        /\ offset >= EndOffset \/ offset >= size_tos
    BY <1>4 DEF Exhausted, PastImage, EndLoop
  <2>2. front = offset /\ StartOffset <= front
    BY <2>1
  <2> QED
    BY <1>1, <2>1, <2>2
<1>5. CASE AnswerNo
  <2>1. /\ pc \in Session /\ UNCHANGED <<front, start_adr, size_tos, soft_hard>>
        /\ pc' = "idle" /\ outcome' = "declined"
    BY <1>5 DEF AnswerNo, Asking, EndLoop
  <2> QED
    BY <1>1, <2>1
<1>6. CASE Pause \/ Unasked \/ AnswerYes \/ AnswerYesAll
  BY <1>1, <1>6 DEF Pause, Unasked, AnswerYes, AnswerYesAll, Asking
<1>7. CASE Probe \/ BusError \/ \E known \in BOOLEAN : Identify(known)
  BY <1>1, <1>7 DEF Probe, BusError, Identify
<1>8. CASE FindSector \/ EraseDone \/ BurnWord \/ WordDone \/ Verify \/ ReadReset
  BY <1>1, <1>8 DEF FindSector, Program, EraseDone, BurnWord, WordDone, TryAgain, Verify,
                ReadReset
<1>9. CASE Leave
  <2>1. front = offset /\ StartOffset <= front /\ outcome = "none"
    BY <1>9 DEF Leave, IInv, TypeOK
  <2>2. ASSUME ret >= 0
        PROVE  StartOffset <= ret
    <3>1. sect = SectorFrom(offset) /\ ret = Starts[sect + 1]
      BY <1>9, <2>2 DEF Leave, Swept, Sector
    <3>2. offset < ret /\ ret \in Nat /\ offset \in Nat
      BY <1>9, <3>1, LoopSector DEF Leave, IInv, InLoop
    <3> QED
      BY <2>1, <3>2, LoopStarts DEF IInv, TypeOK
  <2> QED
    BY <1>1, <1>9, <2>1, <2>2 DEF Leave, IInv, TypeOK
<1>10. CASE Resume
  BY <1>1, <1>10 DEF Resume, EndLoop, NoLocals, IInv, TypeOK
<1>11. ASSUME NEW n, EraseFails(n)
       PROVE  Frontier'
  BY <1>1, <1>11 DEF EraseFails
<1>12. ASSUME NEW w \in Word, WordFails(w)
       PROVE  Frontier'
  BY <1>1, <1>12 DEF WordFails, TryAgain
<1>13. ASSUME NEW c, NEW w \in Word, Decay(c, w)
       PROVE  Frontier'
  BY <1>1, <1>13 DEF Decay
<1>14. CASE UNCHANGED vars
  BY <1>1, <1>14 DEF vars
<1>15. CASE ToggleDevice
  BY <1>1, <1>15 DEF ToggleDevice
<1>16. Load \/ Press \/ CancelLoad \/ Decline \/ PowerLoss => ~Active'
  BY DEF Load, LoadBin, LoadHex, LoadJed, Loading, Press, CancelLoad, Decline, PowerLoss
<1> QED
  BY <1>2, <1>3, <1>4, <1>5, <1>6, <1>7, <1>8, <1>9, <1>10, <1>11, <1>12, <1>13, <1>14,
     <1>15, <1>16
  DEF Next, Tool, Fault

-----------------------------------------------------------------------------
(* The sector in hand gets its image, or program_flash returns an error. *)
LEMMA BlankSector ==
  ASSUME IInv, pc \in InLoop, NEW s, s = SectorFrom(offset), Count(s) <= 0
  PROVE  \A a \in Cells(s) : Image(a) = Blank
<1>1. /\ Starts[s] \in Nat /\ Starts[s + 1] \in Nat /\ Starts[s] < Starts[s + 1]
  BY LoopSector DEF IInv
<1>2. size_tos \in Int
  BY DEF IInv, TypeOK
<1>3. size_tos <= Starts[s]
  BY <1>1, <1>2 DEF Count, Minimum
<1> QED
  BY <1>1, <1>2, <1>3 DEF Image, Cells

LEMMA SectorStep ==
  ASSUME IInv, Swept, [Next]_vars
  PROVE  Sector'
<1> Sector
  BY DEF Swept
<1> USE DEF Sector, InLoop, InSector, Session, chipVars, envVars, fileVars, callVars,
            histVars, loopVars
<1>1. CASE FindSector
  <2> DEFINE s == SectorFrom(offset)
  <2>1. s # NoSector /\ pc = "sector"
    BY <1>1, LoopSector DEF FindSector, IInv
  <2>2. /\ sect' = s /\ offset' = offset /\ size_tos' = size_tos /\ flash' = flash
        /\ buffer' = buffer
    BY <1>1 DEF FindSector
  <2>3. CASE ~IsBlank(flash, s)
    BY <1>1, <2>1, <2>3 DEF FindSector
  <2>4. CASE IsBlank(flash, s)
    <3>1. \A a \in Cells(s) : flash[a] = Blank
      BY <2>4 DEF IsBlank
    <3>2. \/ pc' = "burn"
          \/ pc' = "reset" /\ Count(s) <= 0 /\ ret' = Starts[s + 1]
      BY <1>1, <2>1, <2>4 DEF FindSector, Program, NextOffset
    <3>3. Count(s) <= 0 => \A a \in Cells(s) : Image(a) = Blank
      BY <2>1, BlankSector
    <3> HIDE DEF s
    <3>4. \A a \in Cells(s) : Image(a)' = Image(a)
      BY <2>2, ImageKept
    <3> QED
      BY <2>2, <3>1, <3>2, <3>3, <3>4 DEF s
  <2> QED
    BY <2>3, <2>4
<1>2. CASE EraseDone
  <2>1. sect = SectorFrom(offset) /\ Cells(sect) \subseteq Addr /\ pc = "erase"
    BY <1>2, InHand DEF EraseDone, IInv
  <2>2. /\ sect' = sect /\ offset' = offset /\ size_tos' = size_tos
        /\ buffer' = buffer /\ flash' = Erased(flash, sect)
    BY <1>2 DEF EraseDone
  <2>3. \A a \in Cells(sect) : flash'[a] = Blank
    BY <2>1, <2>2 DEF Erased
  <2>4. \/ pc' = "burn"
        \/ pc' = "reset" /\ Count(sect) <= 0 /\ ret' = Starts[sect + 1]
    BY <1>2 DEF EraseDone, Program, NextOffset
  <2>5. Count(sect) <= 0 => \A a \in Cells(sect) : Image(a) = Blank
    BY <2>1, BlankSector
  <2>6. \A a \in Cells(sect) : Image(a)' = Image(a)
    BY <2>2, ImageKept
  <2> QED
    BY <2>1, <2>2, <2>3, <2>4, <2>5, <2>6
<1>3. ASSUME pc \in {"burn", "poll", "verify"}, UNCHANGED <<sect, size_tos>>,
             NEW b, \A a \in Addr : a # b => flash'[a] = flash[a],
             b < Starts[sect] + Count(sect)
      PROVE  \A a \in Cells(sect) : a >= size_tos => flash'[a] = Blank
  <2>1. /\ Starts[sect] \in Nat /\ Starts[sect + 1] \in Nat /\ size_tos \in Int
        /\ Cells(sect) \subseteq Addr
    <3>1. TypeOK /\ Placed /\ pc \in InSector
      BY <1>3 DEF IInv
    <3>2. size_tos \in Int /\ offset \in Int
      BY <3>1 DEF TypeOK
    <3>3. /\ Starts[sect] = offset /\ Starts[sect + 1] \in Nat /\ Boundary(offset)
          /\ Cells(sect) \subseteq Addr
      BY <3>1, InHand DEF Placed
    <3> QED
      BY <3>2, <3>3, BoundaryNat
  <2>2. Starts[sect] + Count(sect) <= size_tos
    BY <2>1 DEF Count, Minimum
  <2>3. \A a \in Cells(sect) : a >= size_tos => a # b
    BY <1>3, <2>1, <2>2 DEF Cells, Count, Minimum
  <2> QED
    BY <1>3, <2>1, <2>3
<1>4. ASSUME pc \in {"burn", "poll"}
      PROVE  Target < Starts[sect] + Count(sect)
  BY <1>4, InHand DEF Target, Count, Minimum, IInv, Placed, TypeOK
<1>5. CASE WordDone
  <2>1. \A a \in Addr : a # Target => flash'[a] = flash[a]
    BY <1>5 DEF WordDone, IInv, TypeOK
  <2>2. \A a \in Cells(sect) : a >= size_tos => flash'[a] = Blank
    BY <1>3, <1>4, <1>5, <2>1 DEF WordDone
  <2> QED
    BY <1>5, <2>2 DEF WordDone, TryAgain, ERR_PROGRAM
<1>6. ASSUME NEW w \in Word, WordFails(w)
      PROVE  Sector'
  <2>1. \A a \in Addr : a # Target => flash'[a] = flash[a]
    BY <1>6 DEF WordFails, IInv, TypeOK
  <2>2. \A a \in Cells(sect) : a >= size_tos => flash'[a] = Blank
    BY <1>3, <1>4, <1>6, <2>1 DEF WordFails
  <2> QED
    BY <1>6, <2>2 DEF WordFails, TryAgain, ERR_PROGRAM
<1>7. ASSUME NEW b, NEW w \in Word, Decay(b, w)
      PROVE  Sector'
  <2>1. \A a \in Addr : a # b => flash'[a] = flash[a]
    BY <1>7 DEF Decay, IInv, TypeOK
  <2>2. \A a \in Cells(sect) : a >= size_tos => flash'[a] = Blank
    BY <1>3, <1>7, <2>1 DEF Decay
  <2> QED
    BY <1>7, <2>2 DEF Decay
<1>8. CASE Verify
  <2>1. /\ sect = SectorFrom(offset) /\ Starts[sect] = offset /\ offset \in Int
        /\ Starts[sect + 1] \in Nat /\ size_tos \in Int
    BY <1>8, InHand DEF Verify, IInv, TypeOK
  <2>2. ASSUME SectorHolds
        PROVE  \A a \in Cells(sect) : flash[a] = Image(a)
    <3>1. ASSUME NEW a \in Cells(sect), a < size_tos
          PROVE  flash[a] = buffer[a]
      <4>1. a - offset \in 0 .. Count(sect) - 1 /\ offset + (a - offset) = a
        BY <2>1, <3>1 DEF Cells, Count, Minimum
      <4> QED
        BY <2>1, <2>2, <4>1 DEF SectorHolds
    <3>2. \A a \in Cells(sect) : a >= size_tos => flash[a] = Blank
      BY <1>8 DEF Verify
    <3>3. \A a \in Cells(sect) : a < size_tos \/ a >= size_tos
      BY <2>1 DEF Cells
    <3> QED
      BY <3>1, <3>2, <3>3 DEF Image
  <2>3. \A a : Image(a)' = Image(a)
    BY <1>8, ImageKept DEF Verify
  <2> QED
    BY <1>8, <2>1, <2>2, <2>3 DEF Verify, NextOffset, ERR_VERIFY
<1>9. CASE ReadReset
  BY <1>9, ImageKept DEF ReadReset
<1>10. CASE BurnWord
  BY <1>10 DEF BurnWord
<1>11. CASE UNCHANGED vars
  BY <1>11, ImageKept DEF vars
<1>12. CASE BusError \/ (\E known \in BOOLEAN : Identify(known)) \/ Probe
  BY <1>12 DEF BusError, Identify, Probe, ERR_CT60, ERR_DEVICE
<1>13. ASSUME NEW n, EraseFails(n)
       PROVE  Sector'
  BY <1>13 DEF EraseFails, ERR_ERASE
<1>14. \/ Load \/ ToggleDevice \/ Press \/ CancelLoad \/ Decline \/ Begin \/ Exhausted
       \/ Pause \/ PastImage \/ Unasked \/ AnswerYes \/ AnswerYesAll \/ AnswerNo
       \/ Leave \/ Resume \/ PowerLoss
       => pc' \in {"idle", "choose", "ask", "loop", "paused", "call", "after"}
  BY DEF Load, LoadBin, LoadHex, LoadJed, Loading, ToggleDevice, Press, CancelLoad,
         Decline, Begin, Exhausted, Pause, PastImage, Unasked, AnswerYes, AnswerYesAll,
         AnswerNo, Leave, Resume, PowerLoss, EndLoop
<1> QED
  BY <1>1, <1>2, <1>5, <1>6, <1>7, <1>8, <1>9, <1>10, <1>11, <1>12, <1>13, <1>14
  DEF Next, Tool, Fault

-----------------------------------------------------------------------------
THEOREM SweepInvariant == Spec => [](IInv /\ Swept)
<1>1. Init => Swept
  <2> SUFFICES ASSUME Init PROVE Swept
    OBVIOUS
  <2> QED
    BY DEF Init, Swept, Active, Frontier, Sector, Session
<1>2. IInv /\ Swept /\ [Next]_vars => Swept'
  BY HalvesStep, FrontierStep, SectorStep DEF Swept
<1> QED
  BY <1>1, <1>2, Invariant, PTL DEF Spec

(* Behind the frontier the chip holds the image, ahead of its sector what  *)
(* the update found, after every failure and every refusal.                *)
THEOREM SectorsInOrder == Spec => []SectorPrefix
<1>1. ASSUME IInv, Swept
      PROVE  SectorPrefix
  <2> SUFFICES ASSUME Active PROVE Behind /\ Ahead /\ StartOffset \in Int /\ front \in Int
    BY DEF SectorPrefix, Active, Behind, Ahead, Image, Addr
  <2> QED
    BY <1>1, LoopStarts DEF IInv, TypeOK, Swept
<1> QED
  BY <1>1, SweepInvariant, PTL

LEMMA DoneImage ==
  ASSUME IInv, Swept
  PROVE  DoneMeansImage
<1>1. ASSUME outcome = "done", NEW a \in StartOffset .. Minimum(size_tos, EndOffset) - 1
      PROVE  flash[a] = buffer[a]
  <2>1. StartOffset \in Nat /\ size_tos \in Int /\ front \in Int
    BY <1>1, LoopStarts DEF IInv, TypeOK
  <2>2. EndOffset \in Nat /\ EndOffset <= BufEnd /\ BufEnd \in Nat /\ Buf \subseteq Addr
    BY LoopEnds
  <2>3. a \in Int /\ StartOffset <= a /\ a < size_tos /\ a < EndOffset
    BY <1>1, <2>1, <2>2 DEF Minimum
  <2>4. a \in Addr
    BY <2>1, <2>2, <2>3 DEF Buf
  <2>5. a < front
    BY <1>1, <2>1, <2>2, <2>3 DEF Swept, Frontier
  <2>6. Behind
    BY <1>1 DEF Swept, Active
  <2>7. flash[a] = Image(a)
    BY <2>3, <2>4, <2>5, <2>6 DEF Behind
  <2> QED
    BY <2>3, <2>7 DEF Image
<1> QED
  BY <1>1 DEF DoneMeansImage

(* An update that ends without a message has written the whole image. *)
THEOREM DoneIsWritten == Spec => []DoneMeansImage
BY DoneImage, SweepInvariant, PTL

-----------------------------------------------------------------------------
(* From the file to the chip. *)

(* The buffer as the records of a HEX file left it, over the contents the  *)
(* chip had when the file was loaded.                                      *)
Recorded(f) ==
  [a \in Buf |->
     IF \E r \in f.recs : Stored(r) /\ a \in Span(r)
     THEN LET r == CHOOSE r \in f.recs : Stored(r) /\ a \in Span(r)
          IN  r.data[a - r.at + 1]
     ELSE atload[a]]

(* A loaded file is the one the globals describe; size_tos grows with each *)
(* press of PROG, but never below the end of the file's words.             *)
BinHeld ==
  file_loaded /\ soft_hard = "BIN" =>
    /\ file.tos /\ buffer = BinBuffer(file) /\ BinLen(file) <= size_tos
    /\ Active /\ Coldfire => BinLen(file) + TosBase <= size_tos
HexHeld ==
  file_loaded /\ soft_hard = "HEX" =>
    /\ file.recs # {} /\ buffer = Recorded(file) /\ start_adr = StartAdr(file)
    /\ size_tos \in {EndAdr(file), AlignUp(EndAdr(file))}
    /\ Active => size_tos = AlignUp(EndAdr(file))

(* A HEX file's update ends between two sectors: no press of PROG since    *)
(* the load has changed a word before its first block or behind its last.  *)
HexOutside ==
  file_loaded /\ soft_hard = "HEX" =>
    \A a \in Addr : a < StartOffset \/ a >= AlignUp(EndAdr(file)) => flash[a] = atload[a]

Loadedness ==
  /\ file_loaded => file \in Files /\ file.kind = soft_hard
  /\ Active => file_loaded
Within == pc \in Calling \cup {"call"} => offset < size_tos

FileHeld == Loadedness /\ Within /\ BinHeld /\ HexHeld /\ HexOutside

(* Rounding up to a block, once and for all. *)
LEMMA AlignUpInt ==
  ASSUME NEW n \in Int
  PROVE  /\ AlignUp(n) \in Int /\ n <= AlignUp(n)
         /\ AlignUp(n) % Block = 0
         /\ AlignUp(AlignUp(n)) = AlignUp(n)
<1> DEFINE q == (n + Block - 1) \div Block
           m == Block * q
<1>1. Block \in Nat /\ Block > 0
  BY FlashToolAssumption
<1>2. \A k \in Int : k % Block \in 0 .. Block - 1 /\ k \div Block \in Int
                     /\ k = Block * (k \div Block) + (k % Block)
  BY <1>1
<1>3. q \in Int /\ AlignUp(n) = m
  <2> DEFINE k == n + Block - 1
  <2>1. k \in Int
    BY <1>1
  <2>2. k % Block \in Int /\ m \in Int /\ k = m + (k % Block)
    <3> HIDE DEF k
    <3> QED
      BY <1>1, <1>2, <2>1 DEF k
  <2>3. k - (k % Block) = m
    <3> HIDE DEF k, m
    <3> QED
      BY <2>1, <2>2
  <2> QED
    BY <1>2, <2>1, <2>3 DEF AlignUp, AlignDown
<1>4. m \in Int /\ n <= m
  <2>1. n + Block - 1 \in Int
    BY <1>1
  <2>2. n + Block - 1 <= m + (Block - 1) /\ m \in Int
    BY <1>1, <1>2, <1>3, <2>1
  <2> QED
    BY <1>1, <2>2
<1>5. m % Block = 0
  <2> HIDE DEF q
  <2> QED
    BY <1>1, <1>3
<1>6. (m + Block - 1) % Block = Block - 1
  <2> HIDE DEF q
  <2> QED
    BY <1>1, <1>3
<1>7. AlignUp(m) = m
  <2> HIDE DEF m
  <2> QED
    BY <1>1, <1>4, <1>6 DEF AlignUp, AlignDown
<1> QED
  BY <1>3, <1>4, <1>5, <1>7

(* A load gives what it says; nothing of an update is left. *)
LEMMA LoadHolds ==
  ASSUME TypeOK, Load
  PROVE  FileHeld'
<1>1. PICK f \in Files : LoadBin(f) \/ LoadHex(f) \/ LoadJed(f)
  BY DEF Load
<1>2. Loading(f)
  BY <1>1 DEF LoadBin, LoadHex, LoadJed
<1>3. /\ ~Active' /\ pc' \in {"idle", "ask"}
      /\ file' = f /\ atload' = flash /\ flash' = flash
  BY <1>2 DEF Loading, Active, Session, chipVars
<1>4. file_loaded' => file' \in Files /\ file'.kind = soft_hard'
  BY <1>1, <1>3 DEF LoadBin, LoadHex, LoadJed, Loaded
<1>5. Within'
  BY <1>3 DEF Within, Calling
<1>6. ASSUME file_loaded', soft_hard' = "BIN"
      PROVE  f.tos /\ buffer' = BinBuffer(f) /\ BinLen(f) <= size_tos'
  <2>1. f.kind = "BIN" /\ LoadBin(f)
    BY <1>1, <1>6 DEF LoadBin, LoadHex, LoadJed, Loaded
  <2>2. BinLen(f) \in Nat
    BY <2>1, BuffersTyped
  <2>3. f.tos /\ buffer' = BinBuffer(f) /\ size_tos' = BinLen(f)
    BY <1>6, <2>1, Zenon DEF LoadBin, Loaded
  <2> QED
    BY <2>2, <2>3
<1>7. ASSUME file_loaded', soft_hard' = "HEX"
      PROVE  /\ f.recs # {} /\ buffer' = HexBuffer(f) /\ start_adr' = StartAdr(f)
             /\ size_tos' = EndAdr(f)
  BY <1>1, <1>7 DEF LoadBin, LoadHex, LoadJed, Loaded
<1>8. HexBuffer(f) = Recorded(f)'
  BY <1>3 DEF HexBuffer, Recorded
<1>9. HexOutside'
  BY <1>3 DEF HexOutside
<1>10. BinHeld'
  BY <1>3, <1>6 DEF BinHeld
<1>11. HexHeld'
  BY <1>3, <1>7, <1>8 DEF HexHeld
<1> QED
  BY <1>3, <1>4, <1>5, <1>9, <1>10, <1>11 DEF FileHeld, Loadedness

(* PROG rounds the size of a HEX file up, and counts that of a BIN file    *)
(* from the base of a FireBee's chip.                                      *)
LEMMA BeginHolds ==
  ASSUME TypeOK, FileHeld, Begin
  PROVE  Loadedness' /\ BinHeld' /\ HexHeld'
<1> USE DEF FileHeld
<1>1. /\ UNCHANGED <<file, soft_hard, atload, buffer, start_adr>>
      /\ file_loaded /\ file_loaded' /\ size_tos' = SizeAtStart
  BY DEF Begin
<1>2. Loadedness'
  BY <1>1 DEF Loadedness
<1>3. ASSUME soft_hard = "BIN"
      PROVE  /\ BinLen(file) <= size_tos'
             /\ Coldfire => BinLen(file) + TosBase <= size_tos'
  <2>1. file \in Files /\ file.kind = "BIN" /\ BinLen(file) <= size_tos
    BY <1>1, <1>3 DEF Loadedness, BinHeld
  <2>2. BinLen(file) \in Nat /\ size_tos \in Int /\ TosBase \in Nat
    BY <2>1, BuffersTyped, FlashToolAssumption DEF TypeOK
  <2> QED
    BY <1>1, <1>3, <2>1, <2>2 DEF SizeAtStart
<1>4. BinHeld'
  BY <1>1, <1>3 DEF BinHeld
<1>5. ASSUME soft_hard = "HEX"
      PROVE  size_tos' = AlignUp(EndAdr(file))
  <2>1. /\ file \in Files /\ file.kind = "HEX" /\ file.recs # {}
        /\ size_tos \in {EndAdr(file), AlignUp(EndAdr(file))}
    BY <1>1, <1>5 DEF Loadedness, HexHeld
  <2>2. EndAdr(file) \in Int
    BY <2>1, BuffersTyped
  <2> QED
    BY <1>1, <1>5, <2>1, <2>2, AlignUpInt DEF SizeAtStart
<1>6. Recorded(file)' = Recorded(file)
  BY <1>1 DEF Recorded
<1>7. HexHeld'
  BY <1>1, <1>5, <1>6 DEF HexHeld
<1> QED
  BY <1>2, <1>4, <1>7

(* Every other step keeps the file and what was loaded of it, and makes no *)
(* update of none.                                                         *)
LEMMA FileUntouched ==
  ASSUME [Next]_vars, ~Load, ~Begin, ~PowerLoss
  PROVE  /\ UNCHANGED <<file, atload, file_loaded, soft_hard, buffer, start_adr, size_tos>>
         /\ Active' => Active
<1> USE DEF Active, Session, chipVars, envVars, fileVars, callVars, histVars, loopVars
<1>1. CASE ToggleDevice \/ Press \/ CancelLoad \/ Decline
  BY <1>1 DEF ToggleDevice, Press, CancelLoad, Decline
<1>2. CASE Exhausted \/ Pause \/ PastImage
  BY <1>2 DEF Exhausted, Pause, PastImage
<1>3. CASE Unasked \/ AnswerYes \/ AnswerYesAll \/ AnswerNo
  BY <1>3 DEF Unasked, AnswerYes, AnswerYesAll, AnswerNo, Asking
<1>4. CASE Probe \/ BusError \/ \E known \in BOOLEAN : Identify(known)
  BY <1>4 DEF Probe, BusError, Identify
<1>5. CASE FindSector \/ EraseDone \/ BurnWord \/ WordDone \/ Verify \/ ReadReset
  BY <1>5 DEF FindSector, EraseDone, BurnWord, WordDone, Verify, ReadReset
<1>6. CASE Leave \/ Resume
  BY <1>6 DEF Leave, Resume
<1>7. CASE Fault
  <2>1. ASSUME NEW n, EraseFails(n)
        PROVE  /\ UNCHANGED <<file, atload, file_loaded, soft_hard, buffer, start_adr, size_tos>>
               /\ Active' => Active
    BY <2>1 DEF EraseFails
  <2>2. ASSUME NEW w, WordFails(w)
        PROVE  /\ UNCHANGED <<file, atload, file_loaded, soft_hard, buffer, start_adr, size_tos>>
               /\ Active' => Active
    BY <2>2 DEF WordFails
  <2>3. ASSUME NEW a, NEW w, Decay(a, w)
        PROVE  /\ UNCHANGED <<file, atload, file_loaded, soft_hard, buffer, start_adr, size_tos>>
               /\ Active' => Active
    BY <2>3 DEF Decay
  <2> QED
    BY <1>7, <2>1, <2>2, <2>3 DEF Fault
<1>8. CASE UNCHANGED vars
  BY <1>8 DEF vars
<1> QED
  BY <1>1, <1>2, <1>3, <1>4, <1>5, <1>6, <1>7, <1>8 DEF Next, Tool

(* The loop calls program_flash only for sectors the image reaches. *)
LEMMA WithinStep ==
  ASSUME Within, [Next]_vars
  PROVE  Within'
<1> USE DEF Within, Calling, chipVars, envVars, fileVars, callVars, histVars, loopVars
<1>1. CASE Unasked \/ AnswerYes \/ AnswerYesAll \/ AnswerNo
  BY <1>1 DEF Unasked, AnswerYes, AnswerYesAll, AnswerNo, Asking, EndLoop
<1>2. CASE Probe \/ BusError \/ \E known \in BOOLEAN : Identify(known)
  BY <1>2 DEF Probe, BusError, Identify
<1>3. CASE FindSector \/ EraseDone \/ BurnWord \/ WordDone \/ Verify \/ ReadReset
  BY <1>3 DEF FindSector, EraseDone, BurnWord, WordDone, Verify, ReadReset
<1>4. ASSUME NEW n, EraseFails(n)
      PROVE  Within'
  BY <1>4 DEF EraseFails
<1>5. ASSUME NEW w, WordFails(w)
      PROVE  Within'
  BY <1>5 DEF WordFails
<1>6. ASSUME NEW a, NEW w, Decay(a, w)
      PROVE  Within'
  BY <1>6 DEF Decay
<1>7. \/ Load \/ ToggleDevice \/ Press \/ CancelLoad \/ Decline \/ Begin \/ Exhausted
      \/ Pause \/ PastImage \/ Leave \/ Resume \/ PowerLoss
      => pc' \in {"idle", "choose", "ask", "loop", "paused", "after"}
  BY DEF Load, LoadBin, LoadHex, LoadJed, Loading, ToggleDevice, Press, CancelLoad,
         Decline, Begin, Exhausted, Pause, PastImage, Leave, Resume, PowerLoss, EndLoop
<1>8. CASE UNCHANGED vars
  BY <1>8 DEF vars
<1> QED
  BY <1>1, <1>2, <1>3, <1>4, <1>5, <1>6, <1>7, <1>8 DEF Next, Tool, Fault

(* A HEX update writes between its first block and its last, nowhere else. *)
LEMMA OutsideStep ==
  ASSUME IInv, Swept, FileHeld, [Next]_vars, ~Load, ~PowerLoss
  PROVE  HexOutside'
<1> USE DEF FileHeld, IInv
<1> SUFFICES ASSUME file_loaded', soft_hard' = "HEX", NEW a \in Addr,
                    a < StartOffset' \/ a >= AlignUp(EndAdr(file'))
             PROVE  flash'[a] = atload'[a]
  BY DEF HexOutside
<1>1. UNCHANGED <<file, atload, file_loaded, soft_hard, start_adr>>
  BY FileUntouched DEF Begin
<1>2. StartOffset' = StartOffset
  BY <1>1 DEF StartOffset
<1>3. flash[a] = atload[a]
  BY <1>1, <1>2 DEF HexOutside
<1>4. ASSUME flash'[a] # flash[a]
      PROVE  FALSE
  <2>1. pc \in InSector /\ a \in Cells(sect)
    BY <1>4, OnlySectorInHand
  <2>2. Active /\ pc \in Session /\ pc \in Calling /\ pc # "after"
    BY <2>1 DEF InSector, Session, Calling, Active
  <2>3. /\ sect \in 1 .. NSect /\ Starts[sect] = offset /\ Starts[sect + 1] \in Nat
        /\ offset < Starts[sect + 1] /\ offset \in Int
    BY <2>1, InHand DEF TypeOK
  <2>4. offset <= a /\ a < Starts[sect + 1]
    BY <2>1, <2>3 DEF Cells, TypeOK
  <2>5. StartOffset \in Nat /\ StartOffset <= offset
    BY <2>2, LoopStarts DEF Swept, Frontier, TypeOK
  <2>6. size_tos = AlignUp(EndAdr(file)) /\ file \in Files /\ file.kind = "HEX" /\ file.recs # {}
    BY <1>1, <2>2 DEF HexHeld, Loadedness
  <2>7. EndAdr(file) \in Int
    BY <2>6, BuffersTyped
  <2>8. size_tos \in Int /\ size_tos % Block = 0 /\ offset < size_tos
    BY <2>2, <2>6, <2>7, AlignUpInt DEF Within
  <2>9. a >= size_tos
    BY <1>1, <1>2, <2>3, <2>4, <2>5, <2>6, <2>8 DEF Addr
  <2>10. size_tos \in Addr /\ Boundary(size_tos)
    <3>1. Starts[NSect + 1] \in Nat
      BY TableOrdered, NorFlashAssumption
    <3>2. size_tos \in Addr
      BY <2>3, <2>5, <2>8, <2>9, <3>1 DEF Addr
    <3> QED
      BY <2>8, <3>2, FlashToolAssumption
  <2>11. Starts[sect + 1] <= size_tos
    BY <2>3, <2>8, <2>10, NextBoundary
  <2> QED
    BY <2>3, <2>4, <2>8, <2>9, <2>11 DEF Addr
<1> QED
  BY <1>1, <1>3, <1>4

LEMMA FileStep ==
  ASSUME IInv, Swept, FileHeld, [Next]_vars
  PROVE  FileHeld'
<1> USE DEF FileHeld
<1>1. CASE Load
  BY <1>1, LoadHolds DEF IInv
<1>2. CASE PowerLoss
  <2>1. ~file_loaded' /\ ~Active'
    BY <1>2 DEF PowerLoss, Active, Session
  <2> QED
    BY <2>1, WithinStep DEF BinHeld, HexHeld, HexOutside, Loadedness
<1>3. CASE Begin
  <2>1. ~Load /\ ~PowerLoss
    BY <1>3 DEF Begin, Load, LoadBin, LoadHex, LoadJed, Loading, PowerLoss
  <2> QED
    BY <1>3, <2>1, BeginHolds, OutsideStep, WithinStep DEF IInv
<1>4. CASE ~Load /\ ~Begin /\ ~PowerLoss
  <2>1. /\ UNCHANGED <<file, atload, file_loaded, soft_hard, buffer, start_adr, size_tos>>
        /\ Active' => Active
    BY <1>4, FileUntouched
  <2>2. Recorded(file)' = Recorded(file)
    BY <2>1 DEF Recorded
  <2>3. Loadedness'
    BY <2>1 DEF Loadedness
  <2>4. BinHeld'
    BY <2>1 DEF BinHeld
  <2>5. HexHeld'
    BY <2>1, <2>2 DEF HexHeld
  <2> QED
    BY <1>4, <2>3, <2>4, <2>5, OutsideStep, WithinStep
<1> QED
  BY <1>1, <1>2, <1>3, <1>4

THEOREM FileInvariant == Spec => [](IInv /\ Swept /\ FileHeld)
<1>1. Init => FileHeld
  <2> SUFFICES ASSUME Init PROVE FileHeld
    OBVIOUS
  <2> QED
    BY DEF Init, FileHeld, Loadedness, Within, BinHeld, HexHeld, HexOutside, Active,
           Session, Calling
<1>2. IInv /\ Swept /\ FileHeld /\ [Next]_vars => FileHeld'
  BY FileStep
<1> QED
  BY <1>1, <1>2, SweepInvariant, PTL DEF Spec

LEMMA BinLanded ==
  ASSUME IInv, Swept, FileHeld, outcome = "done", file.kind = "BIN",
         NEW i \in 1 .. BinLen(file)
  PROVE  flash[TosBase + i - 1] =
           IF i - 1 = JumpAt /\ ~file.boot THEN Branch ELSE file.data[i]
<1> DEFINE a == TosBase + i - 1
<1>1. Active /\ file_loaded /\ file \in Files /\ soft_hard = "BIN"
  BY DEF FileHeld, Loadedness, Active
<1>2. /\ file.tos /\ buffer = BinBuffer(file) /\ BinLen(file) <= size_tos
      /\ Coldfire => BinLen(file) + TosBase <= size_tos
  BY <1>1 DEF FileHeld, BinHeld
<1>3. BinLen(file) \in Nat /\ BinLen(file) <= TosSize /\ size_tos \in Int
      /\ TosBase \in Nat /\ TosSize \in Nat
  BY <1>1, BuffersTyped, FlashToolAssumption DEF IInv, TypeOK, BinLen, Minimum
<1>4. /\ StartOffset = TosBase /\ a \in Nat /\ TosBase <= a
      /\ a < size_tos /\ EndOffset = TosBase + TosSize /\ a < EndOffset
  BY <1>1, <1>2, <1>3, FlashToolAssumption DEF StartOffset, EndOffset
<1>5. a \in Buf
  BY <1>4, LoopEnds DEF Buf
<1>6. flash[a] = buffer[a]
  BY <1>3, <1>4, DoneImage, LoopEnds DEF DoneMeansImage, Minimum
<1>7. buffer[a] = BinWord(file, a - TosBase)
  BY <1>2, <1>4, <1>5 DEF BinBuffer
<1>8. a - TosBase = i - 1 /\ (i - 1) + 1 = i /\ i - 1 < BinLen(file)
  BY <1>3
<1> QED
  BY <1>2, <1>6, <1>7, <1>8 DEF BinWord

LEMMA HexLanded ==
  ASSUME IInv, Swept, FileHeld, outcome = "done", file.kind = "HEX",
         \A r \in file.recs : Stored(r), NEW a \in 0 .. EndOffset - 1
  PROVE  IF \E r \in file.recs : a \in Span(r)
         THEN \E r \in file.recs : a \in Span(r) /\ flash[a] = r.data[a - r.at + 1]
         ELSE flash[a] = atload[a]
<1> USE DEF IInv
<1>1. Active /\ file_loaded /\ file \in Files /\ soft_hard = "HEX"
  BY DEF FileHeld, Loadedness, Active
<1>2. /\ file.recs # {} /\ buffer = Recorded(file) /\ start_adr = StartAdr(file)
      /\ size_tos = AlignUp(EndAdr(file))
  BY <1>1 DEF FileHeld, HexHeld
<1>3. /\ EndAdr(file) \in Int /\ StartAdr(file) \in Int /\ StartOffset \in Nat
      /\ size_tos \in Int /\ EndAdr(file) <= size_tos
  BY <1>1, <1>2, BuffersTyped, AlignUpInt, LoopStarts DEF TypeOK
<1>4. a \in Buf /\ a \in Addr /\ a \in Nat /\ a < EndOffset
  BY LoopEnds DEF Buf
<1>5. StartOffset <= a /\ a < size_tos => flash[a] = buffer[a]
  BY <1>3, <1>4, DoneImage, LoopEnds DEF DoneMeansImage, Minimum
<1>6. a < StartOffset \/ a >= size_tos => flash[a] = atload[a]
  BY <1>1, <1>2, <1>4 DEF FileHeld, HexOutside
<1>7. CASE \E r \in file.recs : a \in Span(r)
  <2>1. PICK r \in file.recs : a \in Span(r)
    BY <1>7
  <2>2. \A q \in file.recs : q.at \in Int /\ q.data \in Seq(Word) /\ q.at >= 0
    BY <1>1, FlashToolAssumption DEF IsFile, Stored
  <2>3. r.at <= a /\ a < r.at + Len(r.data) /\ r.at \in Nat /\ Len(r.data) \in Nat
    BY <2>1, <2>2 DEF Span
  <2>4. StartAdr(file) <= r.at /\ StartAdr(file) \in Nat
    <3>1. \E n \in {q.at : q \in file.recs} : \A q \in file.recs : n <= q.at
      BY <1>1, <1>2, FlashToolAssumption DEF IsFile
    <3>2. StartAdr(file) \in {q.at : q \in file.recs} /\ \A q \in file.recs : StartAdr(file) <= q.at
      BY <3>1 DEF StartAdr
    <3> QED
      BY <2>2, <3>2
  <2>5. r.at + Len(r.data) <= EndAdr(file)
    <3>1. \E n \in {q.at + Len(q.data) : q \in file.recs} :
            \A q \in file.recs : q.at + Len(q.data) <= n
      BY <1>1, <1>2, FlashToolAssumption DEF IsFile
    <3> QED
      BY <3>1 DEF EndAdr
  <2>6. StartOffset <= StartAdr(file)
    <3> DEFINE w == StartAdr(file) % Wrap
    <3>1. w \in Nat /\ w <= StartAdr(file)
      BY <2>4, FlashToolAssumption
    <3>2. AlignDown(w) <= w
      <4> HIDE DEF w
      <4> QED
        BY <3>1, FlashToolAssumption DEF AlignDown
    <3>3. StartOffset = AlignDown(w)
      BY <1>1, <1>2 DEF StartOffset
    <3> QED
      BY <1>3, <2>4, <3>1, <3>2, <3>3, AlignDownNat
  <2>7. flash[a] = buffer[a]
    BY <1>3, <1>4, <1>5, <2>3, <2>4, <2>5, <2>6
  <2> DEFINE c == CHOOSE q \in file.recs : Stored(q) /\ a \in Span(q)
  <2>8. \E q \in file.recs : Stored(q) /\ a \in Span(q)
    BY <2>1
  <2>9. c \in file.recs /\ a \in Span(c)
    BY <2>8
  <2>10. buffer[a] = c.data[a - c.at + 1]
    BY <1>2, <1>4, <2>8 DEF Recorded
  <2> QED
    BY <1>7, <2>7, <2>9, <2>10
<1>8. CASE ~ \E r \in file.recs : a \in Span(r)
  <2>1. buffer[a] = atload[a]
    BY <1>2, <1>4, <1>8 DEF Recorded
  <2> QED
    BY <1>3, <1>4, <1>5, <1>6, <1>8, <2>1
<1> QED
  BY <1>7, <1>8

(* A finished update has put the file in the chip: the words of a BIN file *)
(* in the TOS area, the records of a HEX file at their addresses, and every *)
(* word no record names is the one the chip had when the file was loaded.  *)
THEOREM FileReachesChip == Spec => []FileLanded
<1>1. IInv /\ Swept /\ FileHeld => FileLanded
  BY BinLanded, HexLanded DEF FileLanded
<1> QED
  BY <1>1, FileInvariant, PTL

-----------------------------------------------------------------------------
(***************************************************************************)
(* FLASH060 implements SectorUpdate: the frontier is the loop's offset,    *)
(* the image is the buffer, and each step of the tool is a step of the     *)
(* abstract update or changes nothing it can see.                          *)
(***************************************************************************)

(* The refinement mapping, named. *)
AImage == [a \in Addr |-> IF a \in Buf THEN buffer[a] ELSE Blank]
AUpto  == Minimum(size_tos, EndOffset)
APhase == IF pc \in Session THEN "run"
          ELSE IF outcome = "done" THEN "done" ELSE "idle"

LEMMA SameChip ==
  /\ Promise!Addr = Addr /\ Promise!Word = Word /\ Promise!NoSector = NoSector
  /\ \A s : Promise!Cells(s) = Cells(s)
  /\ \A n : Promise!SectorFrom(n) = SectorFrom(n)
BY DEF Promise!Addr, Addr, Promise!Word, Word, Promise!NoSector, NoSector,
       Promise!Cells, Cells, Promise!SectorFrom, SectorFrom

LEMMA ImageTyped ==
  ASSUME TypeOK
  PROVE  AImage \in [Addr -> Word] /\ AUpto \in Int
<1>1. Blank \in Word
  BY DEF Blank, Word
<1> QED
  BY <1>1, LoopEnds DEF AImage, AUpto, Minimum, TypeOK

LEMMA PromiseInit == Init => Promise!Init
<1> SUFFICES ASSUME Init PROVE Promise!Init
  OBVIOUS
<1>1. TypeOK
  BY InvInit DEF IInv
<1>2. AImage \in [Addr -> Word] /\ AUpto \in Int
  BY <1>1, ImageTyped
<1>3. APhase = "idle"
  BY DEF Init, APhase, Session
<1> QED
  BY <1>1, <1>2, <1>3, SameChip
  DEF Promise!Init, AImage, AUpto, APhase, TypeOK

-----------------------------------------------------------------------------
(* The steps of SectorUpdate, in terms of the mapping. *)
LEMMA AbstractSteps ==
  ASSUME TypeOK, TypeOK'
  PROVE
    /\ /\ APhase # "run" /\ APhase' \in {"idle", "run"} /\ flash' = flash
       => Promise!Prepare
    /\ /\ APhase = "run" /\ APhase' = "run"
       /\ \A a \in Addr : flash'[a] # flash[a] =>
             SectorFrom(front) # NoSector /\ a \in Cells(SectorFrom(front))
       /\ AImage' = AImage /\ AUpto' = AUpto /\ front' = front
       => Promise!Rewrite
    /\ /\ APhase = "run" /\ APhase' = "run" /\ SectorFrom(front) # NoSector
       /\ \A a \in Cells(SectorFrom(front)) : a < AUpto => flash[a] = AImage[a]
       /\ front' = Starts[SectorFrom(front) + 1]
       /\ flash' = flash /\ AImage' = AImage /\ AUpto' = AUpto
       => Promise!Advance
    /\ /\ APhase = "run" /\ APhase' = "done" /\ front >= AUpto
       /\ flash' = flash /\ AImage' = AImage /\ AUpto' = AUpto /\ front' = front
       => Promise!Complete
    /\ APhase = "run" /\ APhase' = "idle" /\ flash' = flash => Promise!Abandon
    /\ /\ flash' = flash /\ AImage' = AImage /\ AUpto' = AUpto /\ front' = front
       /\ APhase' = APhase
       => UNCHANGED Promise!vars
<1>1. AImage' \in [Addr -> Word]
  <2>1. Blank \in Word
    BY DEF Blank, Word
  <2>2. buffer' \in [Buf -> Word]
    BY DEF TypeOK, BufEnd, Buf
  <2> QED
    BY <2>1, <2>2 DEF AImage
<1>2. flash' \in [Addr -> Word]
  BY DEF TypeOK
<1> QED
  BY <1>1, <1>2, SameChip
  DEF AImage, AUpto, APhase, Promise!Prepare, Promise!Rewrite, Promise!Advance,
      Promise!Complete, Promise!Abandon, Promise!vars

LEMMA MappingKept ==
  ASSUME UNCHANGED <<buffer, size_tos, soft_hard>>
  PROVE  AImage' = AImage /\ AUpto' = AUpto
BY DEF AImage, AUpto, EndOffset

(* An update ends without touching the chip. *)
LEMMA QuietEnd ==
  ASSUME [Next]_vars, pc \in Session, pc' \notin Session
  PROVE  flash' = flash
<1> USE DEF Session, chipVars
<1>1. Exhausted \/ PastImage \/ AnswerNo \/ Resume \/ PowerLoss => flash' = flash
  BY DEF Exhausted, PastImage, AnswerNo, Resume, PowerLoss
<1>2. ~(Load \/ ToggleDevice \/ Press \/ CancelLoad \/ Decline \/ Begin)
  BY DEF Load, LoadBin, LoadHex, LoadJed, Loading, ToggleDevice, Press, CancelLoad,
         Decline, Begin
<1>3. ~(Pause \/ Unasked \/ AnswerYes \/ AnswerYesAll \/ Probe \/ BusError
        \/ \E known \in BOOLEAN : Identify(known))
  BY DEF Pause, Unasked, AnswerYes, AnswerYesAll, Probe, BusError, Identify
<1>4. ~(FindSector \/ EraseDone \/ BurnWord \/ WordDone \/ Verify \/ ReadReset \/ Leave)
  BY DEF FindSector, Program, EraseDone, BurnWord, WordDone, TryAgain, Verify, ReadReset,
         Leave
<1>5. \A n, w : ~EraseFails(n) /\ ~WordFails(w) /\ ~Decay(n, w)
  BY DEF EraseFails, WordFails, TryAgain, Decay
<1> QED
  BY <1>1, <1>2, <1>3, <1>4, <1>5 DEF Next, Tool, Fault, vars

LEMMA IdleSimulated ==
  ASSUME IInv, Swept, TypeOK', [Next]_vars, pc \notin Session
  PROVE  [Promise!Next]_(Promise!vars)
<1>1. flash' = flash
  <2>1. \A a \in Addr : flash'[a] = flash[a]
    BY OnlySectorInHand DEF InSector, Session
  <2> QED
    BY <2>1 DEF IInv, TypeOK
<1>2. APhase # "run"
  BY DEF APhase
<1>3. CASE APhase' \in {"idle", "run"}
  BY <1>1, <1>2, <1>3, AbstractSteps DEF IInv, Promise!Next
<1>4. CASE APhase' \notin {"idle", "run"}
  <2>1. pc' \notin Session /\ outcome' = "done"
    BY <1>4 DEF APhase
  <2>2. ~Begin
    BY <2>1 DEF Begin, Session
  <2>3. /\ pc' = pc /\ outcome' = outcome
        /\ UNCHANGED <<buffer, size_tos, soft_hard, front>>
    BY <2>1, <2>2, IdleStep DEF Swept, Active
  <2> QED
    BY <1>1, <2>3, MappingKept, AbstractSteps DEF IInv, APhase
<1> QED
  BY <1>3, <1>4

LEMMA SessionSimulated ==
  ASSUME IInv, Swept, TypeOK', Frontier', [Next]_vars, pc \in Session
  PROVE  [Promise!Next]_(Promise!vars)
<1> TypeOK /\ Placed
  BY DEF IInv
<1>1. APhase = "run"
  BY DEF APhase
<1>2. CASE pc' \notin Session /\ outcome' # "done"
  BY <1>1, <1>2, QuietEnd, AbstractSteps DEF APhase, Promise!Next
<1>3. CASE pc' \notin Session /\ outcome' = "done"
  <2>1. flash' = flash /\ APhase' = "done" /\ ~Leave
    BY <1>3, QuietEnd DEF APhase, Leave, Session
  <2>2. UNCHANGED <<buffer, start_adr, size_tos, soft_hard, front>>
    BY <1>3, <2>1, SessionStep DEF Active
  <2>3. front >= EndOffset \/ front >= size_tos
    BY <1>3, <2>2, OffsetsKept DEF Frontier
  <2>4. front >= AUpto
    BY <2>3, LoopEnds DEF AUpto, Minimum, TypeOK
  <2> QED
    BY <1>1, <2>1, <2>2, <2>4, MappingKept, AbstractSteps DEF Promise!Next
<1>4. CASE pc' \in Session /\ ~Leave
  <2>1. UNCHANGED <<buffer, size_tos, soft_hard, front>> /\ APhase' = "run"
    BY <1>4, SessionStep DEF Active, APhase
  <2>2. ASSUME NEW a \in Addr, flash'[a] # flash[a]
        PROVE  SectorFrom(front) # NoSector /\ a \in Cells(SectorFrom(front))
    <3>1. pc \in InSector /\ a \in Cells(sect)
      BY <2>2, OnlySectorInHand
    <3>2. sect = SectorFrom(offset) /\ sect # NoSector
      BY <3>1, InHand DEF Placed
    <3>3. front = offset
      BY <3>1 DEF Swept, Frontier, InSector
    <3> QED
      BY <3>1, <3>2, <3>3
  <2> QED
    BY <1>1, <2>1, <2>2, MappingKept, AbstractSteps DEF Promise!Next
<1>5. CASE Leave
  <2>1. UNCHANGED <<flash, buffer, size_tos, soft_hard>> /\ pc = "leave" /\ pc' = "after"
    BY <1>5 DEF Leave, chipVars, fileVars
  <2>2. APhase' = "run"
    BY <2>1 DEF APhase, Session
  <2>3. CASE ret < 0
    <3>1. front' = front
      BY <1>5, <2>3 DEF Leave, TypeOK
    <3> QED
      BY <1>1, <2>1, <2>2, <3>1, MappingKept, AbstractSteps
  <2>4. CASE ret >= 0
    <3>1. /\ front' = ret /\ ret = Starts[sect + 1] /\ sect = SectorFrom(offset)
          /\ \A a \in Cells(sect) : flash[a] = Image(a)
      BY <1>5, <2>1, <2>4 DEF Leave, Swept, Sector
    <3>2. front = offset
      BY <2>1 DEF Swept, Frontier
    <3>3. /\ sect # NoSector /\ Cells(sect) \subseteq Addr
          /\ Starts[sect] = offset /\ offset \in Nat
          /\ Starts[sect + 1] \in Nat /\ Starts[sect + 1] <= EndOffset
      BY <2>1, <3>1, LoopSector DEF InLoop, Session
    <3>4. \A a \in Cells(sect) : a < AUpto => flash[a] = AImage[a]
      <4>1. ASSUME NEW a \in Cells(sect), a < AUpto
            PROVE  a \in Addr /\ a \in Buf /\ a < size_tos
        <5>1. a \in Int /\ 0 <= a /\ a < EndOffset
          BY <3>3, <4>1, LoopEnds DEF Cells
        <5>2. a < size_tos
          BY <4>1, <5>1, LoopEnds DEF AUpto, Minimum, TypeOK
        <5> QED
          BY <3>3, <5>1, <5>2, LoopEnds DEF Buf
      <4> QED
        BY <3>1, <4>1 DEF Image, AImage
    <3> QED
      BY <1>1, <2>1, <2>2, <3>1, <3>2, <3>3, <3>4, MappingKept, AbstractSteps
      DEF Promise!Next
  <2> QED
    BY <2>3, <2>4 DEF TypeOK
<1> QED
  BY <1>2, <1>3, <1>4, <1>5 DEF Leave, Session

(* FLASH060 keeps the promise of a sector update. *)
THEOREM Refines == Spec => KeepsPromise
<1>1. Init => Promise!Init
  BY PromiseInit
<1>2. IInv /\ Swept /\ IInv' /\ Swept' /\ [Next]_vars => [Promise!Next]_(Promise!vars)
  BY IdleSimulated, SessionSimulated DEF IInv, Swept
<1> QED
  BY <1>1, <1>2, SweepInvariant, PTL DEF Spec, KeepsPromise, Promise!Spec
=============================================================================
