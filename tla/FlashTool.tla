----------------------------- MODULE FlashTool -----------------------------
(***************************************************************************)
(* FLASH060, the GEM program that writes the operating system into the     *)
(* CT60's (or the FireBee's) flash: load_file and the flash branch of      *)
(* Button in flash060.c, the S-record reader of srec.c, and program_flash  *)
(* (flash.s) and program_flash_cf (flash_cf.s), which Button calls once    *)
(* per sector.  The chip, the user, the power supply and the owner of the  *)
(* interrupts are the environment.                                         *)
(***************************************************************************)
EXTENDS NorFlash, Sequences

CONSTANTS
  Coldfire,   \* TRUE on a FireBee (cookie _CF_), FALSE on a CT60
  Block,      \* 64 KiB in words, the alignment of a HEX update
  Wrap,       \* 2^24 in words, the modulus of the mask 0xFF0000
  TosBase,    \* offset of the TOS area: FLASH_ADR_TOS_CF - FLASH_ADR_CF, or 0
  TosSize,    \* FLASH_SIZE - PARAM_SIZE
  JumpAt,     \* word of a TOS image that should jump to the boot code ...
  Branch,     \* ... and the branch put there when the file has none
  GuardLow,   \* FireBee sectors below this offset ...
  GuardHigh,  \* ... or from this one on are confirmed one by one
  Files,      \* the files a user may load
  Factory,    \* possible contents of a chip (and of uninitialised memory)
  Machines,   \* the machines: CPU and where its TOS runs
  Tries,      \* attempts at a word: the retry counter starts at 15
  MaxFaults,  \* bound: chip faults and power losses of one behaviour
  SizeCap     \* bound: size_tos may not grow past this

(* A boundary between sectors, or an end of the chip. *)
Boundary(n) == \E s \in 1 .. NSect + 1 : Starts[s] = n

(* Records have a first address and a last one (they are finitely many). *)
IsFile(f) ==
  \/ /\ f.kind = "BIN"
     /\ f.tos \in BOOLEAN /\ f.boot \in BOOLEAN /\ f.data \in Seq(Word)
  \/ /\ f.kind = "HEX"
     /\ \A r \in f.recs : r.at \in Int /\ r.data \in Seq(Word)
     /\ f.recs # {} =>
          /\ \E q \in f.recs : \A r \in f.recs : q.at <= r.at
          /\ \E q \in f.recs : \A r \in f.recs : r.at + Len(r.data) <= q.at + Len(q.data)
  \/ f.kind = "JED"

IsMachine(m) ==
  /\ m.cpu060 \in BOOLEAN /\ m.tosram \in BOOLEAN /\ m.magx \in BOOLEAN
  /\ m.nvdi \in BOOLEAN /\ m.jedec_only \in BOOLEAN

(* The blocks, the TOS area and the guarded areas begin and end between    *)
(* sectors, as they do on every device of the two tables.                  *)
ASSUME FlashToolAssumption ==
  /\ Coldfire \in BOOLEAN
  /\ Block \in Nat \ {0} /\ Wrap \in Nat \ {0}
  /\ \A n \in Addr : n % Block = 0 => Boundary(n)
  /\ TosBase \in Nat /\ TosSize \in Nat \ {0}
  /\ IF Coldfire THEN Boundary(TosBase) ELSE TosBase = 0
  /\ Boundary(TosBase + TosSize)
  /\ JumpAt \in Nat /\ Branch \in Word
  /\ GuardLow \in Nat /\ GuardHigh \in Nat /\ Boundary(GuardHigh)
  /\ \A f \in Files : IsFile(f)
  /\ Factory \subseteq [Addr -> Word]
  /\ \A m \in Machines : IsMachine(m)
  /\ Tries \in Nat \ {0} /\ MaxFaults \in Nat /\ SizeCap \in Int

VARIABLES
  flash, chip,                       \* the chip: contents, command state
  irq, armed, kbd,                   \* SR mask; cache off or write enabled; keyboard
  machine,
  file_loaded, soft_hard, device, buffer, start_adr, size_tos,   \* globals
  pc, lock_interrupts, offset, ok, sect, ptr, retry, ret,    \* Button, program_flash
  file, base, atload, front, asked, outcome, faults          \* history

chipVars == <<flash, chip>>
envVars  == <<irq, armed, kbd>>
fileVars == <<file_loaded, soft_hard, device, buffer, start_adr, size_tos>>
callVars == <<sect, ptr, retry, ret>>
histVars == <<file, base, atload, front, asked, outcome>>
loopVars == <<lock_interrupts, offset, ok>>
vars == <<chipVars, envVars, machine, fileVars, pc, loopVars, callVars,
          histVars, faults>>

NoDevice == "none"
NoFile   == [kind |-> "none"]

ERR_DEVICE  == -1
ERR_ERASE   == -2
ERR_PROGRAM == -3
ERR_VERIFY  == -4
ERR_CT60    == -5

Minimum(m, n) == IF m <= n THEN m ELSE n

(* buffer_flash, and the part of it a load may fill. *)
BufEnd == IF Coldfire THEN Starts[NSect + 1] ELSE TosSize
Buf    == 0 .. BufEnd - 1

AlignDown(n) == n - (n % Block)
\* mutant: size_tos is not rounded up to 64 KiB
Unaligned(n) == n
AlignUp(n)   == AlignDown(n + Block - 1)

-----------------------------------------------------------------------------
(* The files.  A BIN file is a TOS image that passes the header tests or   *)
(* not, with or without the jump to the boot code; a HEX file is a set of  *)
(* S-records, each some words at an address; a JED file is for the ABE     *)
(* chip or for another.                                                    *)

Span(r) == r.at .. r.at + Len(r.data) - 1

(* getbytes stores a record only when it ends strictly below the limit. *)
Stored(r) == r.at >= 0 /\ r.at + Len(r.data) < BufEnd

(* ... but every record moves start_adr and end_adr. *)
StartAdr(f) == CHOOSE n \in {r.at : r \in f.recs} : \A r \in f.recs : n <= r.at
EndAdr(f)   == CHOOSE n \in {r.at + Len(r.data) : r \in f.recs} :
                 \A r \in f.recs : r.at + Len(r.data) <= n

(* The records over the chip's present contents (read_flash). *)
HexBuffer(f) ==
  [a \in Buf |->
     IF \E r \in f.recs : Stored(r) /\ a \in Span(r)
     THEN LET r == CHOOSE r \in f.recs : Stored(r) /\ a \in Span(r)
          IN  r.data[a - r.at + 1]
     ELSE flash[a]]

(* Fread takes at most the TOS area; the rest of the buffer is 0xFF.  An   *)
(* original TOS gets the branch to the boot code.                          *)
BinLen(f) == Minimum(Len(f.data), TosSize)
BinWord(f, i) ==
  IF i = JumpAt /\ f.tos /\ ~f.boot THEN Branch
  ELSE IF i < BinLen(f) THEN f.data[i + 1] ELSE Blank
BinBuffer(f) == [a \in Buf |-> IF a >= TosBase THEN BinWord(f, a - TosBase) ELSE Blank]

Loaded(kind, good, buf, from, size) ==
  /\ soft_hard' = kind
  /\ file_loaded' = good
  /\ buffer' = buf
  /\ start_adr' = from
  /\ size_tos' = size

(* The history of the last update is dropped. *)
Forget == base' = flash /\ front' = 0 /\ asked' = -1

(* load_file, from the dialog of the LOAD button or because PROG found no  *)
(* file; in that case Button goes on whatever the load gave.               *)
Loading(f) ==
  /\ pc \in {"idle", "choose"}
  /\ pc' = IF pc = "choose" THEN "ask" ELSE "idle"
  /\ outcome' = "none"
  /\ atload' = flash /\ file' = f /\ Forget
  /\ UNCHANGED <<chipVars, envVars, machine, loopVars, callVars, faults>>

LoadBin(f) ==
  /\ Loading(f)
  /\ f.kind = "BIN"
  /\ UNCHANGED device
  /\ IF machine.jedec_only
     THEN Loaded("BIN", FALSE, buffer, start_adr, 0)
     ELSE Loaded("BIN", f.tos, BinBuffer(f), start_adr, IF f.tos THEN BinLen(f) ELSE 0)

LoadHex(f) ==
  /\ Loading(f)
  /\ f.kind = "HEX"
  /\ UNCHANGED device
  /\ IF machine.jedec_only
     THEN Loaded("HEX", FALSE, buffer, start_adr, 0)
     ELSE IF f.recs = {}                   \* start_adr is still 0xFFFFFFFF
     THEN Loaded("HEX", FALSE, HexBuffer(f), -1, 0)
     ELSE Loaded("HEX", TRUE, HexBuffer(f), StartAdr(f), EndAdr(f))

LoadJed(f) ==
  /\ Loading(f)
  /\ f.kind = "JED"
  /\ device' = f.device
  /\ Loaded("JED", f.device # NoDevice, buffer, start_adr, 0)

CancelLoad ==
  /\ pc = "choose"
  /\ pc' = "ask"
  /\ UNCHANGED <<chipVars, envVars, machine, fileVars, loopVars, callVars,
                 histVars, faults>>

-----------------------------------------------------------------------------
(* Button(PROG), up to the loop over the sectors. *)

(* A click on the file name takes the JEDEC file for the other chip. *)
ToggleDevice ==
  /\ pc = "idle" /\ file_loaded /\ soft_hard = "JED"
  /\ device \in {"ABE", "SDR"}
  /\ device' = IF device = "ABE" THEN "SDR" ELSE "ABE"
  /\ UNCHANGED <<chipVars, envVars, machine, file_loaded, soft_hard, buffer,
                 start_adr, size_tos, pc, loopVars, callVars, histVars, faults>>

Press ==
  /\ pc = "idle"
  /\ size_tos <= SizeCap
  /\ pc' = IF file_loaded THEN "ask" ELSE "choose"
  /\ outcome' = "none" /\ Forget
  /\ UNCHANGED <<chipVars, envVars, machine, fileVars, loopVars, callVars, atload,
                 file, faults>>

(* Is TOS running from the chip this program is about to erase? *)
Alert060 == machine.cpu060 /\ ~machine.tosram

(* MagiC runs from RAM and needs no locking. *)
\* mutant: the test of the MagX cookie is the wrong way round
LockUnderMagx == Alert060 /\ machine.magx
LockNeeded == Alert060 /\ ~machine.magx

\* mutant: the loop runs to the end of the chip
WholeChip == Starts[NSect + 1]
EndOffset ==
  IF ~Coldfire THEN TosSize
  ELSE IF soft_hard = "HEX" THEN Starts[NSect + 1] ELSE TosBase + TosSize
StartOffset ==
  IF soft_hard = "HEX" THEN AlignDown(start_adr % Wrap)
  ELSE IF Coldfire THEN TosBase ELSE 0
SizeAtStart ==
  IF soft_hard = "HEX" THEN AlignUp(size_tos)
  ELSE IF Coldfire THEN size_tos + TosBase ELSE size_tos

(* Nothing is written: no file, a refused alert, a JED file on a 68060, or *)
(* a JED file whose JTAG session (module IspSession) begins here.          *)
Decline ==
  /\ pc = "ask"
  /\ ~file_loaded \/ soft_hard = "JED" \/ Alert060 \/ machine.jedec_only
  /\ pc' = "idle"
  /\ UNCHANGED <<chipVars, envVars, machine, fileVars, loopVars, callVars,
                 histVars, faults>>

(* The flash branch begins.  A JED file gets here when the user answers    *)
(* "Cancel" to the NVDI alert.                                             *)
Begin ==
  /\ pc = "ask"
  /\ file_loaded /\ ~machine.jedec_only
  /\ soft_hard = "JED" => device = "ABE" /\ ~machine.cpu060 /\ ~machine.nvdi
  /\ lock_interrupts' = LockNeeded
  /\ offset' = StartOffset
  /\ size_tos' = SizeAtStart
  /\ ok' = FALSE
  /\ pc' = "loop"
  /\ base' = flash /\ front' = StartOffset
  /\ asked' = -1
  /\ UNCHANGED <<chipVars, envVars, machine, file_loaded, soft_hard, device,
                 buffer, start_adr, callVars, atload, file, outcome, faults>>

-----------------------------------------------------------------------------
(* The loop: pause the keyboard, confirm the sector, program it, resume.   *)

\* mutant: the FPGA table at the top is not confirmed
GuardedLowOnly == Coldfire /\ offset < GuardLow
Guarded == Coldfire /\ (offset < GuardLow \/ offset >= GuardHigh)

(* Button returns: its locals are gone. *)
NoLocals == lock_interrupts' = FALSE /\ offset' = 0 /\ ok' = FALSE
EndLoop(result) == pc' = "idle" /\ outcome' = result /\ NoLocals

(* while(offset<end_offset) *)
Exhausted ==
  /\ pc = "loop"
  /\ offset >= EndOffset
  /\ EndLoop("done")
  /\ UNCHANGED <<chipVars, envVars, machine, fileVars, callVars, base,
                 atload, file, front, asked, faults>>

Pause ==
  /\ pc = "loop"
  /\ offset < EndOffset
  /\ pc' = "paused"
  /\ kbd' = IF lock_interrupts THEN "paused" ELSE kbd
  /\ UNCHANGED <<chipVars, irq, armed, machine, fileVars, loopVars, callVars,
                 histVars, faults>>

(* if(offset>=size_tos) break: the keyboard stays as Pause left it. *)
PastImage ==
  /\ pc = "paused"
  /\ offset >= size_tos
  /\ EndLoop("done")
  /\ UNCHANGED <<chipVars, envVars, machine, fileVars, callVars, base,
                 atload, file, front, asked, faults>>

(* The alert about this sector: asked unless it is an ordinary one or the  *)
(* user said "Yes All" before.                                             *)
Asking(yes) == pc = "paused" /\ offset < size_tos /\ ((Guarded /\ ~ok) = yes)

Unasked ==
  /\ Asking(FALSE)
  /\ pc' = "call"
  /\ UNCHANGED <<chipVars, envVars, machine, fileVars, loopVars, callVars, histVars,
                 faults>>

AnswerYes ==
  /\ Asking(TRUE)
  /\ pc' = "call"
  /\ asked' = offset
  /\ UNCHANGED <<chipVars, envVars, machine, fileVars, loopVars, callVars, base,
                 atload, file, front, outcome, faults>>

AnswerYesAll ==
  /\ Asking(TRUE)
  /\ pc' = "call"
  /\ ok' = TRUE
  /\ UNCHANGED <<chipVars, envVars, machine, fileVars, lock_interrupts, offset,
                 callVars, histVars, faults>>

AnswerNo ==
  /\ Asking(TRUE)
  /\ EndLoop("declined")
  /\ UNCHANGED <<chipVars, envVars, machine, fileVars, callVars, base, atload, file,
                 front, asked, faults>>

-----------------------------------------------------------------------------
(* program_flash / program_flash_cf.  The CT60's masks the interrupts for  *)
(* the whole call only when asked to, always around the identification;    *)
(* the FireBee's never does.                                               *)

(* Save the state, switch the data cache off (CT60) or lift the write      *)
(* protection (FireBee), and send the autoselect command.                  *)
Probe ==
  /\ pc = "call"
  /\ pc' = "identify"
  /\ chip' = "autoselect"
  /\ armed' = TRUE
  /\ irq' = ~Coldfire
  /\ UNCHANGED <<flash, kbd, machine, fileVars, loopVars, callVars, histVars,
                 faults>>

(* The autoselect writes end in a bus error: no CT60 in the slot. *)
BusError ==
  /\ pc = "call" /\ ~Coldfire
  /\ pc' = "leave"
  /\ ret' = ERR_CT60
  /\ armed' = TRUE
  /\ irq' = lock_interrupts
  /\ UNCHANGED <<chipVars, kbd, machine, fileVars, loopVars, sect, ptr, retry,
                 histVars, faults>>

Identify(known) ==
  /\ pc = "identify"
  /\ chip' = "read"
  /\ irq' = (lock_interrupts /\ ~Coldfire)
  /\ IF known THEN pc' = "sector" /\ UNCHANGED ret
              ELSE pc' = "leave"  /\ ret' = ERR_DEVICE
  /\ UNCHANGED <<flash, armed, kbd, machine, fileVars, loopVars, sect, ptr, retry,
                 histVars, faults>>

(* Words of the image in sector s, if any. *)
\* mutant: the rest of the image, however long
RestOfImage(s) == size_tos - Starts[s]
Count(s) == Minimum(size_tos - Starts[s], Starts[s + 1] - Starts[s])

(* D1, the offset program_flash returns. *)
\* mutant: the sector's size is not added
SameOffset(s) == Starts[s]
NextOffset(s) == Starts[s + 1]

(* After the erase: nothing of the image falls in this sector, or its      *)
(* first word is next.                                                     *)
Program(s) ==
  IF Count(s) <= 0
  THEN pc' = "reset" /\ ret' = NextOffset(s)
  ELSE pc' = "burn" /\ UNCHANGED ret

(* Find the sector; a blank one is not erased. *)
FindSector ==
  LET s == SectorFrom(offset)
  IN  /\ pc = "sector"
      /\ sect' = s
      /\ ptr' = 0
      /\ retry' = Tries - 1
      /\ IF s = NoSector
         THEN pc' = "leave" /\ ret' = ERR_DEVICE /\ UNCHANGED chip
         ELSE IF IsBlank(flash, s)
         THEN Program(s) /\ UNCHANGED chip
         ELSE pc' = "erase" /\ chip' = "busy" /\ UNCHANGED ret
      /\ UNCHANGED <<flash, envVars, machine, fileVars, loopVars, histVars, faults>>

EraseDone ==
  /\ pc = "erase"
  /\ flash' = Erased(flash, sect)
  /\ chip' = "read"
  /\ Program(sect)
  /\ UNCHANGED <<envVars, machine, fileVars, loopVars, sect, ptr, retry, histVars,
                 faults>>

(* DQ5 without DQ7: the chip gives up somewhere in the sector. *)
EraseFails(upto) ==
  /\ pc = "erase"
  /\ faults < MaxFaults /\ faults' = faults + 1
  /\ flash' = HalfErased(flash, sect, upto)
  /\ chip' = "failed"
  /\ ret' = ERR_ERASE
  /\ pc' = "reset"
  /\ UNCHANGED <<envVars, machine, fileVars, loopVars, sect, ptr, retry, histVars>>

Target == Starts[sect] + ptr     \* A2
Source == offset + ptr           \* A0

BurnWord ==
  /\ pc = "burn"
  /\ chip' = "busy"
  /\ pc' = "poll"
  /\ UNCHANGED <<flash, envVars, machine, fileVars, loopVars, callVars, histVars,
                 faults>>

\* mutant: the retry counter is never tested
TryForever == pc' = "burn" /\ retry' = retry - 1 /\ UNCHANGED ret
(* .program_byte_error: dbf on the retry counter. *)
TryAgain ==
  IF retry = 0
  THEN pc' = "reset" /\ ret' = ERR_PROGRAM /\ UNCHANGED retry
  ELSE pc' = "burn" /\ retry' = retry - 1 /\ UNCHANGED ret

(* DQ7 shows the end of the operation; the word is then compared. *)
WordDone ==
  /\ pc = "poll"
  /\ flash' = [flash EXCEPT ![Target] = Burned(@, buffer[Source])]
  /\ chip' = "read"
  /\ IF Burned(flash[Target], buffer[Source]) = buffer[Source]
     THEN /\ ptr' = ptr + 1
          /\ retry' = Tries - 1
          /\ pc' = IF ptr + 1 < Count(sect) THEN "burn" ELSE "verify"
          /\ UNCHANGED ret
     ELSE TryAgain /\ UNCHANGED ptr
  /\ UNCHANGED <<envVars, machine, fileVars, loopVars, sect, histVars, faults>>

(* DQ5: the chip ran out of time, having cleared some of the bits.  A word *)
(* that failed once may go on failing: it counts as one fault.             *)
WordFails(w) ==
  /\ pc = "poll"
  /\ IF retry < Tries - 1
     THEN UNCHANGED faults
     ELSE faults < MaxFaults /\ faults' = faults + 1
  /\ flash[Target] \subseteq w
  /\ w \subseteq Burned(flash[Target], buffer[Source])
  /\ flash' = [flash EXCEPT ![Target] = w]
  /\ chip' = "failed"
  /\ TryAgain
  /\ UNCHANGED <<envVars, machine, fileVars, loopVars, sect, ptr, histVars>>

(* A word just programmed does not hold: what the verification is for. *)
Decay(a, w) ==
  /\ pc = "verify"
  /\ faults < MaxFaults /\ faults' = faults + 1
  /\ a < Starts[sect] + Count(sect) /\ flash[a] # w
  /\ flash' = [flash EXCEPT ![a] = w]
  /\ UNCHANGED <<chip, envVars, machine, fileVars, pc, loopVars, callVars, histVars>>

\* mutant: the sector is not read back
NoVerify == TRUE
SectorHolds ==
  \A i \in 0 .. Count(sect) - 1 : flash[Starts[sect] + i] = buffer[offset + i]

Verify ==
  /\ pc = "verify"
  /\ ret' = IF SectorHolds THEN NextOffset(sect) ELSE ERR_VERIFY
  /\ pc' = "reset"
  /\ UNCHANGED <<chipVars, envVars, machine, fileVars, loopVars, sect, ptr, retry,
                 histVars, faults>>

\* mutant: the last command leaves the chip as it is
NoReset ==
  /\ pc = "reset"
  /\ pc' = "leave"
  /\ UNCHANGED <<chipVars, envVars, machine, fileVars, loopVars, callVars, histVars,
                 faults>>
ReadReset ==
  /\ pc = "reset"
  /\ chip' = "read"
  /\ pc' = "leave"
  /\ UNCHANGED <<flash, envVars, machine, fileVars, loopVars, callVars, histVars,
                 faults>>

(* .program_end: restore CACR or the protection, SR and the registers. *)
NoRegisters == sect' = NoSector /\ ptr' = 0 /\ retry' = 0 /\ ret' = 0
Leave ==
  /\ pc = "leave"
  /\ armed' = FALSE
  /\ irq' = FALSE
  /\ offset' = ret
  /\ front' = IF ret >= 0 THEN ret ELSE front
  /\ pc' = "after"
  /\ NoRegisters
  /\ UNCHANGED <<chipVars, kbd, machine, fileVars, lock_interrupts, ok,
                 base, atload, file, asked, outcome, faults>>

(* Back in Button: resume the keyboard, look at the result, go round. *)
Resume ==
  /\ pc = "after"
  /\ kbd' = IF lock_interrupts THEN "normal" ELSE kbd
  /\ IF offset < 0 THEN EndLoop("error")
     ELSE IF soft_hard = "HEX" /\ offset >= size_tos THEN EndLoop("done")
     ELSE pc' = "loop" /\ UNCHANGED <<outcome, loopVars>>
  /\ UNCHANGED <<chipVars, irq, armed, machine, fileVars, callVars, base,
                 atload, file, front, asked, faults>>

-----------------------------------------------------------------------------
(* The power goes: the chip keeps its words, everything else is lost. *)
PowerLoss ==
  /\ faults < MaxFaults /\ faults' = faults + 1
  /\ chip' = "read" /\ irq' = FALSE /\ armed' = FALSE /\ kbd' = "normal"
  /\ pc' = "idle" /\ outcome' = "none"
  /\ file_loaded' = FALSE /\ size_tos' = 0
  /\ NoLocals /\ NoRegisters /\ Forget
  /\ UNCHANGED <<flash, machine, soft_hard, device, buffer, start_adr, atload, file>>

Init ==
  /\ flash \in Factory
  /\ chip = "read" /\ irq = FALSE /\ armed = FALSE /\ kbd = "normal"
  /\ machine \in Machines
  /\ file_loaded = FALSE /\ soft_hard = "BIN" /\ device = NoDevice
  /\ start_adr = 0 /\ size_tos = 0
  /\ \E f \in Factory : buffer = [a \in Buf |-> f[a]]        \* Mxalloc
  /\ pc = "idle" /\ lock_interrupts = FALSE /\ offset = 0 /\ ok = FALSE
  /\ sect = NoSector /\ ptr = 0 /\ retry = 0 /\ ret = 0
  /\ file = NoFile /\ base = flash /\ atload = flash /\ front = 0 /\ asked = -1
  /\ outcome = "none" /\ faults = 0

(* Button's own steps, with the chip and the user answering it. *)
Tool ==
  \/ CancelLoad \/ Decline \/ Begin
  \/ Exhausted \/ Pause \/ PastImage
  \/ Unasked \/ AnswerYes \/ AnswerYesAll \/ AnswerNo
  \/ Probe \/ BusError \/ \E known \in BOOLEAN : Identify(known)
  \/ FindSector \/ EraseDone \/ BurnWord \/ WordDone
  \/ Verify \/ ReadReset \/ Leave \/ Resume

Load == \E f \in Files : LoadBin(f) \/ LoadHex(f) \/ LoadJed(f)

Fault ==
  \/ sect # NoSector /\ \E n \in Cells(sect) : EraseFails(n)
  \/ \E w \in Word : WordFails(w)
  \/ sect # NoSector /\ \E a \in Cells(sect), w \in Word : Decay(a, w)
  \/ PowerLoss

Next == Load \/ ToggleDevice \/ Press \/ Tool \/ Fault

Spec == Init /\ [][Next]_vars

(* The program is not preempted out of its loop, the chip answers every    *)
(* poll in the end and the user every dialog.                              *)
FairSpec == Spec /\ WF_vars(Tool)
-----------------------------------------------------------------------------
Session == {"loop", "paused", "call", "identify", "sector", "erase", "burn",
            "poll", "verify", "reset", "leave", "after"}
Calling == {"identify", "sector", "erase", "burn", "poll", "verify", "reset",
            "leave"}

TypeOK ==
  /\ flash \in [Addr -> Word] /\ base \in [Addr -> Word] /\ atload \in [Addr -> Word]
  /\ chip \in {"read", "autoselect", "busy", "failed"}
  /\ irq \in BOOLEAN /\ armed \in BOOLEAN /\ kbd \in {"normal", "paused"}
  /\ machine \in Machines
  /\ file_loaded \in BOOLEAN /\ soft_hard \in {"BIN", "HEX", "JED"}
  /\ buffer \in [Buf -> Word] /\ start_adr \in Int /\ size_tos \in Int
  /\ pc \in Session \cup {"idle", "choose", "ask"}
  /\ lock_interrupts \in BOOLEAN /\ offset \in Int /\ ok \in BOOLEAN
  /\ sect \in 0 .. NSect /\ ptr \in Nat /\ retry \in 0 .. Tries - 1 /\ ret \in Int
  /\ front \in Int /\ asked \in Int /\ faults \in 0 .. MaxFaults
  /\ outcome \in {"none", "done", "declined", "error"}

(* program_flash reads no word outside buffer_flash and programs no word   *)
(* outside the sector it was called for, however long the file, wherever   *)
(* its records lie and however often PROG is pressed.                      *)
InBounds ==
  pc \in {"burn", "poll"} =>
    Source \in Buf /\ Target \in Cells(sect) /\ Target = Source

(* While an update runs, and after it until the next load or press, the    *)
(* sectors behind the frontier hold the buffer (erased past the image's    *)
(* end), and every word before the update's start or beyond the frontier's *)
(* sector is what the update found: a failed erase, a dead word, a refusal *)
(* or an unknown device damages at most the sector in hand.                *)
SectorPrefix ==
  pc \in Session \/ outcome # "none" =>
    LET s == SectorFrom(front)
    IN  \A a \in Addr :
          /\ a \in StartOffset .. front - 1 =>
               flash[a] = IF a < size_tos THEN buffer[a] ELSE Blank
          /\ a < StartOffset \/ (s # NoSector /\ a >= Starts[s + 1]) =>
               flash[a] = base[a]

(* The loop leaves without a message only if the chip holds the whole      *)
(* image, across every retry, skipped erase and half-used last sector.     *)
DoneMeansImage ==
  outcome = "done" =>
    \A a \in StartOffset .. Minimum(size_tos, EndOffset) - 1 : flash[a] = buffer[a]

(* The same from the file's end: a finished BIN update leaves the file's   *)
(* words in the TOS area, but for the branch; a finished HEX update leaves *)
(* its records in place and every word no record names as it was when the  *)
(* file was loaded, although whole sectors were erased for it.  (For HEX   *)
(* files all of whose records getbytes stores.)                            *)
FileLanded ==
  outcome = "done" =>
    /\ file.kind = "BIN" =>
         \A i \in 1 .. BinLen(file) :
           flash[TosBase + i - 1] =
             IF i - 1 = JumpAt /\ ~file.boot THEN Branch ELSE file.data[i]
    /\ file.kind = "HEX" /\ (\A r \in file.recs : Stored(r)) =>
         \A a \in 0 .. EndOffset - 1 :
           IF \E r \in file.recs : a \in Span(r)
           THEN \E r \in file.recs : a \in Span(r) /\ flash[a] = r.data[a - r.at + 1]
           ELSE flash[a] = atload[a]

(* Outside program_flash the chip answers reads, the interrupts are free   *)
(* and the cache (or the write protection) is back, on every error path.   *)
Restored ==
  pc \notin Calling => chip = "read" /\ ~irq /\ ~armed

(* On a CT60 whose TOS runs from the chip, no interrupt can be served, so  *)
(* no TOS code be fetched, while the chip answers with status or           *)
(* identification instead of its contents.                                 *)
FetchSafe ==
  ~Coldfire /\ Alert060 /\ ~machine.magx /\ chip # "read" => irq

(* The parameter sector, above FLASH_SIZE - PARAM_SIZE, is never written   *)
(* on a CT60, whatever the file's size or addresses.                       *)
ParamKept ==
  [][~Coldfire => \A a \in Addr : a >= TosSize => flash'[a] = flash[a]]_vars

(* On a FireBee no word below 0x100000 or from 0x700000 on (BaS, dBUG, the *)
(* FPGA table) changes unless the user agreed to that sector or to all.    *)
GuardedSectors ==
  [][\A a \in Addr :
       Coldfire /\ flash'[a] # flash[a] /\ (a < GuardLow \/ a >= GuardHigh)
         => ok \/ asked = offset]_vars

(* Pressing PROG always comes back to the event loop. *)
PressEnds == pc # "idle" ~> pc = "idle"

(* "resume" (flash060.c:726) undoes "pause output" (flash060.c:701): the   *)
(* keyboard is not left paused when the update is over.                    *)
KeyboardResumed == pc = "idle" => kbd = "normal"

(* FLASH060 performs a sector update. *)
Promise == INSTANCE SectorUpdate WITH
  image <- [a \in Addr |-> IF a \in Buf THEN buffer[a] ELSE Blank],
  upto  <- Minimum(size_tos, EndOffset),
  phase <- IF pc \in Session THEN "run"
           ELSE IF outcome = "done" THEN "done" ELSE "idle"
KeepsPromise == Promise!Spec
=============================================================================
