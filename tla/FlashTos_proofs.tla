-------------------------- MODULE FlashTos_proofs --------------------------
(***************************************************************************)
(* gentos and flash.ttp, for every layout of the flash, every TOS, list of *)
(* patches and tests that gentos accepts, every checksum and any number of *)
(* faults: "OK" is only said of a chip the machine can start from.         *)
(*                                                                         *)
(* First the file: the loop of patchTos leaves at an address the word of   *)
(* the last block over it (by induction on the blocks copied), and so      *)
(* every word of the file is known (FileMade).  Then the flasher: an       *)
(* inductive invariant says that what ends with OK has been compared with  *)
(* that file, and that nothing has reached the parameters on the way.      *)
(***************************************************************************)
EXTENDS FlashTos, WellFoundedInduction, TLAPS

(* A set of naturals has a least element: < is well-founded.               *)
LEMMA LeastNumber ==
  ASSUME NEW T \in SUBSET Nat, T # {}
  PROVE  \E n \in T : \A m \in T : n <= m
<1>. DEFINE Less == {p \in Nat \X Nat : p[1] < p[2]}
<1>1. IsWellFoundedOn(Less, Nat)
  BY NatLessThanWellFounded, Zenon DEF OpToRel
<1>2. PICK n \in T : \A m \in T : ~ (<<m, n>> \in Less)
  BY <1>1, WFMin
<1>3. \A m \in T : ~ (m < n)
  BY <1>2
<1> QED
  BY <1>3

(* Induction, in the form of a set: every number is in a set that holds 0  *)
(* and the successor of its members.                                       *)
LEMMA Induct ==
  ASSUME NEW S, 0 \in S, \A n \in Nat : n \in S => n + 1 \in S
  PROVE  Nat \subseteq S
<1> SUFFICES ASSUME NEW k \in Nat, k \notin S PROVE FALSE
  OBVIOUS
<1> DEFINE T == {n \in Nat : n \notin S}
<1>1. PICK n \in T : \A m \in T : n <= m
  BY LeastNumber
<1>2. n # 0 /\ n - 1 \in Nat /\ n - 1 \notin T
  BY <1>1
<1> QED
  BY <1>2

-----------------------------------------------------------------------------
(* What the copying of the blocks leaves at an address: the last block     *)
(* over it, or what was there.                                             *)
Area == 0 .. TosSize - 1
Patches == Seq([adr : Nat, data : Seq(Word)])
Over(ps, n, a) == {i \in 1 .. n : a \in Block(ps[i])}
Latest(ps, n, a) == CHOOSE i \in Over(ps, n, a) : \A j \in Over(ps, n, a) : j <= i
WordOf(p, a) == p.data[a - Rebased(p.adr) + 1]
Stage(buffer, ps, n) ==
  [a \in Area |-> IF Over(ps, n, a) = {} THEN Dated(buffer)[a]
                  ELSE WordOf(ps[Latest(ps, n, a)], a)]

(* Copying one more block over a stage gives the next stage.               *)
LEMMA StageStep ==
  ASSUME NEW buffer, NEW ps, NEW n \in Nat \ {0}
  PROVE  Stage(buffer, ps, n) = memcpy(Stage(buffer, ps, n - 1), ps[n])
<1>1. ASSUME NEW a \in Area, a \in Block(ps[n])
      PROVE  Latest(ps, n, a) = n /\ Over(ps, n, a) # {}
  <2>1. n \in Over(ps, n, a) /\ \A j \in Over(ps, n, a) : j <= n
    BY <1>1 DEF Over
  <2>2. \A i \in Over(ps, n, a) : (\A j \in Over(ps, n, a) : j <= i) => i = n
    BY <2>1 DEF Over
  <2> QED
    BY <2>1, <2>2 DEF Latest
<1>2. ASSUME NEW a \in Area, a \notin Block(ps[n])
      PROVE  Over(ps, n, a) = Over(ps, n - 1, a)
  BY <1>2 DEF Over
<1>3. ASSUME NEW a \in Area
      PROVE  Stage(buffer, ps, n)[a] = memcpy(Stage(buffer, ps, n - 1), ps[n])[a]
  <2>1. CASE a \in Block(ps[n])
    BY <1>1, <2>1 DEF Stage, memcpy, WordOf
  <2>2. CASE a \notin Block(ps[n])
    <3>1. memcpy(Stage(buffer, ps, n - 1), ps[n])[a] = Stage(buffer, ps, n - 1)[a]
      BY <2>2 DEF memcpy, Stage
    <3>2. Latest(ps, n, a) = Latest(ps, n - 1, a)
      BY <1>2, <2>2 DEF Latest
    <3> QED
      BY <1>2, <2>2, <3>1, <3>2 DEF Stage
  <2> QED
    BY <2>1, <2>2
<1> QED
  BY <1>3 DEF Stage, memcpy

(* Before the first block there are TOS and its new date.                  *)
LEMMA StageZero ==
  ASSUME NEW buffer, DOMAIN buffer = Area, NEW ps
  PROVE  Stage(buffer, ps, 0) = Dated(buffer)
<1>1. \A a : Over(ps, 0, a) = {}
  BY DEF Over
<1>2. Dated(buffer) = [a \in Area |-> Dated(buffer)[a]]
  BY DEF Dated
<1> QED
  BY <1>1, <1>2 DEF Stage

(* The loop of patchTos, by induction on the number of blocks copied.      *)
LEMMA CopiedBlocks ==
  ASSUME NEW buffer, DOMAIN buffer = Area, NEW ps \in Patches
  PROVE  patchTos(buffer, ps) = Stage(buffer, ps, Len(ps))
<1> DEFINE L == Len(ps)
           Loop(f) == [n \in 0 .. L |-> IF n = 0 THEN Dated(buffer) ELSE memcpy(f[n - 1], ps[n])]
           copied == CHOOSE f : f = Loop(f)
           stages == [n \in 0 .. L |-> Stage(buffer, ps, n)]
<1>1. L \in Nat
  BY DEF Patches
<1>2. \A n \in 0 .. L : n # 0 => stages[n] = memcpy(stages[n - 1], ps[n])
  BY <1>1, StageStep
<1>3. stages[0] = Dated(buffer)
  BY <1>1, StageZero
<1>4. stages = Loop(stages)
  BY <1>1, <1>2, <1>3
<1>5. copied = Loop(copied)
  <2> HIDE DEF Loop
  <2> QED
    BY <1>4, Zenon
<1> HIDE DEF copied
<1>6. \A n \in 0 .. L : copied[n] = IF n = 0 THEN Dated(buffer) ELSE memcpy(copied[n - 1], ps[n])
  BY <1>5
<1> DEFINE S == {n \in Nat : n <= L => copied[n] = stages[n]}
<1>7. 0 \in S
  BY <1>1, <1>3, <1>6
<1>8. \A n \in Nat : n \in S => n + 1 \in S
  <2> SUFFICES ASSUME NEW n \in Nat, n \in S, n + 1 <= L
               PROVE  copied[n + 1] = stages[n + 1]
    BY <1>1
  <2>1. n + 1 \in 0 .. L /\ n + 1 # 0 /\ (n + 1) - 1 = n /\ n <= L
    BY <1>1
  <2>2. copied[n] = stages[n]
    BY <2>1
  <2> HIDE DEF stages
  <2> QED
    BY <1>2, <1>6, <2>1, <2>2
<1>9. Nat \subseteq S
  <2> HIDE DEF S
  <2> QED
    BY <1>7, <1>8, Induct
<1>10. copied[L] = Stage(buffer, ps, L)
  <2>1. L \in S
    BY <1>1, <1>9
  <2>2. copied[L] = stages[L]
    BY <1>1, <2>1
  <2> QED
    BY <1>1, <2>2
<1>11. patchTos(buffer, ps) = copied[L]
  BY Zenon DEF patchTos, copied
<1> QED
  BY <1>10, <1>11

-----------------------------------------------------------------------------
(* The file gentos makes.                                                  *)

(* Where things lie: the first half, the tests and the parameters.         *)
LEMMA Layout ==
  /\ TosSize \in Nat /\ TosHalf \in Nat /\ TestsSize \in Nat /\ TestsAt \in Nat
  /\ 2 <= TosHalf /\ TosHalf <= TestsAt /\ TestsAt <= TosSize /\ TestsAt + TestsSize = TosSize
  /\ DateAt \in 0 .. TosHalf - 2 /\ Today \in Word /\ Blank \in Word
  /\ Starts[NSect + 1] \in Nat /\ TosSize < Starts[NSect + 1] /\ Area \subseteq Addr
<1>1. Starts[NSect + 1] \in Nat
  BY NorFlashAssumption
<1> QED
  BY <1>1, GenTosAssumption DEF TestsAt, Area, Addr, Blank, Word

(* What ct60.ld leaves gentos: at least one block, all in the area.        *)
LEMMA PatchesTyped ==
  ASSUME NEW in \in Inputs
  PROVE  /\ in.patches \in Patches /\ Len(in.patches) \in Nat \ {0}
         /\ DOMAIN in.patches = 1 .. Len(in.patches)
         /\ \A i \in DOMAIN in.patches :
              LET p == in.patches[i]
              IN  /\ p.data \in Seq(Word) /\ Len(p.data) \in Nat /\ Rebased(p.adr) \in Nat
                  /\ Rebased(p.adr) + Len(p.data) <= TosSize
<1>1. IsInput(in)
  BY FlashTosAssumption
<1>2. in.patches \in Patches /\ in.patches # <<>>
  BY <1>1 DEF IsInput, Patches
<1>3. Len(in.patches) \in Nat \ {0} /\ DOMAIN in.patches = 1 .. Len(in.patches)
  BY <1>2 DEF Patches
<1>4. ASSUME NEW i \in DOMAIN in.patches
      PROVE  /\ in.patches[i].data \in Seq(Word) /\ Len(in.patches[i].data) \in Nat
             /\ Rebased(in.patches[i].adr) \in Nat
             /\ Rebased(in.patches[i].adr) + Len(in.patches[i].data) <= TosSize
  <2> DEFINE R == [adr : Nat, data : Seq(Word)]
  <2>1. in.patches[i] \in R
    <3>1. in.patches \in Seq(R)
      BY <1>2 DEF Patches
    <3> HIDE DEF R
    <3> QED
      BY <1>3, <3>1
  <2>2. in.patches[i].adr \in Nat /\ in.patches[i].data \in Seq(Word)
    BY <2>1
  <2>3. Rebased(in.patches[i].adr) \in Nat
    BY <2>2, GenTosAssumption DEF Rebased
  <2>4. Rebased(in.patches[i].adr) + Len(in.patches[i].data) <= TosSize
    BY <1>1 DEF IsInput
  <2> QED
    BY <2>2, <2>3, <2>4
<1> QED
  BY <1>2, <1>3, <1>4

(* The highest end of a block exists, and is in the area.                  *)
LEMMA TopBounds ==
  ASSUME NEW in \in Inputs
  PROVE  /\ Top(in.patches) \in 0 .. TosSize
         /\ \A i \in DOMAIN in.patches :
              Rebased(in.patches[i].adr) + Len(in.patches[i].data) <= Top(in.patches)
<1> DEFINE ps == in.patches
           End(i) == Rebased(ps[i].adr) + Len(ps[i].data)
           ends == {End(i) : i \in DOMAIN ps}
           below == {TosSize - e : e \in ends}
<1>1. ends \subseteq 0 .. TosSize /\ ends # {}
  <2>1. \A i \in DOMAIN ps : End(i) \in 0 .. TosSize
    BY PatchesTyped, Layout
  <2>2. 1 \in DOMAIN ps
    BY PatchesTyped
  <2> HIDE DEF End
  <2> QED
    BY <2>1, <2>2
<1> HIDE DEF ends
<1>2. below \in SUBSET Nat /\ below # {}
  <2>1. \A e \in ends : TosSize - e \in Nat
    BY <1>1, Layout
  <2> QED
    BY <1>1, <2>1
<1>3. PICK m \in below : \A k \in below : m <= k
  BY <1>2, LeastNumber
<1>4. PICK n \in ends : m = TosSize - n
  BY <1>3
<1>5. \A e \in ends : e <= n
  <2> TAKE e \in ends
  <2>1. m <= TosSize - e
    BY <1>3
  <2> QED
    BY <1>1, <1>4, <2>1, Layout
<1>6. Top(ps) = CHOOSE k \in ends : \A e \in ends : e <= k
  BY DEF Top, ends
<1>7. Top(ps) \in ends /\ \A e \in ends : e <= Top(ps)
  BY <1>4, <1>5, <1>6
<1> QED
  BY <1>1, <1>7 DEF ends

(* A word of a block is below the end of the code.                         *)
LEMMA BlocksBelow ==
  ASSUME NEW in \in Inputs, NEW i \in DOMAIN in.patches, NEW a \in Block(in.patches[i])
  PROVE  /\ a \in Area /\ a < FlashSize(in.patches)
         /\ WordOf(in.patches[i], a) \in Word
<1> DEFINE p == in.patches[i]
<1>1. /\ p.data \in Seq(Word) /\ Len(p.data) \in Nat /\ Rebased(p.adr) \in Nat
      /\ Rebased(p.adr) + Len(p.data) <= Top(in.patches) /\ Top(in.patches) \in 0 .. TosSize
  BY PatchesTyped, TopBounds
<1>2. a \in Int /\ Rebased(p.adr) <= a /\ a < Rebased(p.adr) + Len(p.data)
  BY <1>1 DEF Block
<1>3. a \in Area /\ a < FlashSize(in.patches)
  BY <1>1, <1>2, Layout DEF FlashSize, Area
<1>4. a - Rebased(p.adr) + 1 \in 1 .. Len(p.data)
  BY <1>1, <1>2
<1> QED
  BY <1>1, <1>3, <1>4 DEF WordOf

(* The code holds the first half and ends in the area.                     *)
LEMMA SizeBounds ==
  ASSUME NEW in \in Inputs
  PROVE  FlashSize(in.patches) \in TosHalf .. TosSize
BY TopBounds, Layout DEF FlashSize

(* The buffer after patchTos and createChecksum, address by address.       *)
Base(in, a) == IF a = DateAt THEN Today ELSE IF a < TosHalf THEN in.tos[a + 1] ELSE Blank
Copied(in, a) ==
  IF Over(in.patches, Len(in.patches), a) = {} THEN Base(in, a)
  ELSE WordOf(in.patches[Latest(in.patches, Len(in.patches), a)], a)

(* patchTos leaves at an address the word of the last block over it.       *)
LEMMA PatchedBuffer ==
  ASSUME NEW in \in Inputs, ~Refused(in)
  PROVE  /\ patchTos(loadFile(in.tos), in.patches) = [a \in Area |-> Copied(in, a)]
         /\ \A a \in Area : Copied(in, a) \in Word
<1> DEFINE b == loadFile(in.tos)
           L == Len(in.patches)
<1>1. in.tos \in Seq(Word) /\ Len(in.tos) = TosHalf
  BY FlashTosAssumption DEF Refused, IsInput
<1>2. DOMAIN b = Area /\ \A a \in Area : b[a] = IF a < TosHalf THEN in.tos[a + 1] ELSE Blank
  BY <1>1 DEF loadFile, Area
<1>3. \A a \in Area : Dated(b)[a] = Base(in, a)
  BY <1>2, Layout DEF Dated, Base, Area
<1>4. patchTos(b, in.patches) = Stage(b, in.patches, L)
  BY <1>2, CopiedBlocks, PatchesTyped
<1>5. \A a \in Area : Base(in, a) \in Word
  BY <1>1, Layout DEF Base, Area
<1>6. ASSUME NEW a \in Area, Over(in.patches, L, a) # {}
      PROVE  WordOf(in.patches[Latest(in.patches, L, a)], a) \in Word
  <2> DEFINE i == Latest(in.patches, L, a)
  <2>1. i \in Over(in.patches, L, a)
    <3> DEFINE O == Over(in.patches, L, a)
               up == {L - j : j \in O}
    <3>1. O \subseteq 1 .. L /\ O # {} /\ L \in Nat
      BY <1>6, PatchesTyped DEF Over
    <3> HIDE DEF O
    <3>2. up \in SUBSET Nat /\ up # {}
      <4>1. \A j \in O : L - j \in Nat
        BY <3>1
      <4> QED
        BY <3>1, <4>1
    <3>3. PICK m \in up : \A k \in up : m <= k
      BY <3>2, LeastNumber
    <3>4. PICK n \in O : m = L - n
      BY <3>3
    <3>5. \A j \in O : j <= n
      <4> TAKE j \in O
      <4>1. m <= L - j
        BY <3>3
      <4> QED
        BY <3>1, <3>4, <4>1
    <3> QED
      BY <3>4, <3>5 DEF Latest, O
  <2>2. i \in DOMAIN in.patches /\ a \in Block(in.patches[i])
    BY <2>1, PatchesTyped DEF Over
  <2> QED
    BY <2>2, BlocksBelow
<1>7. \A a \in Area : Copied(in, a) \in Word
  BY <1>5, <1>6 DEF Copied
<1>8. Stage(b, in.patches, L) = [a \in Area |-> Copied(in, a)]
  BY <1>3 DEF Stage, Copied
<1> QED
  BY <1>4, <1>7, <1>8

(* The file, address by address: the patched TOS with its checksum, and    *)
(* the tests in their area.                                                *)
Checksum(in) == Crc([i \in 1 .. TosHalf - 1 |-> Copied(in, i - 1)])
Content(in, a) ==
  IF in.with_tests /\ a \in TestsAt .. TestsAt + TestsRead(in) - 1 THEN in.tests[a - TestsAt + 1]
  ELSE IF a = TosHalf - 1 THEN Checksum(in) ELSE Copied(in, a)
FileLen(in) == IF in.with_tests THEN TestsAt + TestsRead(in) ELSE FlashSize(in.patches)

(* What is read of the tests fits their area.                              *)
LEMMA TestsBounds ==
  ASSUME NEW in \in Inputs
  PROVE  /\ in.tests \in Seq(Word) /\ Len(in.tests) \in Nat
         /\ in.with_tests \in BOOLEAN /\ in.odd \in BOOLEAN
         /\ TestsRead(in) \in 0 .. TestsSize /\ TestsRead(in) <= Len(in.tests)
<1>1. /\ in.tests \in Seq(Word) /\ Len(in.tests) \in Nat
      /\ in.with_tests \in BOOLEAN /\ in.odd \in BOOLEAN
  BY FlashTosAssumption DEF IsInput
<1> QED
  BY <1>1, Layout DEF TestsRead

(* The checksum is a word.                                                 *)
LEMMA ChecksumWord ==
  ASSUME NEW in \in Inputs, ~Refused(in)
  PROVE  Checksum(in) \in Word
<1> DEFINE s == [i \in 1 .. TosHalf - 1 |-> Copied(in, i - 1)]
<1>1. \A i \in 1 .. TosHalf - 1 : i - 1 \in Area
  BY Layout DEF Area
<1>2. s \in [1 .. TosHalf - 1 -> Word]
  BY <1>1, PatchedBuffer
<1> HIDE DEF s
<1>3. Crc(s) \in Word
  BY <1>2, GenTosAssumption
<1> QED
  BY <1>3 DEF Checksum, s

(* createChecksum changes the last word of the first half only.            *)
LEMMA PatchedIs ==
  ASSUME NEW in \in Inputs, ~Refused(in), NEW a \in Area
  PROVE  Patched(in)[a] = IF a = TosHalf - 1 THEN Checksum(in) ELSE Copied(in, a)
<1> DEFINE b == patchTos(loadFile(in.tos), in.patches)
<1>1. b = [c \in Area |-> Copied(in, c)]
  BY PatchedBuffer
<1>2. \A i \in 1 .. TosHalf - 1 : i - 1 \in Area
  BY Layout DEF Area
<1>3. [i \in 1 .. TosHalf - 1 |-> b[i - 1]] = [i \in 1 .. TosHalf - 1 |-> Copied(in, i - 1)]
  BY <1>1, <1>2
<1>4. createChecksum(b) = [b EXCEPT ![TosHalf - 1] = Checksum(in)]
  BY <1>3 DEF createChecksum, Checksum
<1>5. Patched(in) = createChecksum(b)
  BY DEF Patched
<1> HIDE DEF b
<1> QED
  BY <1>1, <1>4, <1>5

(* The fields of the file saveFile writes.                                 *)
LEMMA Saved ==
  ASSUME NEW buffer, NEW size, NEW odd
  PROVE  /\ saveFile(buffer, size, odd).data = [i \in 1 .. size |-> buffer[i - 1]]
         /\ saveFile(buffer, size, odd).odd = odd
BY DEF saveFile

(* The file, word by word, and when half a word ends it.                   *)
LEMMA FileMade ==
  ASSUME NEW in \in Inputs, ~Refused(in)
  PROVE  /\ gentos(in).data = [i \in 1 .. FileLen(in) |-> Content(in, i - 1)]
         /\ gentos(in).odd <=> (in.with_tests /\ in.odd /\ Len(in.tests) \in 1 .. TestsSize)
         /\ gentos(in).odd \in BOOLEAN
<1> DEFINE half == in.odd /\ Len(in.tests) \in 1 .. TestsSize
           F == FALSE
<1>1. CASE in.with_tests
  <2>1. \A a \in Area : WithTests(in)[a] = Content(in, a)
    BY <1>1, PatchedIs DEF WithTests, Content, Area
  <2>2. \A i \in 1 .. FileLen(in) : i - 1 \in Area
    BY <1>1, TestsBounds, Layout DEF FileLen, Area
  <2>3. gentos(in) = saveFile(WithTests(in), FileLen(in), half)
    BY <1>1 DEF gentos, FileLen
  <2>4. [i \in 1 .. FileLen(in) |-> WithTests(in)[i - 1]] = [i \in 1 .. FileLen(in) |-> Content(in, i - 1)]
    BY <2>1, <2>2
  <2>5. gentos(in).data = [i \in 1 .. FileLen(in) |-> WithTests(in)[i - 1]] /\ gentos(in).odd = half
    <3> HIDE DEF half
    <3> QED
      BY <2>3, Saved
  <2>6. half \in BOOLEAN
    OBVIOUS
  <2>7. gentos(in).odd \in BOOLEAN
    <3> HIDE DEF half
    <3> QED
      BY <2>5, <2>6
  <2> QED
    BY <1>1, <2>4, <2>5, <2>7, Zenon
<1>2. CASE ~in.with_tests
  <2>1. \A a \in Area : Patched(in)[a] = Content(in, a)
    BY <1>2, PatchedIs DEF Content
  <2>2. \A i \in 1 .. FileLen(in) : i - 1 \in Area
    BY <1>2, SizeBounds, Layout DEF FileLen, Area
  <2>3. gentos(in) = saveFile(Patched(in), FileLen(in), F)
    BY <1>2 DEF gentos, FileLen
  <2>4. [i \in 1 .. FileLen(in) |-> Patched(in)[i - 1]] = [i \in 1 .. FileLen(in) |-> Content(in, i - 1)]
    BY <2>1, <2>2
  <2>5. gentos(in).data = [i \in 1 .. FileLen(in) |-> Patched(in)[i - 1]] /\ gentos(in).odd = F
    <3> HIDE DEF F
    <3> QED
      BY <2>3, Saved
  <2> QED
    BY <1>2, <2>4, <2>5, Zenon
<1> QED
  BY <1>1, <1>2

(* The word of the file that goes to an address.                           *)
LEMMA WordMade ==
  ASSUME NEW in \in Inputs, ~Refused(in), NEW a \in 0 .. FileLen(in) - 1, FileLen(in) \in Nat
  PROVE  gentos(in).data[a + 1] = Content(in, a)
<1>1. a + 1 \in 1 .. FileLen(in) /\ (a + 1) - 1 = a
  OBVIOUS
<1> DEFINE d == [i \in 1 .. FileLen(in) |-> Content(in, i - 1)]
<1>2. d[a + 1] = Content(in, a)
  BY <1>1
<1>3. gentos(in).data = d
  BY FileMade
<1> QED
  BY <1>2, <1>3

(* The file is made of words, holds the whole first half and every block,  *)
(* and ends inside the area; half a word ends only a file with tests.      *)
LEMMA FileTyped ==
  ASSUME NEW in \in Inputs, ~Refused(in)
  PROVE  /\ gentos(in).data \in Seq(Word) /\ Len(gentos(in).data) = FileLen(in)
         /\ FileLen(in) \in TosHalf .. TosSize
         /\ FlashSize(in.patches) <= FileLen(in)
         /\ in.with_tests => FlashSize(in.patches) <= TestsAt
<1>1. FlashSize(in.patches) \in TosHalf .. TosSize /\ TestsRead(in) \in 0 .. TestsSize
  BY SizeBounds, TestsBounds
<1>2. in.with_tests => FlashSize(in.patches) <= TestsAt
  BY <1>1, Layout DEF Refused
<1>3. FileLen(in) \in TosHalf .. TosSize /\ FlashSize(in.patches) <= FileLen(in)
  BY <1>1, <1>2, Layout DEF FileLen
<1>4. \A i \in 1 .. FileLen(in) : Content(in, i - 1) \in Word
  <2> TAKE i \in 1 .. FileLen(in)
  <2>1. i - 1 \in Area
    BY <1>3, Layout DEF Area
  <2>2. ASSUME in.with_tests, i - 1 \in TestsAt .. TestsAt + TestsRead(in) - 1
        PROVE  in.tests[(i - 1) - TestsAt + 1] \in Word
    <3>1. in.tests \in Seq(Word) /\ Len(in.tests) \in Nat /\ TestsRead(in) <= Len(in.tests)
      BY TestsBounds
    <3>2. (i - 1) - TestsAt + 1 \in 1 .. Len(in.tests)
      BY <1>1, <2>2, <3>1, Layout
    <3> QED
      BY <3>1, <3>2
  <2> QED
    BY <2>1, <2>2, ChecksumWord, PatchedBuffer DEF Content
<1>5. gentos(in).data \in Seq(Word) /\ Len(gentos(in).data) = FileLen(in)
  <2> DEFINE d == [i \in 1 .. FileLen(in) |-> Content(in, i - 1)]
  <2>1. FileLen(in) \in Nat
    BY <1>3, Layout
  <2>2. d \in Seq(Word) /\ Len(d) = FileLen(in)
    BY <1>4, <2>1
  <2> QED
    BY <2>2, FileMade
<1> QED
  BY <1>2, <1>3, <1>5

-----------------------------------------------------------------------------
(* The inductive invariant: the values are of their types; from "ready" on *)
(* the file is gentos' of an input it has not refused; the erase is at a   *)
(* sector of the area and the program loop before its end; unless the file *)
(* fills the area the parameters are untouched; and what ends with OK has  *)
(* been compared with the file.                                            *)
Typed ==
  /\ input \in Inputs /\ beyond \in Word
  /\ flash \in [Addr -> Word] /\ old \in [Addr -> Word]
  /\ pc \in {"make", "nofile", "ready", "detect", "erase", "program", "verify", "ok", "error"}
Made == pc \notin {"make", "nofile"} => ~Refused(input) /\ file = gentos(input)
InArea ==
  /\ pc = "erase" => sect \in 1 .. NSect /\ Starts[sect] <= TosSize
  /\ pc = "program" => ptr \in 0 .. Count - 1
Kept ==
  /\ pc = "make" => flash = old
  /\ ~Full => \A a \in Addr : a >= TosSize => flash[a] = old[a]
Verified ==
  pc = "ok" => \A a \in 0 .. Len(file.data) - 1 :
                 flash[a] \cap Compared(a) = file.data[a + 1] \cap Compared(a)
Inv == Typed /\ Made /\ InArea /\ Kept /\ Verified

(* The sectors of the table are in the order of their addresses.           *)
LEMMA NextSector ==
  ASSUME NEW s \in 1 .. NSect, Starts[s] < TosSize
  PROVE  /\ s + 1 \in 1 .. NSect /\ Starts[s + 1] <= TosSize
         /\ Starts[s] \in Nat /\ Starts[s + 1] \in Nat
<1>1. PICK t \in 1 .. NSect : Starts[t] = TosSize
  BY GenTosAssumption
<1>2. /\ NSect \in Nat
      /\ \A i, j \in 1 .. NSect + 1 : i < j => Starts[i] < Starts[j]
      /\ \A i \in 1 .. NSect + 1 : Starts[i] \in Nat
  BY NorFlashAssumption
<1>3. t \in 1 .. NSect + 1 /\ s \in 1 .. NSect + 1
  BY <1>2
<1>4. s < t
  <2> SUFFICES ASSUME t <= s PROVE FALSE
    BY <1>3
  <2>1. t = s \/ t < s
    BY <1>3
  <2> QED
    BY <1>1, <1>2, <1>3, <2>1, Layout
<1>5. s + 1 \in 1 .. NSect /\ s + 1 \in 1 .. NSect + 1
  BY <1>2, <1>4
<1>6. s + 1 = t \/ s + 1 < t
  BY <1>3, <1>4
<1> QED
  BY <1>1, <1>2, <1>3, <1>5, <1>6, Layout

(* A file that is being written is made of words and lies in the area.     *)
LEMMA FileKnown ==
  ASSUME Inv, pc \notin {"make", "nofile"}
  PROVE  /\ file.data \in Seq(Word) /\ Len(file.data) \in TosHalf .. TosSize
         /\ file.odd \in BOOLEAN /\ Len(file.data) = FileLen(input)
<1>1. input \in Inputs /\ ~Refused(input) /\ file = gentos(input)
  BY DEF Inv, Typed, Made
<1> QED
  BY <1>1, FileMade, FileTyped

(* What the loop puts on the bus is a word, and the loop that has not      *)
(* ended is in the area, unless the file fills it.                         *)
LEMMA SourceWord ==
  ASSUME Inv, pc = "program"
  PROVE  Source(ptr) \in Word /\ ptr \in Addr /\ (~Full => ptr < TosSize)
<1>1. /\ file.data \in Seq(Word) /\ Len(file.data) \in TosHalf .. TosSize
      /\ file.odd \in BOOLEAN
  BY FileKnown
<1>2. ptr \in Nat /\ ptr <= Len(file.data) /\ (file.odd => ptr < Len(file.data))
  <2>1. CASE file.odd
    BY <1>1, <2>1, Layout DEF Inv, InArea, Count
  <2>2. CASE ~file.odd
    BY <1>1, <2>2, Layout DEF Inv, InArea, Count
  <2> QED
    BY <1>1, <2>1, <2>2
<1>3. ptr # Len(file.data) => file.data[ptr + 1] \in Word
  <2> SUFFICES ASSUME ptr # Len(file.data) PROVE file.data[ptr + 1] \in Word
    OBVIOUS
  <2>1. ptr + 1 \in 1 .. Len(file.data)
    BY <1>1, <1>2, Layout
  <2> QED
    BY <1>1, <2>1
<1>4. beyond \in Word
  BY DEF Inv, Typed
<1>5. Source(ptr) \in Word
  <2> DEFINE w == file.data[ptr + 1]
             mixed == (w \cap High) \cup (beyond \ High)
  <2>1. ptr # Len(file.data) => mixed \in Word
    BY <1>3, <1>4 DEF Word
  <2> QED
    BY <1>3, <1>4, <2>1, Zenon DEF Source
<1>6. ptr \in Addr
  BY <1>1, <1>2, Layout DEF Addr
<1>7. ~Full => ptr < TosSize
  <2>1. CASE file.odd
    BY <1>1, <1>2, <2>1, Layout
  <2>2. CASE ~file.odd
    BY <1>1, <1>2, <2>2, Layout DEF Full
  <2> QED
    BY <1>1, <2>1, <2>2
<1> QED
  BY <1>5, <1>6, <1>7

(* The invariant holds at first.                                           *)
LEMMA InvInit == Init => Inv
<1> SUFFICES ASSUME Init PROVE Inv
  OBVIOUS
<1>1. Typed
  BY FlashTosAssumption DEF Init, Typed
<1>2. Made /\ InArea /\ Verified /\ Kept
  BY DEF Init, Made, InArea, Verified, Kept
<1> QED
  BY <1>1, <1>2 DEF Inv

(* A step that changes nothing the invariant reads but pc, to a place      *)
(* where it asks nothing new.                                              *)
LEMMA Passes ==
  ASSUME Inv, UNCHANGED <<input, beyond, flash, old, file>>,
         pc \notin {"make", "nofile"}, pc' \in {"ready", "detect", "verify", "error"}
  PROVE  Inv'
<1>1. Typed'
  BY DEF Inv, Typed
<1>2. Made' /\ InArea' /\ Verified'
  BY DEF Inv, Made, InArea, Verified
<1>3. Kept'
  BY DEF Inv, Kept, Full
<1> QED
  BY <1>1, <1>2, <1>3 DEF Inv

(* A step that changes the chip, below the parameters unless the file      *)
(* fills the area, on the way to a state where the loops are inside.       *)
LEMMA ChipStep ==
  ASSUME Inv, UNCHANGED <<input, beyond, old, file>>,
         pc \in {"erase", "program", "verify"},
         pc' \in {"erase", "program", "verify", "error"}, InArea',
         flash' \in [Addr -> Word],
         ~Full => \A a \in Addr : a >= TosSize => flash'[a] = flash[a]
  PROVE  Inv'
<1>1. Typed'
  BY DEF Inv, Typed
<1>2. Made' /\ Verified'
  BY DEF Inv, Made, Verified
<1>3. Kept'
  BY DEF Inv, Kept, Full
<1> QED
  BY <1>1, <1>2, <1>3 DEF Inv

(* Every step keeps the invariant.                                         *)
LEMMA InvNext == Inv /\ [Next]_vars => Inv'
<1> SUFFICES ASSUME Inv, [Next]_vars PROVE Inv'
  OBVIOUS
<1>1. CASE Make
  <2>1. Typed' /\ Made'
    BY <1>1 DEF Make, Inv, Typed, Made
  <2>2. InArea' /\ Verified'
    BY <1>1 DEF Make, InArea, Verified
  <2>3. Kept'
    BY <1>1 DEF Make, Inv, Kept
  <2> QED
    BY <2>1, <2>2, <2>3 DEF Inv
<1>2. CASE Try
  BY <1>2, Passes DEF Try
<1>3. ASSUME NEW known \in BOOLEAN, detect_flash(known) PROVE Inv'
  <2>1. CASE board /\ known
    <3>1. /\ pc = "detect" /\ pc' = "erase" /\ sect' = 1
          /\ UNCHANGED <<flash, input, file, beyond, old>>
      BY <1>3, <2>1 DEF detect_flash
    <3>2. Typed' /\ Made' /\ Verified'
      BY <3>1 DEF Inv, Typed, Made, Verified
    <3>3. InArea'
      BY <3>1, NorFlashAssumption, Layout DEF InArea
    <3>4. Kept'
      BY <3>1 DEF Inv, Kept, Full
    <3> QED
      BY <3>2, <3>3, <3>4 DEF Inv
  <2>2. CASE ~(board /\ known)
    BY <1>3, <2>2, Passes DEF detect_flash
  <2> QED
    BY <2>1, <2>2
<1>4. CASE erase_flash
  <2>1. CASE Starts[sect] = TosSize
    <3>1. /\ pc = "erase" /\ pc' = "program" /\ ptr' = 0
          /\ UNCHANGED <<flash, input, file, beyond, old>>
      BY <1>4, <2>1 DEF erase_flash
    <3>2. InArea'
      <4>1. Len(file.data) \in TosHalf .. TosSize /\ file.odd \in BOOLEAN
        BY <3>1, FileKnown
      <4>2. Count \in Nat /\ Count >= 1 /\ Count' = Count
        BY <3>1, <4>1, Layout DEF Count
      <4> QED
        BY <3>1, <4>2 DEF InArea
    <3>3. flash' \in [Addr -> Word]
      BY <3>1 DEF Inv, Typed
    <3> QED
      BY <3>1, <3>2, <3>3, ChipStep
  <2>2. CASE Starts[sect] # TosSize
    <3>1. /\ pc = "erase" /\ pc' = "erase" /\ sect' = sect + 1
          /\ flash' = Erased(flash, sect)
          /\ UNCHANGED <<input, file, beyond, old>>
      BY <1>4, <2>2 DEF erase_flash
    <3>2. /\ sect + 1 \in 1 .. NSect /\ Starts[sect + 1] <= TosSize
          /\ Starts[sect] \in Nat /\ Starts[sect + 1] \in Nat
      BY <2>2, <3>1, NextSector, NorFlashAssumption, Layout DEF Inv, InArea
    <3>3. InArea'
      BY <3>1, <3>2 DEF InArea
    <3>4. flash' \in [Addr -> Word]
      BY <3>1, Layout DEF Inv, Typed, Erased
    <3>5. \A a \in Addr : a >= TosSize => flash'[a] = flash[a]
      BY <3>1, <3>2, Layout DEF Erased, Cells, Addr
    <3> QED
      BY <3>1, <3>3, <3>4, <3>5, ChipStep
  <2> QED
    BY <2>1, <2>2
<1>5. CASE program_flash
  <2>1. /\ pc = "program" /\ flash' = [flash EXCEPT ![ptr] = Burned(@, Source(ptr))]
        /\ UNCHANGED <<input, file, beyond, old>>
    BY <1>5 DEF program_flash
  <2>2. Source(ptr) \in Word /\ ptr \in Addr /\ (~Full => ptr < TosSize)
    BY <2>1, SourceWord
  <2>3. Burned(flash[ptr], Source(ptr)) \in Word
    BY <2>2 DEF Inv, Typed, Burned, Word
  <2>4. flash' \in [Addr -> Word]
    BY <2>1, <2>2, <2>3 DEF Inv, Typed
  <2>5. ~Full => \A a \in Addr : a >= TosSize => flash'[a] = flash[a]
    BY <2>1, <2>2, Layout DEF Inv, Typed, Addr
  <2>6. InArea' /\ pc' \in {"program", "verify", "error"}
    <3>1. Count \in Nat /\ ptr \in 0 .. Count - 1 /\ Count' = Count
      <4>1. Len(file.data) \in TosHalf .. TosSize /\ file.odd \in BOOLEAN
        BY <2>1, FileKnown
      <4> QED
        BY <2>1, <4>1, Layout DEF Count, Inv, InArea
    <3>2. CASE flash'[ptr] = Source(ptr)
      BY <1>5, <2>1, <3>1, <3>2 DEF program_flash, InArea
    <3>3. CASE flash'[ptr] # Source(ptr)
      BY <1>5, <2>1, <3>1, <3>3 DEF program_flash, TryAgain, InArea
    <3> QED
      BY <3>2, <3>3
  <2> QED
    BY <2>1, <2>4, <2>5, <2>6, ChipStep
<1>6. CASE verify_flash
  <2>1. /\ pc = "verify" /\ UNCHANGED <<flash, input, file, beyond, old>>
        /\ pc' \in {"ok", "error"}
    BY <1>6 DEF verify_flash
  <2>2. Typed' /\ Made' /\ InArea'
    BY <2>1 DEF Inv, Typed, Made, InArea
  <2>3. Kept'
    BY <2>1 DEF Inv, Kept, Full
  <2>4. Verified'
    BY <1>6, <2>1 DEF verify_flash, Verified, Compared
  <2> QED
    BY <2>2, <2>3, <2>4 DEF Inv
<1>7. ASSUME NEW w \in Word, WordFails(w) PROVE Inv'
  <2>1. /\ pc = "program" /\ flash' = [flash EXCEPT ![ptr] = w]
        /\ UNCHANGED <<input, file, beyond, old, ptr>>
        /\ pc' \in {"program", "error"}
    BY <1>7 DEF WordFails, TryAgain
  <2>2. ptr \in Addr /\ (~Full => ptr < TosSize)
    BY <2>1, SourceWord
  <2>3. flash' \in [Addr -> Word]
    BY <2>1 DEF Inv, Typed
  <2>4. ~Full => \A a \in Addr : a >= TosSize => flash'[a] = flash[a]
    BY <2>1, <2>2, Layout DEF Inv, Typed, Addr
  <2>5. InArea'
    BY <2>1 DEF Inv, InArea, Count
  <2> QED
    BY <2>1, <2>3, <2>4, <2>5, ChipStep
<1>8. ASSUME NEW upto \in Addr, EraseFails(upto) PROVE Inv'
  <2>1. /\ pc = "erase" /\ pc' = "error" /\ Starts[sect] # TosSize
        /\ flash' = HalfErased(flash, sect, upto)
        /\ UNCHANGED <<input, file, beyond, old>>
    BY <1>8 DEF EraseFails
  <2>2. /\ Starts[sect + 1] <= TosSize
        /\ Starts[sect] \in Nat /\ Starts[sect + 1] \in Nat
    BY <2>1, NextSector, NorFlashAssumption, Layout DEF Inv, InArea
  <2>3. flash' \in [Addr -> Word]
    BY <2>1, Layout DEF Inv, Typed, HalfErased
  <2>4. \A a \in Addr : a >= TosSize => flash'[a] = flash[a]
    BY <2>1, <2>2, Layout DEF HalfErased, Cells, Addr
  <2>5. InArea'
    BY <2>1 DEF InArea
  <2> QED
    BY <2>1, <2>3, <2>4, <2>5, ChipStep
<1>9. ASSUME NEW a \in Addr, NEW w \in Word, Decay(a, w) PROVE Inv'
  <2>1. /\ pc = "verify" /\ pc' = "verify" /\ a < TosSize
        /\ flash' = [flash EXCEPT ![a] = w]
        /\ UNCHANGED <<input, file, beyond, old>>
    BY <1>9 DEF Decay
  <2>2. flash' \in [Addr -> Word]
    BY <2>1 DEF Inv, Typed
  <2>3. \A c \in Addr : c >= TosSize => flash'[c] = flash[c]
    BY <2>1, Layout DEF Inv, Typed, Addr
  <2>4. InArea'
    BY <2>1 DEF InArea
  <2> QED
    BY <2>1, <2>2, <2>3, <2>4, ChipStep
<1>10. CASE PowerCut
  BY <1>10, Passes DEF PowerCut
<1>11. CASE UNCHANGED vars
  BY <1>11 DEF vars, Inv, Typed, Made, InArea, Kept, Verified, Count, Full, Compared
<1> QED
  BY <1>1, <1>2, <1>3, <1>4, <1>5, <1>6, <1>7, <1>8, <1>9, <1>10, <1>11
  DEF Next, write_flash, Chip

-----------------------------------------------------------------------------
(* Every state of flash.ttp satisfies the invariant, whatever the chip     *)
(* does and wherever the power goes.                                       *)
THEOREM Invariant == Spec => []Inv
<1>1. Init => Inv
  BY InvInit
<1>2. Inv /\ [Next]_vars => Inv'
  BY InvNext
<1> QED
  BY <1>1, <1>2, PTL DEF Spec

(* With OK the chip holds the code as gentos has patched it: up to its end *)
(* all the bits of every word have been compared.                          *)
LEMMA CodeThere ==
  ASSUME Inv, pc = "ok", NEW a \in 0 .. FlashSize(input.patches) - 1
  PROVE  /\ a \in Area
         /\ flash[a] = IF a = TosHalf - 1 THEN Checksum(input) ELSE Copied(input, a)
<1> DEFINE in == input
           top == FlashSize(in.patches)
<1>1. in \in Inputs /\ ~Refused(in) /\ file = gentos(in)
  BY DEF Inv, Typed, Made
<1>2. /\ Len(file.data) = FileLen(in) /\ FileLen(in) \in TosHalf .. TosSize
      /\ top <= FileLen(in) /\ (in.with_tests => top <= TestsAt)
      /\ top \in TosHalf .. TosSize
  BY <1>1, FileTyped, SizeBounds
<1>3. /\ TestsRead(in) \in 0 .. TestsSize /\ TestsRead(in) <= Len(in.tests)
      /\ Len(in.tests) \in Nat /\ in.with_tests \in BOOLEAN
  BY <1>1, TestsBounds
<1>4. a \in 0 .. FileLen(in) - 1 /\ a + 1 \in 1 .. FileLen(in) /\ a \in Area /\ a \in Addr
      /\ a < top /\ (a + 1) - 1 = a
  BY <1>2, Layout DEF Area, Addr
<1>5. file.data[a + 1] = Content(in, a)
  BY <1>1, <1>2, <1>4, Layout, WordMade
<1>6. Content(in, a) = IF a = TosHalf - 1 THEN Checksum(in) ELSE Copied(in, a)
  BY <1>2, <1>3, <1>4, Layout DEF Content
<1>7. Compared(a) = Bits
  <2> SUFFICES ASSUME file.odd, a = Len(file.data) - 1 PROVE FALSE
    BY Zenon DEF Compared
  <2>1. in.with_tests /\ Len(in.tests) \in 1 .. TestsSize
    BY <1>1, FileMade, Zenon
  <2>2. FileLen(in) = TestsAt + Len(in.tests)
    BY <2>1, <1>3 DEF FileLen, TestsRead
  <2> QED
    BY <1>2, <1>3, <1>4, <2>1, <2>2, Layout
<1>8. flash[a] \cap Bits = file.data[a + 1] \cap Bits
  BY <1>2, <1>4, <1>7 DEF Inv, Verified
<1>9. flash[a] \in Word
  BY <1>4 DEF Inv, Typed
<1>10. Content(in, a) \in Word
  BY <1>1, <1>4, <1>6, ChecksumWord, PatchedBuffer
<1>11. flash[a] = Content(in, a)
  BY <1>5, <1>8, <1>9, <1>10 DEF Word
<1> QED
  BY <1>4, <1>6, <1>11

(* A word of the code is the last patch over it, the date or TOS's.        *)
LEMMA CodeHolds ==
  ASSUME Inv, pc = "ok", NEW a \in Code
  PROVE  Holds(a)
<1> DEFINE in == input
           L == Len(in.patches)
           over == Over(in.patches, L, a)
<1>1. in \in Inputs /\ ~Refused(in)
  BY DEF Inv, Typed, Made
<1>2. DOMAIN in.patches = 1 .. L
  BY <1>1, PatchesTyped
<1>3. over = {i \in DOMAIN in.patches : a \in Block(in.patches[i])}
  BY <1>2 DEF Over
<1>4. IsPatched(a) <=> over # {}
  BY <1>3 DEF IsPatched
<1>5. a \in 0 .. TosSize - 1 /\ a # TosHalf - 1 /\ (IsPatched(a) \/ a < TosHalf)
  BY DEF Code
<1>6. a \in 0 .. FlashSize(in.patches) - 1
  <2>1. CASE IsPatched(a)
    <3>1. PICK i \in DOMAIN in.patches : a \in Block(in.patches[i])
      BY <2>1 DEF IsPatched
    <3>2. a < FlashSize(in.patches)
      BY <1>1, <3>1, BlocksBelow
    <3> QED
      BY <1>1, <1>5, <3>2, SizeBounds, Layout
  <2>2. CASE a < TosHalf
    BY <1>1, <1>5, <2>2, SizeBounds, Layout
  <2> QED
    BY <1>5, <2>1, <2>2
<1>7. flash[a] = Copied(in, a)
  BY <1>5, <1>6, CodeThere
<1>8. CASE IsPatched(a)
  <2>1. LastPatch(a) = in.patches[Latest(in.patches, L, a)]
    BY <1>3 DEF LastPatch, Latest
  <2>2. flash[a] = WordOf(LastPatch(a), a)
    BY <1>4, <1>7, <1>8, <2>1 DEF Copied
  <2> QED
    BY <1>8, <2>2, Zenon DEF Holds, WordOf
<1>9. CASE ~IsPatched(a)
  <2>1. flash[a] = Base(in, a) /\ a < TosHalf
    BY <1>4, <1>5, <1>7, <1>9 DEF Copied
  <2>2. CASE a = DateAt
    BY <1>9, <2>1, <2>2 DEF Holds, Base
  <2>3. CASE a # DateAt
    BY <1>9, <2>1, <2>3 DEF Holds, Base
  <2> QED
    BY <2>2, <2>3
<1> QED
  BY <1>8, <1>9

(* The checksum in the chip is the one of the chip's first half.           *)
LEMMA SumHolds ==
  ASSUME Inv, pc = "ok"
  PROVE  flash[TosHalf - 1] = Crc([i \in 1 .. TosHalf - 1 |-> flash[i - 1]])
<1>1. FlashSize(input.patches) \in TosHalf .. TosSize
  BY SizeBounds DEF Inv, Typed
<1>2. flash[TosHalf - 1] = Checksum(input)
  BY <1>1, CodeThere, Layout
<1>3. \A i \in 1 .. TosHalf - 1 : flash[i - 1] = Copied(input, i - 1)
  <2> TAKE i \in 1 .. TosHalf - 1
  <2>1. i - 1 \in 0 .. FlashSize(input.patches) - 1 /\ i - 1 # TosHalf - 1
    BY <1>1, Layout
  <2> QED
    BY <2>1, CodeThere
<1>4. [i \in 1 .. TosHalf - 1 |-> flash[i - 1]] = [i \in 1 .. TosHalf - 1 |-> Copied(input, i - 1)]
  BY <1>3
<1> QED
  BY <1>2, <1>4 DEF Checksum

(* The tests are at their place, to the last byte.                         *)
LEMMA TestsHold ==
  ASSUME Inv, pc = "ok", input.with_tests, NEW i \in 1 .. TestsRead(input)
  PROVE  TestHolds(i)
<1> DEFINE in == input
           a == TestsAt + i - 1
<1>1. in \in Inputs /\ ~Refused(in) /\ file = gentos(in)
  BY DEF Inv, Typed, Made
<1>2. /\ TestsRead(in) \in 0 .. TestsSize /\ TestsRead(in) <= Len(in.tests)
      /\ Len(in.tests) \in Nat
  BY <1>1, TestsBounds
<1>3. Len(file.data) = TestsAt + TestsRead(in) /\ FileLen(in) = TestsAt + TestsRead(in)
  BY <1>1, FileTyped DEF FileLen
<1>4. /\ a \in 0 .. FileLen(in) - 1 /\ FileLen(in) \in Nat
      /\ a \in TestsAt .. TestsAt + TestsRead(in) - 1 /\ a - TestsAt + 1 = i
  BY <1>2, <1>3, Layout
<1>5. file.data[a + 1] = Content(in, a)
  BY <1>1, <1>2, <1>3, <1>4, Layout, WordMade
<1>6. Content(in, a) = in.tests[i]
  BY <1>4 DEF Content
<1>7. flash[a] \cap Compared(a) = in.tests[i] \cap Compared(a)
  BY <1>3, <1>4, <1>5, <1>6 DEF Inv, Verified
<1>8. file.odd => (a = Len(file.data) - 1 <=> i = Len(in.tests))
  <2> SUFFICES ASSUME file.odd PROVE a = Len(file.data) - 1 <=> i = Len(in.tests)
    OBVIOUS
  <2>1. Len(in.tests) \in 1 .. TestsSize
    BY <1>1, FileMade, Zenon
  <2>2. TestsRead(in) = Len(in.tests)
    BY <2>1, Layout DEF TestsRead
  <2> QED
    BY <1>2, <1>3, <2>2, Layout
<1>9. Compared(a) = IF file.odd /\ i = Len(in.tests) THEN High ELSE Bits
  BY <1>8, Zenon DEF Compared
<1> QED
  BY <1>7, <1>9, Zenon DEF TestHolds

(* "OK" means the machine can start: TOS with its date, every patch where  *)
(* the linker put it, the hardware tests at their place and the checksum   *)
(* are in the chip, and, unless the file fills the area, the parameters    *)
(* are those from before; through every fault of the chip and power cut.   *)
THEOREM Bootable == Spec => []OkIsBootable
<1>1. Inv => OkIsBootable
  <2> SUFFICES ASSUME Inv, pc = "ok" PROVE OkIsBootable
    BY DEF OkIsBootable
  <2>1. \A a \in Code : Holds(a)
    BY CodeHolds
  <2>2. input.with_tests => \A i \in 1 .. TestsRead(input) : TestHolds(i)
    BY TestsHold
  <2>3. ~Full => \A a \in Addr : a >= TosSize => flash[a] = old[a]
    BY DEF Inv, Kept
  <2> QED
    BY <2>1, <2>2, <2>3, SumHolds DEF OkIsBootable
<1> QED
  BY <1>1, Invariant, PTL
=============================================================================
