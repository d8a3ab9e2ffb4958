----------------------- MODULE ClockGenerator_proofs -----------------------
(***************************************************************************)
(* What a call of the clock generator's driver leaves behind: after any    *)
(* prefix of its writes a chip is still one, writing the registers in      *)
(* force leaves the EEPROM alone, and a call that ends well makes the      *)
(* frequency it was given, but for a step.                                 *)
(*                                                                         *)
(* A call is a sequence of writes, and the chip after each of them a       *)
(* recursive function: what holds after every write is shown by induction  *)
(* on their number.                                                        *)
(***************************************************************************)
EXTENDS ClockGenerator, WellFoundedInduction, TLAPS

-----------------------------------------------------------------------------
(* Induction in set form.                                                  *)
\* A set of numbers that is not empty has a least one.
LEMMA LeastNumber ==
  ASSUME NEW T \in SUBSET Nat, T # {}
  PROVE  \E n \in T : \A m \in T : n <= m
<1>. DEFINE Less == {p \in Nat \X Nat : p[1] < p[2]}
<1>1. IsWellFoundedOn(Less, Nat)
  BY NatLessThanWellFounded, Zenon DEF OpToRel
<1>2. PICK n \in T : \A m \in T : ~ (<<m, n>> \in Less)
  BY <1>1, WFMin
<1>3. \A m \in T : ~ (m < n)
  BY <1>2
<1> QED
  BY <1>3

\* A set with 0 and each successor of its numbers has all of them.
LEMMA Induct ==
  ASSUME NEW S, 0 \in S, \A n \in Nat : n \in S => n + 1 \in S
  PROVE  Nat \subseteq S
<1> SUFFICES ASSUME NEW k \in Nat, k \notin S PROVE FALSE
  OBVIOUS
<1> DEFINE T == {n \in Nat : n \notin S}
<1>1. PICK n \in T : \A m \in T : n <= m
  BY LeastNumber
<1>2. n # 0 /\ n - 1 \in Nat /\ n - 1 \notin T
  BY <1>1
<1> QED
  BY <1>2

-----------------------------------------------------------------------------
(* The words of the chips.                                                 *)
\* A register of the Cypress.
LEMMA ByteIs == \A x : x \in BYTES <=> x \in Int /\ 0 <= x /\ x <= 255
  BY DEF BYTES

\* The step of the DS1085.
LEMMA DacIs == \A x : x \in DACWORDS <=> x \in Int /\ 0 <= x /\ x <= 1023
  BY DEF DACWORDS

-----------------------------------------------------------------------------
(* Sequences of writes.                                                    *)
\* The chip after each of some writes: as it was before the first, and each
\* time as the write leaves what the one before it left.
LEMMA AfterIs ==
  ASSUME NEW c, NEW ws, Len(ws) \in Nat
  PROVE  /\ AfterWrites(c, ws)[0] = c
         /\ \A n \in 1 .. Len(ws) :
              AfterWrites(c, ws)[n] = Written(AfterWrites(c, ws)[n - 1], ws[n])
<1> DEFINE L == Len(ws)
           Loop(f) == [n \in 0 .. L |-> IF n = 0 THEN c ELSE Written(f[n - 1], ws[n])]
           after == CHOOSE f : f = Loop(f)
           Upto(n, f) == f[0] = c /\ \A k \in 1 .. n : f[k] = Written(f[k - 1], ws[k])
           S == {n \in Nat : n <= L => \E f : Upto(n, f)}
<1>1. 0 \in S
  <2> DEFINE f == [n \in {0} |-> c]
  <2>1. Upto(0, f)
    OBVIOUS
  <2> QED
    BY <2>1
<1>2. \A n \in Nat : n \in S => n + 1 \in S
  <2> SUFFICES ASSUME NEW n \in Nat, n \in S, n + 1 <= L
               PROVE  \E f : Upto(n + 1, f)
    OBVIOUS
  <2>1. PICK f : Upto(n, f)
    OBVIOUS
  <2> DEFINE w == Written(f[n], ws[n + 1])
             g == [k \in 0 .. n + 1 |-> IF k <= n THEN f[k] ELSE w]
  <2>2. g[0] = c /\ g[n + 1] = w /\ \A k \in 1 .. n : g[k] = f[k] /\ g[k - 1] = f[k - 1]
    <3> HIDE DEF w
    <3> QED
      BY <2>1
  <2>3. g[n] = f[n]
    OBVIOUS
  <2> HIDE DEF g
  <2>4. \A k \in 1 .. n + 1 : g[k] = Written(g[k - 1], ws[k])
    <3> SUFFICES ASSUME NEW k \in 1 .. n + 1 PROVE g[k] = Written(g[k - 1], ws[k])
      OBVIOUS
    <3>1. CASE k = n + 1
      BY <2>2, <2>3, <3>1
    <3>2. CASE k # n + 1
      <4>1. k \in 1 .. n
        BY <3>2
      <4>2. f[k] = Written(f[k - 1], ws[k])
        BY <2>1, <4>1
      <4> QED
        BY <2>2, <4>1, <4>2
    <3> QED
      BY <3>1, <3>2
  <2>5. Upto(n + 1, g)
    BY <2>2, <2>4
  <2> QED
    BY <2>5
<1>3. \E f : Upto(L, f)
  <2> HIDE DEF S
  <2>1. Nat \subseteq S
    BY <1>1, <1>2, Induct
  <2> QED
    BY <2>1 DEF S
<1>4. \E f : f = Loop(f)
  <2>1. PICK f : Upto(L, f)
    BY <1>3
  <2> DEFINE g == [n \in 0 .. L |-> f[n]]
  <2>2. \A n \in 0 .. L : g[n] = IF n = 0 THEN c ELSE Written(g[n - 1], ws[n])
    <3> SUFFICES ASSUME NEW n \in 0 .. L, n # 0 PROVE g[n] = Written(g[n - 1], ws[n])
      BY <2>1
    <3>1. n \in 1 .. L /\ n - 1 \in 0 .. L
      OBVIOUS
    <3>2. f[n] = Written(f[n - 1], ws[n])
      BY <2>1, <3>1
    <3> QED
      BY <3>1, <3>2
  <2>3. g = Loop(g)
    <3>1. g = [n \in 0 .. L |-> g[n]]
      OBVIOUS
    <3> HIDE DEF g
    <3> QED
      BY <2>2, <3>1
  <2> QED
    BY <2>3
<1>5. after = Loop(after)
  <2> HIDE DEF Loop
  <2> QED
    BY <1>4, Zenon
<1> HIDE DEF after
<1>6. after[0] = c /\ \A n \in 1 .. L : after[n] = Written(after[n - 1], ws[n])
  <2>1. \A n \in 0 .. L : after[n] = IF n = 0 THEN c ELSE Written(after[n - 1], ws[n])
    BY <1>5
  <2> QED
    BY <2>1
<1>7. AfterWrites(c, ws) = after
  BY Zenon DEF AfterWrites, after
<1> QED
  BY <1>6, <1>7

\* One sequence behind another.
LEMMA Joined ==
  ASSUME NEW S, NEW s \in Seq(S), NEW t \in Seq(S)
  PROVE  /\ s \o t \in Seq(S) /\ Len(s \o t) = Len(s) + Len(t)
         /\ \A i \in 1 .. Len(s) : (s \o t)[i] = s[i]
         /\ \A i \in 1 .. Len(t) : (s \o t)[Len(s) + i] = t[i]
  OBVIOUS

\* The writes of the DS1085: after those of ADR and MUXWORD the step and the
\* range, and for the EEPROM the transfer.
DallasList(ws, f, r, mode) ==
  \E k \in Nat :
    /\ Len(ws) = IF mode = "rom" THEN k + 3 ELSE k + 2
    /\ \A n \in 1 .. k : ws[n][1] = "ram" /\ ws[n][2] \in {"ADR", "MUXWORD"}
    /\ ws[k + 1] = <<"ram", "DACWORD", DallasDac(f)>>
    /\ ws[k + 2] = <<"ram", "OFFSET", DallasOffset(f) + r.RANGEWORD>>
    /\ mode = "rom" => ws[k + 3][2] = "WRITEE2"

\* Those writes are what DallasWrites gives.
LEMMA DallasWritesAre ==
  ASSUME NEW f, NEW r, NEW mode \in {"ram", "rom"}
  PROVE  DallasList(DallasWrites(f, r, mode), f, r, mode)
<1> DEFINE ws == DallasWrites(f, r, mode)
           off == (r.ADR \div 8) % 2 = 0
           wa == <<"ram", "ADR", 8>>
           wm == <<"ram", "MUXWORD", IF f > 51000 THEN 4800 ELSE 4672>>
           wd == <<"ram", "DACWORD", DallasDac(f)>>
           wo == <<"ram", "OFFSET", DallasOffset(f) + r.RANGEWORD>>
           we == <<"rom", "WRITEE2", 0>>
           S == {wa, wm, wd, wo, we}
           before == IF off THEN << wa >> ELSE << >>
           main == << wm, wd, wo >>
           behind == IF mode = "rom" THEN << we >> ELSE << >>
<1>1. ws = (before \o main) \o behind
  BY DEF DallasWrites
<1>2. /\ wa[1] = "ram" /\ wa[2] = "ADR" /\ wm[1] = "ram" /\ wm[2] = "MUXWORD" /\ we[2] = "WRITEE2"
  OBVIOUS
<1> HIDE DEF ws, off, wa, wm, wd, wo, we
<1>3. /\ before \in Seq(S) /\ main \in Seq(S) /\ behind \in Seq(S)
      /\ Len(before) = (IF off THEN 1 ELSE 0) /\ Len(main) = 3
      /\ Len(behind) = (IF mode = "rom" THEN 1 ELSE 0)
      /\ off => before[1] = wa
      /\ main[1] = wm /\ main[2] = wd /\ main[3] = wo
      /\ mode = "rom" => behind[1] = we
  <2>1. /\ before \in Seq(S) /\ Len(before) = (IF off THEN 1 ELSE 0)
        /\ off => before[1] = wa
    <3>1. CASE off
      BY <3>1
    <3>2. CASE ~off
      BY <3>2
    <3> QED
      BY <3>1, <3>2
  <2>2. main \in Seq(S) /\ Len(main) = 3 /\ main[1] = wm /\ main[2] = wd /\ main[3] = wo
    OBVIOUS
  <2>3. /\ behind \in Seq(S) /\ Len(behind) = (IF mode = "rom" THEN 1 ELSE 0)
        /\ mode = "rom" => behind[1] = we
    <3>1. CASE mode = "rom"
      BY <3>1
    <3>2. CASE mode # "rom"
      BY <3>2
    <3> QED
      BY <3>1, <3>2
  <2> QED
    BY <2>1, <2>2, <2>3, Zenon
<1> HIDE DEF before, main, behind, S
<1>4. /\ before \o main \in Seq(S) /\ Len(before \o main) = Len(before) + 3
      /\ \A i \in 1 .. Len(before) : (before \o main)[i] = before[i]
      /\ \A i \in 1 .. 3 : (before \o main)[Len(before) + i] = main[i]
  <2>1. /\ before \o main \in Seq(S) /\ Len(before \o main) = Len(before) + Len(main)
        /\ \A i \in 1 .. Len(before) : (before \o main)[i] = before[i]
        /\ \A i \in 1 .. Len(main) : (before \o main)[Len(before) + i] = main[i]
    <3>1. before \in Seq(S) /\ main \in Seq(S)
      BY <1>3, Zenon
    <3> QED
      BY <3>1, Joined
  <2> QED
    BY <1>3, <2>1
<1>5. /\ Len(ws) = Len(before) + 3 + Len(behind)
      /\ \A i \in 1 .. Len(before) + 3 : ws[i] = (before \o main)[i]
      /\ \A i \in 1 .. Len(behind) : ws[Len(before) + 3 + i] = behind[i]
  <2> DEFINE s == before \o main
  <2>1. ws = s \o behind /\ s \in Seq(S) /\ Len(s) = Len(before) + 3
    BY <1>1, <1>4
  <2> HIDE DEF s
  <2>2. /\ Len(ws) = Len(s) + Len(behind)
        /\ \A i \in 1 .. Len(s) : ws[i] = s[i]
        /\ \A i \in 1 .. Len(behind) : ws[Len(s) + i] = behind[i]
    <3>1. s \in Seq(S) /\ behind \in Seq(S)
      BY <1>3, <2>1, Zenon
    <3>2. ws = s \o behind
      BY <2>1
    <3> QED
      BY <3>1, <3>2, Joined
  <2> QED
    BY <1>3, <2>1, <2>2 DEF s
<1> DEFINE k == Len(before) + 1
<1>6. k \in Nat /\ Len(before) \in {0, 1}
  BY <1>3
<1>7. Len(ws) = IF mode = "rom" THEN k + 3 ELSE k + 2
  BY <1>3, <1>5
<1>8. \A n \in 1 .. k : ws[n] \in {wa, wm}
  BY <1>3, <1>4, <1>5
<1>9. ws[k + 1] = wd /\ ws[k + 2] = wo /\ (mode = "rom" => ws[k + 3] = we)
  BY <1>3, <1>4, <1>5
<1>10. \A n \in 1 .. k : ws[n][1] = "ram" /\ ws[n][2] \in {"ADR", "MUXWORD"}
  BY <1>2, <1>8
<1>11. mode = "rom" => ws[k + 3][2] = "WRITEE2"
  BY <1>2, <1>9
<1> HIDE DEF k
<1>12. DallasList(ws, f, r, mode)
  BY <1>6, <1>7, <1>9, <1>10, <1>11 DEF DallasList, wd, wo
<1> QED
  BY <1>12 DEF ws

\* The writes of the CY27EE16: for the EEPROM first the write enable in the
\* register in force, then fourteen registers, each once.
CypressList(ws, f, mode) ==
  LET m == CypressMultiplier(f)
      k == IF mode = "rom" THEN 1 ELSE 0
  IN  /\ Len(ws) = k + 14
      /\ mode = "rom" => ws[1] = <<"ram", "WPREG", 12>>
      /\ ws[k + 1] = <<mode, "MATRIX2", Matrix2(f)>>
      /\ ws[k + 2] = <<mode, "MATRIX3", Matrix3(f)>>
      /\ ws[k + 3] = <<mode, "CHARGEP", ChargePump(m.p)>>
      /\ ws[k + 4] = <<mode, "PBCOUNTER", ((m.p \div 2) - 4) % 256>>
      /\ ws[k + 5] = <<mode, "QCOUNTER", 128 * (m.p % 2) + m.q - 2>>
      /\ ws[k + 6] = <<mode, "CLKOE", 105>>    /\ ws[k + 7] = <<mode, "DIV1N", 6>>
      /\ ws[k + 8] = <<mode, "PINCTRL", 80>>   /\ ws[k + 9] = <<mode, "OSCDRV", 40>>
      /\ ws[k + 10] = <<mode, "INLOAD", 107>>  /\ ws[k + 11] = <<mode, "ADCREG", 0>>
      /\ ws[k + 12] = <<mode, "MATRIX1", 182>> /\ ws[k + 13] = <<mode, "DIV2N", 8>>
      /\ ws[k + 14] = <<mode, "WPREG", 28>>

\* Those writes are what CypressWrites gives.
LEMMA CypressWritesAre ==
  ASSUME NEW f, NEW mode \in {"ram", "rom"}
  PROVE  CypressList(CypressWrites(f, mode), f, mode)
<1> DEFINE m2 == Matrix2(f)
           m3 == Matrix3(f)
           cp == ChargePump(CypressMultiplier(f).p)
           pb == ((CypressMultiplier(f).p \div 2) - 4) % 256
           qc == 128 * (CypressMultiplier(f).p % 2) + CypressMultiplier(f).q - 2
           first == << <<"MATRIX2", m2>>, <<"MATRIX3", m3>>, <<"CHARGEP", cp>>,
                       <<"PBCOUNTER", pb>>, <<"QCOUNTER", qc>> >>
           S == {first[i] : i \in 1 .. 5} \cup {tab_cy_reg[i] : i \in 1 .. 9}
           regs == first \o tab_cy_reg
           body == [i \in 1 .. Len(regs) |-> <<mode, regs[i][1], regs[i][2]>>]
           ws == CypressWrites(f, mode)
<1>1. ws = (IF mode = "rom" THEN << <<"ram", "WPREG", 12>> >> ELSE << >>) \o body
  BY Zenon DEF CypressWrites
<1> HIDE DEF m2, m3, cp, pb, qc, ws
<1>2. /\ first[1] = <<"MATRIX2", m2>> /\ first[2] = <<"MATRIX3", m3>>
      /\ first[3] = <<"CHARGEP", cp>> /\ first[4] = <<"PBCOUNTER", pb>>
      /\ first[5] = <<"QCOUNTER", qc>> /\ Len(first) = 5 /\ first \in Seq(S)
  OBVIOUS
<1>3. /\ tab_cy_reg[1] = <<"CLKOE", 105>>   /\ tab_cy_reg[2] = <<"DIV1N", 6>>
      /\ tab_cy_reg[3] = <<"PINCTRL", 80>>  /\ tab_cy_reg[4] = <<"OSCDRV", 40>>
      /\ tab_cy_reg[5] = <<"INLOAD", 107>>  /\ tab_cy_reg[6] = <<"ADCREG", 0>>
      /\ tab_cy_reg[7] = <<"MATRIX1", 182>> /\ tab_cy_reg[8] = <<"DIV2N", 8>>
      /\ tab_cy_reg[9] = <<"WPREG", 28>>    /\ Len(tab_cy_reg) = 9
  BY DEF tab_cy_reg
<1>4. tab_cy_reg \in Seq(S)
  <2> HIDE DEF first
  <2>1. tab_cy_reg \in Seq({tab_cy_reg[i] : i \in 1 .. 9})
    BY DEF tab_cy_reg
  <2> QED
    BY <2>1
<1> HIDE DEF first, S
<1>5. /\ Len(regs) = 14 /\ \A i \in 1 .. 5 : regs[i] = first[i]
      /\ \A i \in 1 .. 9 : regs[5 + i] = tab_cy_reg[i]
  <2>1. /\ regs \in Seq(S) /\ Len(regs) = Len(first) + Len(tab_cy_reg)
        /\ \A i \in 1 .. Len(first) : regs[i] = first[i]
        /\ \A i \in 1 .. Len(tab_cy_reg) : regs[Len(first) + i] = tab_cy_reg[i]
    <3>1. first \in Seq(S) /\ tab_cy_reg \in Seq(S)
      BY <1>2, <1>4, Zenon
    <3> QED
      BY <3>1, Joined
  <2>2. Len(first) = 5 /\ Len(tab_cy_reg) = 9
    BY <1>2, <1>3, Zenon
  <2> HIDE DEF regs
  <2> QED
    BY <2>1, <2>2
<1> HIDE DEF regs
<1>6. /\ body[1] = <<mode, "MATRIX2", m2>> /\ body[2] = <<mode, "MATRIX3", m3>>
      /\ body[3] = <<mode, "CHARGEP", cp>> /\ body[4] = <<mode, "PBCOUNTER", pb>>
      /\ body[5] = <<mode, "QCOUNTER", qc>>
  BY <1>2, <1>5
<1>7. /\ body[6] = <<mode, "CLKOE", 105>>
      /\ body[7] = <<mode, "DIV1N", 6>> /\ body[8] = <<mode, "PINCTRL", 80>>
      /\ body[9] = <<mode, "OSCDRV", 40>> /\ body[10] = <<mode, "INLOAD", 107>>
      /\ body[11] = <<mode, "ADCREG", 0>> /\ body[12] = <<mode, "MATRIX1", 182>>
      /\ body[13] = <<mode, "DIV2N", 8>> /\ body[14] = <<mode, "WPREG", 28>>
  BY <1>3, <1>5
<1> DEFINE T == {body[i] : i \in 1 .. 14} \cup {<<"ram", "WPREG", 12>>}
<1>8. body \in Seq(T) /\ Len(body) = 14
  BY <1>5
<1> HIDE DEF body
<1>9. CASE mode = "rom"
  <2> DEFINE w == <<"ram", "WPREG", 12>>
             one == << w >>
  <2>1. ws = one \o body
    BY <1>1, <1>9
  <2>2. w \in T
    OBVIOUS
  <2> HIDE DEF w, T
  <2>3. one \in Seq(T) /\ Len(one) = 1 /\ one[1] = w
    BY <2>2
  <2> HIDE DEF one
  <2>4. Len(ws) = 15 /\ ws[1] = w /\ \A i \in 1 .. 14 : ws[1 + i] = body[i]
    <3>1. /\ Len(ws) = Len(one) + Len(body)
          /\ \A i \in 1 .. Len(one) : ws[i] = one[i]
          /\ \A i \in 1 .. Len(body) : ws[Len(one) + i] = body[i]
      <4>1. one \in Seq(T) /\ body \in Seq(T)
        BY <1>8, <2>3, Zenon
      <4> QED
        BY <2>1, <4>1, Joined
    <3> QED
      BY <1>8, <2>3, <3>1
  <2> QED
    BY <1>6, <1>7, <1>9, <2>4 DEF CypressList, w, ws, m2, m3, cp, pb, qc
<1>10. CASE mode = "ram"
  <2>1. ws = << >> \o body
    BY <1>1, <1>10
  <2>2. Len(ws) = 14 /\ \A i \in 1 .. 14 : ws[i] = body[i]
    BY <1>8, <2>1
  <2> QED
    BY <1>6, <1>7, <1>10, <2>2 DEF CypressList, ws, m2, m3, cp, pb, qc
<1> QED
  BY <1>9, <1>10

\* One write: a register in force or in the EEPROM, or the transfer of all.
LEMMA WriteIs ==
  ASSUME NEW c, DOMAIN c = {"kind", "ram", "rom"}, NEW w
  PROVE  /\ w[2] = "WRITEE2"
              => /\ DOMAIN Written(c, w) = DOMAIN c /\ Written(c, w).kind = c.kind
                 /\ Written(c, w).ram = c.ram /\ Written(c, w).rom = c.ram
         /\ w[2] # "WRITEE2" /\ w[1] \in {"ram", "rom"}
              => /\ DOMAIN Written(c, w) = DOMAIN c /\ Written(c, w).kind = c.kind
                 /\ \A bank \in {"ram", "rom"} :
                      /\ bank # w[1] => Written(c, w)[bank] = c[bank]
                      /\ bank = w[1] => /\ DOMAIN Written(c, w)[bank] = DOMAIN c[bank]
                                        /\ w[2] \in DOMAIN c[bank] => Written(c, w)[bank][w[2]] = w[3]
                                        /\ \A reg \in DOMAIN c[bank] \ {w[2]} :
                                             Written(c, w)[bank][reg] = c[bank][reg]
<1>1. CASE w[2] = "WRITEE2"
  BY <1>1 DEF Written
<1>2. CASE w[2] # "WRITEE2" /\ w[1] \in {"ram", "rom"}
  <2>1. Written(c, w) = [c EXCEPT ![w[1]] = [@ EXCEPT ![w[2]] = w[3]]]
    BY <1>2, Zenon DEF Written
  <2> QED
    BY <1>2, <2>1
<1> QED
  BY <1>1, <1>2

\* A step taken at each of some writes holds of all.
LEMMA Along ==
  ASSUME NEW m \in Nat, NEW len \in Nat, NEW P, DOMAIN P = 0 .. len,
         m \in 0 .. len, P[m] = TRUE,
         \A n \in m + 1 .. len : P[n - 1] = TRUE => P[n] = TRUE
  PROVE  \A n \in m .. len : P[n] = TRUE
<1> DEFINE S == {n \in Nat : m + n <= len => P[m + n] = TRUE}
<1>1. 0 \in S
  OBVIOUS
<1>2. \A n \in Nat : n \in S => n + 1 \in S
  <2> SUFFICES ASSUME NEW n \in Nat, n \in S, m + (n + 1) <= len PROVE P[m + (n + 1)] = TRUE
    OBVIOUS
  <2>1. P[m + n] = TRUE
    OBVIOUS
  <2>2. m + (n + 1) \in m + 1 .. len /\ (m + (n + 1)) - 1 = m + n
    OBVIOUS
  <2> QED
    BY <2>1, <2>2
<1>3. Nat \subseteq S
  <2> HIDE DEF S
  <2> QED
    BY <1>1, <1>2, Induct
<1> SUFFICES ASSUME NEW n \in m .. len PROVE P[n] = TRUE
  OBVIOUS
<1>4. n - m \in Nat
  OBVIOUS
<1>5. n - m \in S
  BY <1>3, <1>4, Zenon
<1>6. m + (n - m) = n /\ n <= len
  OBVIOUS
<1> QED
  BY <1>5, <1>6

-----------------------------------------------------------------------------
(* The DS1085 through the writes of a call.                                *)
\* What the writes before the step's leave: all but ADR and MUXWORD.
SameRange(c, a) ==
  /\ DOMAIN a = {"kind", "ram", "rom"} /\ a.kind = c.kind /\ a.rom = c.rom
  /\ DOMAIN a.ram = DOMAIN c.ram
  /\ \A reg \in DOMAIN c.ram \ {"ADR", "MUXWORD"} : a.ram[reg] = c.ram[reg]

\* Whatever prefix of the writes was done, a DS1085 is one; done all, its range
\* and step are those of the frequency, in the EEPROM too when that was asked
\* for, and the EEPROM is as it was when not.
LEMMA DallasConfigured ==
  ASSUME NEW c, IsChip(c), c.kind = "dallas", NEW f \in Int, NEW lim, NEW mode \in {"ram", "rom"},
         DallasLegal(f, c.ram, lim)
  PROVE  LET ws == DallasWrites(f, c.ram, mode)
             a  == AfterWrites(c, ws)
         IN  /\ Len(ws) \in Nat
             /\ \A n \in 0 .. Len(ws) :
                  /\ IsChip(a[n]) /\ a[n].kind = "dallas"
                  /\ mode = "ram" => a[n].rom = c.rom
             /\ \A bank \in {"ram", mode} :
                  /\ a[Len(ws)][bank].DACWORD = DallasDac(f)
                  /\ a[Len(ws)][bank].OFFSET - a[Len(ws)][bank].RANGEWORD = DallasOffset(f)
<1> DEFINE ws == DallasWrites(f, c.ram, mode)
           a  == AfterWrites(c, ws)
           d == DallasDac(f)
           o == DallasOffset(f)
           REGS == {"ADR", "MUXWORD", "DACWORD", "OFFSET", "RANGEWORD"}
<1>1. PICK k \in Nat :
               /\ Len(ws) = IF mode = "rom" THEN k + 3 ELSE k + 2
               /\ \A n \in 1 .. k : ws[n][1] = "ram" /\ ws[n][2] \in {"ADR", "MUXWORD"}
               /\ ws[k + 1] = <<"ram", "DACWORD", d>>
               /\ ws[k + 2] = <<"ram", "OFFSET", o + c.ram.RANGEWORD>>
               /\ mode = "rom" => ws[k + 3][2] = "WRITEE2"
  <2>1. DallasList(ws, f, c.ram, mode)
    BY DallasWritesAre, Zenon
  <2> HIDE DEF ws
  <2> QED
    BY <2>1, Zenon DEF DallasList
<1> HIDE DEF ws
<1>2. Len(ws) \in Nat /\ k + 2 <= Len(ws)
  BY <1>1
<1>3. a[0] = c /\ \A n \in 1 .. Len(ws) : a[n] = Written(a[n - 1], ws[n])
  BY <1>2, AfterIs
<1>4. /\ DOMAIN c = {"kind", "ram", "rom"} /\ IsDallas(c.ram) /\ IsDallas(c.rom)
      /\ DOMAIN c.ram = REGS
  BY DEF IsChip, IsDallas
<1>5. d \in DACWORDS /\ o \in -6 .. 6 /\ o + c.ram.RANGEWORD \in 0 .. 31
      /\ c.ram.RANGEWORD \in 0 .. 31
  BY <1>4 DEF DallasLegal, IsDallas
<1> HIDE DEF a, d, o
<1>6. \A n \in 0 .. k : SameRange(c, a[n])
  <2> DEFINE P == [n \in 0 .. k |-> SameRange(c, a[n])]
  <2>1. P[0] = TRUE
    BY <1>3, <1>4 DEF SameRange
  <2>2. \A n \in 0 + 1 .. k : P[n - 1] = TRUE => P[n] = TRUE
    <3> SUFFICES ASSUME NEW n \in 1 .. k, SameRange(c, a[n - 1]) PROVE SameRange(c, a[n])
      OBVIOUS
    <3>1. a[n] = Written(a[n - 1], ws[n]) /\ ws[n][1] = "ram" /\ ws[n][2] \in {"ADR", "MUXWORD"}
      BY <1>1, <1>2, <1>3
    <3> DEFINE b == a[n - 1]
               w == ws[n]
    <3>2. DOMAIN b = {"kind", "ram", "rom"} /\ w[2] # "WRITEE2" /\ w[1] \in {"ram", "rom"}
      BY <3>1 DEF SameRange
    <3> HIDE DEF b, w
    <3>3. /\ DOMAIN Written(b, w) = DOMAIN b /\ Written(b, w).kind = b.kind
          /\ \A bank \in {"ram", "rom"} :
                      /\ bank # w[1] => Written(b, w)[bank] = b[bank]
                      /\ bank = w[1] => /\ DOMAIN Written(b, w)[bank] = DOMAIN b[bank]
                                        /\ \A reg \in DOMAIN b[bank] \ {w[2]} :
                                             Written(b, w)[bank][reg] = b[bank][reg]
      BY <3>2, WriteIs
    <3> QED
      BY <3>1, <3>2, <3>3 DEF SameRange, b, w
  <2> HIDE DEF P
  <2>3. \A n \in 0 .. k : P[n] = TRUE
    <3>1. DOMAIN P = 0 .. k /\ 0 \in Nat /\ 0 \in 0 .. k
      BY DEF P
    <3> QED
      BY <2>1, <2>2, <3>1, Along
  <2> QED
    BY <2>3 DEF P
<1>7. \A n \in 0 .. k : IsChip(a[n]) /\ a[n].kind = "dallas" /\ a[n].rom = c.rom
  <2> SUFFICES ASSUME NEW n \in 0 .. k
               PROVE  IsChip(a[n]) /\ a[n].kind = "dallas" /\ a[n].rom = c.rom
    OBVIOUS
  <2> DEFINE b == a[n]
  <2>1. SameRange(c, b)
    BY <1>6
  <2> HIDE DEF b
  <2>2. /\ DOMAIN b.ram = REGS /\ b.ram.DACWORD = c.ram.DACWORD
        /\ b.ram.OFFSET = c.ram.OFFSET /\ b.ram.RANGEWORD = c.ram.RANGEWORD
    BY <1>4, <2>1 DEF SameRange
  <2>3. IsDallas(b.ram)
    <3> DEFINE x == b.ram
               y == c.ram
    <3>1. /\ DOMAIN x = REGS /\ x.DACWORD = y.DACWORD
          /\ x.OFFSET = y.OFFSET /\ x.RANGEWORD = y.RANGEWORD /\ IsDallas(y)
      BY <1>4, <2>2
    <3> HIDE DEF x, y
    <3>2. IsDallas(x)
      BY <3>1 DEF IsDallas
    <3> QED
      BY <3>2 DEF x
  <2>4. b.kind = "dallas" /\ b.rom = c.rom /\ DOMAIN b = {"kind", "ram", "rom"}
    BY <2>1 DEF SameRange
  <2> QED
    BY <1>4, <2>3, <2>4 DEF IsChip, b
<1> DEFINE a1 == a[k + 1]
           a2 == a[k + 2]
           a3 == a[k + 3]
<1>8. /\ DOMAIN a1 = {"kind", "ram", "rom"} /\ a1.kind = "dallas" /\ a1.rom = c.rom
      /\ DOMAIN a1.ram = REGS /\ a1.ram.DACWORD = d
      /\ a1.ram.OFFSET = c.ram.OFFSET /\ a1.ram.RANGEWORD = c.ram.RANGEWORD
  <2> DEFINE b == a[k]
             w == ws[k + 1]
  <2>1. a1 = Written(b, w) /\ w = <<"ram", "DACWORD", d>>
    <3>1. k + 1 \in 1 .. Len(ws) /\ (k + 1) - 1 = k
      BY <1>2
    <3> QED
      BY <1>1, <1>3, <3>1
  <2>2. SameRange(c, b)
    BY <1>6
  <2>3. DOMAIN b = {"kind", "ram", "rom"} /\ w[1] = "ram" /\ w[2] = "DACWORD" /\ w[3] = d
    BY <2>1, <2>2 DEF SameRange
  <2> HIDE DEF a1, b, w
  <2>4. /\ DOMAIN Written(b, w) = DOMAIN b /\ Written(b, w).kind = b.kind
        /\ Written(b, w).rom = b.rom /\ DOMAIN Written(b, w).ram = DOMAIN b.ram
        /\ w[2] \in DOMAIN b.ram => Written(b, w).ram[w[2]] = w[3]
        /\ \A reg \in DOMAIN b.ram \ {w[2]} : Written(b, w).ram[reg] = b.ram[reg]
    BY <2>3, WriteIs
  <2> QED
    BY <1>4, <2>1, <2>2, <2>3, <2>4 DEF SameRange
<1>9. /\ DOMAIN a2 = {"kind", "ram", "rom"} /\ a2.kind = "dallas" /\ a2.rom = c.rom
      /\ DOMAIN a2.ram = REGS /\ a2.ram.DACWORD = d
      /\ a2.ram.OFFSET = o + c.ram.RANGEWORD /\ a2.ram.RANGEWORD = c.ram.RANGEWORD
  <2> DEFINE w == ws[k + 2]
  <2>1. a2 = Written(a1, w) /\ w = <<"ram", "OFFSET", o + c.ram.RANGEWORD>>
    <3>1. k + 2 \in 1 .. Len(ws) /\ (k + 2) - 1 = k + 1
      BY <1>2
    <3> QED
      BY <1>1, <1>3, <3>1
  <2>3. w[1] = "ram" /\ w[2] = "OFFSET" /\ w[3] = o + c.ram.RANGEWORD
    BY <2>1
  <2> HIDE DEF a1, a2, w
  <2>4. /\ DOMAIN Written(a1, w) = DOMAIN a1 /\ Written(a1, w).kind = a1.kind
        /\ Written(a1, w).rom = a1.rom /\ DOMAIN Written(a1, w).ram = DOMAIN a1.ram
        /\ w[2] \in DOMAIN a1.ram => Written(a1, w).ram[w[2]] = w[3]
        /\ \A reg \in DOMAIN a1.ram \ {w[2]} : Written(a1, w).ram[reg] = a1.ram[reg]
    BY <1>8, <2>3, WriteIs
  <2> QED
    BY <1>8, <2>1, <2>3, <2>4
<1>10. IsChip(a1) /\ IsChip(a2)
  <2> DEFINE m1 == a1.ram
             m2 == a2.ram
             range == c.ram.RANGEWORD
  <2>1. /\ DOMAIN m1 = REGS /\ m1.DACWORD = d /\ m1.RANGEWORD = range
        /\ m1.OFFSET = c.ram.OFFSET
    BY <1>8
  <2>2. /\ DOMAIN m2 = REGS /\ m2.DACWORD = d /\ m2.RANGEWORD = range
        /\ m2.OFFSET = o + range
    BY <1>9
  <2>3. c.ram.OFFSET \in 0 .. 31 /\ c.ram.OFFSET - range \in -6 .. 6
    BY <1>4 DEF IsDallas
  <2>4. d \in DACWORDS /\ o \in -6 .. 6 /\ o + range \in 0 .. 31 /\ range \in 0 .. 31
    BY <1>5
  <2>5. (o + range) - range = o
    BY <2>4
  <2> HIDE DEF a1, a2, m1, m2, range
  <2>6. IsDallas(m1)
    BY <2>1, <2>3, <2>4 DEF IsDallas
  <2>7. IsDallas(m2)
    BY <2>2, <2>4, <2>5 DEF IsDallas
  <2>8. IsDallas(c.rom)
    BY <1>4
  <2> QED
    BY <1>8, <1>9, <2>6, <2>7, <2>8 DEF IsChip, m1, m2
<1>11. CASE mode = "ram"
  <2>1. Len(ws) = k + 2
    BY <1>1, <1>11
  <2>2. \A n \in 0 .. Len(ws) : n \in 0 .. k \/ n = k + 1 \/ n = k + 2
    BY <2>1
  <2>3. \A n \in 0 .. Len(ws) : IsChip(a[n]) /\ a[n].kind = "dallas" /\ a[n].rom = c.rom
    BY <1>7, <1>8, <1>9, <1>10, <2>2
  <2>4. a2.ram.OFFSET - a2.ram.RANGEWORD = o
    BY <1>5, <1>9
  <2> QED
    BY <1>2, <1>9, <1>11, <2>1, <2>3, <2>4 DEF ws, a, d, o
<1>12. CASE mode = "rom"
  <2> DEFINE w == ws[k + 3]
  <2>1. Len(ws) = k + 3 /\ a3 = Written(a2, w) /\ w[2] = "WRITEE2"
    <3>1. k + 3 \in 1 .. Len(ws) /\ (k + 3) - 1 = k + 2
      BY <1>1, <1>12
    <3> QED
      BY <1>1, <1>3, <1>12, <3>1
  <2>2. DOMAIN a3 = DOMAIN a2 /\ a3.kind = "dallas" /\ a3.ram = a2.ram /\ a3.rom = a2.ram
    <3> HIDE DEF a2, a3, w
    <3> QED
      BY <1>9, <2>1, WriteIs
  <2>3. IsChip(a3)
    <3> HIDE DEF a2, a3
    <3> QED
      BY <1>9, <1>10, <2>2 DEF IsChip
  <2>4. \A n \in 0 .. Len(ws) : n \in 0 .. k \/ n = k + 1 \/ n = k + 2 \/ n = k + 3
    BY <2>1
  <2>5. \A n \in 0 .. Len(ws) : IsChip(a[n]) /\ a[n].kind = "dallas"
    BY <1>7, <1>8, <1>9, <1>10, <2>2, <2>3, <2>4
  <2>6. a2.ram.OFFSET - a2.ram.RANGEWORD = o
    BY <1>5, <1>9
  <2> QED
    BY <1>2, <1>9, <1>12, <2>1, <2>2, <2>5, <2>6 DEF ws, a, d, o
<1> QED
  BY <1>11, <1>12

-----------------------------------------------------------------------------
(* The CY27EE16 through the writes of a call.                              *)
\* The fourteen registers.
LEMMA CyRegs ==
  CY_REGS = {"MATRIX2", "MATRIX3", "CHARGEP", "PBCOUNTER", "QCOUNTER", "CLKOE", "DIV1N", "PINCTRL",
             "OSCDRV", "INLOAD", "ADCREG", "MATRIX1", "DIV2N", "WPREG"}
<1> DEFINE T == {"CLKOE", "DIV1N", "PINCTRL", "OSCDRV", "INLOAD", "ADCREG", "MATRIX1", "DIV2N", "WPREG"}
<1>1. /\ tab_cy_reg[1] = <<"CLKOE", 105>>   /\ tab_cy_reg[2] = <<"DIV1N", 6>>
      /\ tab_cy_reg[3] = <<"PINCTRL", 80>>  /\ tab_cy_reg[4] = <<"OSCDRV", 40>>
      /\ tab_cy_reg[5] = <<"INLOAD", 107>>  /\ tab_cy_reg[6] = <<"ADCREG", 0>>
      /\ tab_cy_reg[7] = <<"MATRIX1", 182>> /\ tab_cy_reg[8] = <<"DIV2N", 8>>
      /\ tab_cy_reg[9] = <<"WPREG", 28>>    /\ DOMAIN tab_cy_reg = 1 .. 9
  BY DEF tab_cy_reg
<1> DEFINE A == {w[1] : w \in {tab_cy_reg[i] : i \in DOMAIN tab_cy_reg}}
<1>2. \A x : x \in A <=> \E i \in 1 .. 9 : x = tab_cy_reg[i][1]
  BY <1>1
<1>3. A = T
  <2> HIDE DEF A
  <2>1. \A x : x \in A <=> x \in T
    BY <1>1, <1>2
  <2> QED
    BY <2>1
<1>4. CY_REGS = A \cup {"MATRIX2", "MATRIX3", "CHARGEP", "PBCOUNTER", "QCOUNTER"}
  BY Zenon DEF CY_REGS
<1> HIDE DEF A
<1> QED
  BY <1>3, <1>4

\* The frequencies a Cypress may be asked for and the multipliers those come to.
Asked  == {f \in Nat : 50000 <= f /\ f <= MAX_FREQ_REV6}
Counts == {p \in Nat : 400 <= p /\ p <= 880}

\* d is the Cypress c with v in a register of one of its two memories.
WrittenTo(c, d, bank, reg, v) ==
  /\ IsChip(d) /\ d.kind = "cypress" /\ d[bank][reg] = v
  /\ \A b \in {"ram", "rom"} : b # bank => d[b] = c[b]
  /\ \A b \in {"ram", "rom"}, r \in CY_REGS : b # bank \/ r # reg => d[b][r] = c[b][r]

\* A byte written leaves a Cypress, with nothing else changed.
LEMMA CypressWrite ==
  ASSUME NEW c, IsChip(c), c.kind = "cypress",
         NEW bank \in {"ram", "rom"}, NEW reg \in CY_REGS, NEW v \in BYTES
  PROVE  WrittenTo(c, Written(c, <<bank, reg, v>>), bank, reg, v)
<1> DEFINE w == <<bank, reg, v>>
           d == Written(c, w)
<1>1. w[1] = bank /\ w[2] = reg /\ w[3] = v /\ w[2] # "WRITEE2"
  BY CyRegs
<1>2. /\ DOMAIN c = {"kind", "ram", "rom"} /\ IsCypress(c.ram) /\ IsCypress(c.rom)
      /\ DOMAIN c.ram = CY_REGS /\ DOMAIN c.rom = CY_REGS
  BY DEF IsChip, IsCypress
<1> HIDE DEF w
<1>3. /\ DOMAIN d = DOMAIN c /\ d.kind = c.kind
      /\ \A b \in {"ram", "rom"} :
                      /\ b # bank => d[b] = c[b]
                      /\ b = bank => /\ DOMAIN d[b] = CY_REGS
                                     /\ d[b][reg] = v
                                     /\ \A r \in CY_REGS \ {reg} : d[b][r] = c[b][r]
  <2>1. /\ DOMAIN d = DOMAIN c /\ d.kind = c.kind
        /\ \A b \in {"ram", "rom"} :
                      /\ b # w[1] => d[b] = c[b]
                      /\ b = w[1] => /\ DOMAIN d[b] = DOMAIN c[b]
                                     /\ w[2] \in DOMAIN c[b] => d[b][w[2]] = w[3]
                                     /\ \A r \in DOMAIN c[b] \ {w[2]} : d[b][r] = c[b][r]
    <3>1. DOMAIN c = {"kind", "ram", "rom"} /\ w[2] # "WRITEE2" /\ w[1] \in {"ram", "rom"}
      BY <1>1, <1>2
    <3> QED
      BY <3>1, WriteIs
  <2> HIDE DEF d
  <2>2. \A b \in {"ram", "rom"} : DOMAIN c[b] = CY_REGS
    BY <1>2
  <2> QED
    BY <1>1, <2>1, <2>2
<1> HIDE DEF d
<1>4. /\ d[bank][reg] = v
      /\ \A b \in {"ram", "rom"} : b # bank => d[b] = c[b]
      /\ \A b \in {"ram", "rom"}, r \in CY_REGS : b # bank \/ r # reg => d[b][r] = c[b][r]
  BY <1>3
<1>5. \A b \in {"ram", "rom"} : IsCypress(d[b])
  <2> SUFFICES ASSUME NEW b \in {"ram", "rom"} PROVE IsCypress(d[b])
    OBVIOUS
  <2>1. DOMAIN d[b] = CY_REGS
    BY <1>2, <1>3
  <2>2. \A r \in CY_REGS : c[b][r] \in BYTES
    BY <1>2 DEF IsCypress
  <2>3. \A r \in CY_REGS : d[b][r] \in BYTES
    BY <1>4, <2>2
  <2> QED
    BY <2>1, <2>3 DEF IsCypress
<1>6. IsChip(d) /\ d.kind = "cypress"
  BY <1>2, <1>3, <1>5 DEF IsChip
<1>7. WrittenTo(c, d, bank, reg, v)
  BY <1>4, <1>6 DEF WrittenTo
<1> QED
  BY <1>7 DEF d, w

\* The counters of the frequencies the module is given: the divider is 40, so the
\* multiplier counts steps of 125 kHz.
LEMMA CypressCounters ==
  ASSUME NEW f \in Asked
  PROVE  /\ CypressMultiplier(f).p = f \div 125 /\ CypressMultiplier(f).q = 40
         /\ f \div 125 \in Counts
<1> DEFINE S == {n \in 1 .. (REF \div 250) : n = 1 \/ (f \div 5) * n <= 2055000}
<1>1. REF \div 250 = 40 /\ (f \div 5) * 40 <= 2055000 /\ ((f \div 5) * 40) \div 1000 = f \div 125
      /\ f \div 125 \in Counts
  <2> DEFINE p == f \div 5
             k == f \div 125
  <2>1. f \in Int /\ 50000 <= f /\ f <= 110000
    BY DEF Asked, MAX_FREQ_REV6
  <2>2. p \in Int /\ 5 * p <= f /\ f < 5 * p + 5
    BY <2>1
  <2>3. k \in Int /\ 125 * k <= f /\ f < 125 * k + 125
    BY <2>1
  <2> HIDE DEF p, k
  <2>4. p * 40 \in 1000 * k .. 1000 * k + 999
    BY <2>1, <2>2, <2>3
  <2> DEFINE z == p * 40
  <2>5. z \in Int /\ 1000 * k <= z /\ z < 1000 * k + 1000
    BY <2>3, <2>4
  <2>6. z <= 2055000 /\ k \in Counts
    BY <2>1, <2>2, <2>3 DEF Counts
  <2> HIDE DEF z
  <2>7. z \div 1000 = k
    BY <2>3, <2>5
  <2> QED
    BY <2>6, <2>7 DEF REF, p, k, z, Counts
<1>2. 40 \in S /\ \A n \in S : n \in Int /\ n <= 40
  BY <1>1
<1> HIDE DEF S
<1>3. Max(S) = 40
  <2>1. \A x \in S : (\A y \in S : x >= y) => x = 40
    BY <1>2
  <2>2. \A y \in S : 40 >= y
    BY <1>2
  <2> QED
    BY <1>2, <2>1, <2>2 DEF Max
<1>4. CypressMultiplier(f)
        = [p |-> ((f \div 5) * 40) \div 1000, q |-> 40, pll |-> ((f \div 5) \div 1000) * REF]
  <2> DEFINE p == f \div 5
             q == Max(S)
  <2>1. CypressMultiplier(f) = [p |-> (p * q) \div 1000, q |-> q, pll |-> (p \div 1000) * REF]
    BY SMT DEF CypressMultiplier, S
  <2> HIDE DEF p
  <2> QED
    BY <1>3, <2>1 DEF p
<1> QED
  BY <1>1, <1>4

\* The charge pump's byte carries the high bits of the multiplier.
LEMMA PumpIs ==
  ASSUME NEW p \in Counts
  PROVE  ChargePump(p) \in BYTES /\ ChargePump(p) % 4 = ((p \div 2) - 4) \div 256
<1> DEFINE pump == CASE p < 45 -> 0 [] p <= 479 -> 4 [] p <= 639 -> 8 [] p <= 799 -> 12 [] OTHER -> 16
           high == ((p \div 2) - 4) \div 256
<1>1. pump \in {4, 8, 12, 16}
  BY DEF Counts
<1>2. high \in {0, 1}
  BY DEF Counts
<1>3. ChargePump(p) = 192 + high + pump
  BY SMT DEF ChargePump
<1> HIDE DEF pump, high
<1>4. ChargePump(p) \in BYTES /\ ChargePump(p) % 4 = high
  BY <1>1, <1>2, <1>3, ByteIs
<1> QED
  BY <1>4, Zenon DEF high

\* What registers with those counters, the first divider of the second output and the
\* tap of Matrix2 make: the multiplier's steps of 125 kHz.
LEMMA CypressMakes ==
  ASSUME NEW p \in Counts, NEW r,
         DOMAIN r = CY_REGS, r.DIV2N = 8, r.DIV1N = 6, r.MATRIX2 \in {222, 223},
         r.CHARGEP = ChargePump(p), r.PBCOUNTER = ((p \div 2) - 4) % 256,
         r.QCOUNTER = 128 * (p % 2) + 40 - 2
  PROVE  FrequencyOf("cypress", r) = 125 * p
<1> DEFINE q   == (r.QCOUNTER % 128) + 2
           m   == (r.QCOUNTER \div 128) + 2 * (256 * (r.CHARGEP % 4) + r.PBCOUNTER + 4)
           vco == (REF * m) \div q
           d1  == Divider(r.DIV1N)
           d2  == Divider(r.DIV2N)
           sel == (r.MATRIX2 \div 16) % 8
<1> DEFINE cp == ChargePump(p)
           high == ((p \div 2) - 4) \div 256
<1>1. cp % 4 = high
  BY PumpIs, Zenon
<1>2. r.CHARGEP % 4 = ((p \div 2) - 4) \div 256
  <2>1. r.CHARGEP = cp
    OBVIOUS
  <2> HIDE DEF cp, high
  <2>2. r.CHARGEP % 4 = high
    BY <1>1, <2>1, Zenon
  <2> QED
    BY <2>2 DEF high
<1>3. q = 40 /\ r.QCOUNTER \div 128 = p % 2
  <2>1. r.QCOUNTER = 128 * (p % 2) + 38 /\ p % 2 \in {0, 1}
    BY DEF Counts
  <2> QED
    BY <2>1
<1>5. m = p
  <2> DEFINE h == p \div 2
             l == p % 2
             x == h - 4
             xd == x \div 256
             xm == x % 256
             qd == r.QCOUNTER \div 128
             cm == r.CHARGEP % 4
             pb == r.PBCOUNTER
  <2>1. h \in Int /\ l \in Int /\ p = 2 * h + l
    BY DEF Counts
  <2>2. x \in Int /\ x = h - 4
    BY <2>1
  <2>3. xd \in Int /\ xm \in Int /\ x = 256 * xd + xm
    <3> HIDE DEF x
    <3> QED
      BY <2>2
  <2>4. qd = l /\ cm = xd /\ pb = xm
    BY <1>2, <1>3
  <2>5. m = qd + 2 * (256 * cm + pb + 4)
    OBVIOUS
  <2> HIDE DEF h, l, x, xd, xm, qd, cm, pb, m
  <2> QED
    BY <2>1, <2>2, <2>3, <2>4, <2>5
<1>6. vco = 250 * p
  <2> HIDE DEF m, q
  <2> QED
    BY <1>3, <1>5 DEF REF, Counts
<1>7. sel = 5
  OBVIOUS
<1>8. d2 = 8
  BY DEF Divider
<1>9. CypressFrequency(r) = Tap(d2, vco, 2)
  <2>1. CypressFrequency(r) =
      CASE sel = 0 -> REF
        [] sel = 1 -> Tap(d1, vco, d1 % 128)
        [] sel = 2 -> Tap(d1, vco, 2)
        [] sel = 3 -> Tap(d1, vco, 3)
        [] sel = 4 -> Tap(d2, vco, d2 % 128)
        [] sel = 5 -> Tap(d2, vco, 2)
        [] sel = 6 -> Tap(d2, vco, 4)
        [] OTHER   -> vco
    BY SMT DEF CypressFrequency
  <2> HIDE DEF sel, d1, d2, vco
  <2> QED
    BY <1>7, <2>1
<1>10. Tap(d2, vco, 2) = 125 * p
  <2> HIDE DEF d2, vco
  <2> QED
    BY <1>6, <1>8 DEF Tap, Counts
<1>11. ~ NullClock(r)
  BY CyRegs DEF NullClock
<1> QED
  BY <1>9, <1>10, <1>11 DEF FrequencyOf

\* The writes of a mode: bytes into registers, those of the mode's memory but for the
\* write enable, which goes to the register in force.
CyWrite(w, mode) ==
  \E bank \in {"ram", mode}, reg \in CY_REGS, v \in BYTES :
    w = <<bank, reg, v>> /\ (bank = mode \/ (reg = "WPREG" /\ v # 0))
CyWrites(ws, mode) == Len(ws) \in Nat /\ \A n \in 1 .. Len(ws) : CyWrite(ws[n], mode)

\* What such writes leave of a Cypress.
KeptBy(c, a, mode) ==
  /\ IsChip(a) /\ a.kind = "cypress"
  /\ mode = "ram" => a.rom = c.rom
  /\ mode = "rom" => /\ \A reg \in CY_REGS \ {"WPREG"} : a.ram[reg] = c.ram[reg]
                     /\ a.ram["WPREG"] # 0 \/ a.ram["WPREG"] = c.ram["WPREG"]

\* Whatever prefix of them was done.
LEMMA CypressKept ==
  ASSUME NEW c, IsChip(c), c.kind = "cypress", NEW mode \in {"ram", "rom"}, NEW ws, CyWrites(ws, mode)
  PROVE  \A n \in 0 .. Len(ws) : KeptBy(c, AfterWrites(c, ws)[n], mode)
<1> DEFINE a == AfterWrites(c, ws)
           L == Len(ws)
           P == [n \in 0 .. L |-> KeptBy(c, a[n], mode)]
<1>1. L \in Nat
  BY DEF CyWrites
<1>2. a[0] = c /\ \A n \in 1 .. L : a[n] = Written(a[n - 1], ws[n])
  BY <1>1, AfterIs
<1> HIDE DEF a, L
<1>3. P[0] = TRUE
  BY <1>1, <1>2 DEF KeptBy
<1>4. \A n \in 0 + 1 .. L : P[n - 1] = TRUE => P[n] = TRUE
  <2> SUFFICES ASSUME NEW n \in 1 .. L, KeptBy(c, a[n - 1], mode) PROVE KeptBy(c, a[n], mode)
    BY <1>1
  <2>1. PICK bank \in {"ram", mode}, reg \in CY_REGS, v \in BYTES :
          ws[n] = <<bank, reg, v>> /\ (bank = mode \/ (reg = "WPREG" /\ v # 0))
    BY DEF CyWrites, CyWrite, L
  <2> DEFINE b == a[n - 1]
             d == Written(b, <<bank, reg, v>>)
  <2>2. a[n] = d
    BY <1>2, <2>1
  <2>3. IsChip(b) /\ b.kind = "cypress" /\ bank \in {"ram", "rom"}
    BY DEF KeptBy
  <2> HIDE DEF b
  <2>4. WrittenTo(b, d, bank, reg, v)
    BY <2>3, CypressWrite, Zenon
  <2> HIDE DEF d
  <2>5. KeptBy(c, b, mode)
    BY DEF b
  <2>6. mode = "ram" => d.rom = b.rom
    BY <2>1, <2>4 DEF WrittenTo
  <2>7. mode = "rom" => \A r \in CY_REGS \ {"WPREG"} : d.ram[r] = b.ram[r]
    BY <2>1, <2>4 DEF WrittenTo
  <2>8. mode = "rom" => d.ram["WPREG"] # 0 \/ d.ram["WPREG"] = b.ram["WPREG"]
    <3>1. CASE bank = "ram" /\ reg = "WPREG"
      BY <2>1, <2>4, <3>1 DEF WrittenTo
    <3>2. CASE ~ (bank = "ram" /\ reg = "WPREG")
      BY <2>4, <3>2, CyRegs DEF WrittenTo
    <3> QED
      BY <3>1, <3>2
  <2>9. KeptBy(c, d, mode)
    BY <2>4, <2>5, <2>6, <2>7, <2>8 DEF KeptBy, WrittenTo
  <2> QED
    BY <2>2, <2>9
<1> HIDE DEF P
<1>5. \A n \in 0 .. L : P[n] = TRUE
  <2>1. DOMAIN P = 0 .. L /\ 0 \in Nat /\ 0 \in 0 .. L
    BY <1>1 DEF P
  <2> QED
    BY <1>1, <1>3, <1>4, <2>1, Along
<1> QED
  BY <1>5 DEF P, a, L

\* A register that is written, and with one value only, has that value at the end.
OnlyValue(ws, mode, R, u) ==
  /\ \E n \in 1 .. Len(ws) : ws[n] = <<mode, R, u>>
  /\ \A n \in 1 .. Len(ws) : ws[n][2] = R => ws[n] = <<mode, R, u>>

\* The register of a Cypress that OnlyValue is about.
LEMMA Stays ==
  ASSUME NEW c, IsChip(c), c.kind = "cypress", NEW mode \in {"ram", "rom"}, NEW ws, CyWrites(ws, mode),
         NEW R \in CY_REGS, NEW u \in BYTES, OnlyValue(ws, mode, R, u)
  PROVE  AfterWrites(c, ws)[Len(ws)][mode][R] = u
<1>0. PICK j \in 1 .. Len(ws) : ws[j] = <<mode, R, u>>
  BY DEF OnlyValue
<1> DEFINE a == AfterWrites(c, ws)
           L == Len(ws)
           P == [n \in 0 .. L |-> a[n][mode][R] = u]
<1>1. L \in Nat /\ j \in 0 .. L /\ j \in 1 .. L
  BY DEF CyWrites
<1>2. a[0] = c /\ \A n \in 1 .. L : a[n] = Written(a[n - 1], ws[n])
  BY <1>1, AfterIs
<1>3. \A n \in 0 .. L : IsChip(a[n]) /\ a[n].kind = "cypress"
  BY CypressKept DEF KeptBy
<1> HIDE DEF a
<1>4. P[j] = TRUE
  <2> DEFINE b == a[j - 1]
  <2>1. a[j] = Written(b, <<mode, R, u>>)
    BY <1>0, <1>1, <1>2
  <2>2. IsChip(b) /\ b.kind = "cypress"
    BY <1>1, <1>3
  <2> HIDE DEF b
  <2>3. WrittenTo(b, Written(b, <<mode, R, u>>), mode, R, u)
    BY <2>2, CypressWrite, Zenon
  <2>4. a[j][mode][R] = u
    BY <2>1, <2>3, Zenon DEF WrittenTo
  <2> QED
    BY <1>1, <2>4
<1>5. \A n \in j + 1 .. L : P[n - 1] = TRUE => P[n] = TRUE
  <2> SUFFICES ASSUME NEW n \in j + 1 .. L, a[n - 1][mode][R] = u PROVE a[n][mode][R] = u
    <3>1. \A n \in j + 1 .. L : n \in 0 .. L /\ n - 1 \in 0 .. L
      BY <1>1
    <3> QED
      BY <3>1
  <2>0. n \in 1 .. L /\ n - 1 \in 0 .. L
    BY <1>1
  <2> DEFINE b == a[n - 1]
  <2>1. b[mode][R] = u /\ IsChip(b) /\ b.kind = "cypress"
    BY <1>3, <2>0
  <2>2. a[n] = Written(b, ws[n])
    BY <1>2, <2>0
  <2> HIDE DEF b
  <2>3. CASE ws[n][2] = R
    <3>1. a[n] = Written(b, <<mode, R, u>>)
      BY <2>0, <2>2, <2>3 DEF OnlyValue
    <3>2. WrittenTo(b, Written(b, <<mode, R, u>>), mode, R, u)
      BY <2>1, CypressWrite, Zenon
    <3> QED
      BY <3>1, <3>2, Zenon DEF WrittenTo
  <2>4. CASE ws[n][2] # R
    <3>1. PICK bank \in {"ram", mode}, reg \in CY_REGS, v \in BYTES :
            ws[n] = <<bank, reg, v>> /\ (bank = mode \/ (reg = "WPREG" /\ v # 0))
      BY <2>0, Zenon DEF CyWrites, CyWrite
    <3>2. a[n] = Written(b, <<bank, reg, v>>) /\ reg # R /\ bank \in {"ram", "rom"}
      BY <2>2, <2>4, <3>1
    <3>3. WrittenTo(b, Written(b, <<bank, reg, v>>), bank, reg, v)
      BY <2>1, <3>2, CypressWrite, Zenon
    <3>4. a[n][mode][R] = b[mode][R]
      BY <3>2, <3>3 DEF WrittenTo
    <3> QED
      BY <2>1, <3>4
  <2> QED
    BY <2>3, <2>4
<1> HIDE DEF P
<1>6. \A n \in j .. L : P[n] = TRUE
  <2>1. DOMAIN P = 0 .. L /\ j \in Nat
    BY <1>1 DEF P
  <2> QED
    BY <1>1, <1>4, <1>5, <2>1, Along
<1>7. P[L] = TRUE
  BY <1>1, <1>6
<1>8. L \in 0 .. L
  BY <1>1
<1> QED
  BY <1>7, <1>8 DEF P, a

\* The writes for a frequency are such writes, and the frequency is what the
\* registers then make, but for a step.
LEMMA CypressConfigured ==
  ASSUME NEW c, IsChip(c), c.kind = "cypress", NEW mode \in {"ram", "rom"},
         NEW f \in Asked
  PROVE  /\ CyWrites(CypressWrites(f, mode), mode)
         /\ FrequencyOf("cypress", AfterWrites(c, CypressWrites(f, mode))[Len(CypressWrites(f, mode))][mode])
              = 125 * (f \div 125)
<1> DEFINE ws == CypressWrites(f, mode)
           L  == Len(ws)
           p  == f \div 125
           m2 == Matrix2(f)
           m3 == Matrix3(f)
           cp == ChargePump(p)
           bp == ((p \div 2) - 4) % 256
           bq == 128 * (p % 2) + 40 - 2
           w0 == <<"ram", "WPREG", 12>>
           w1 == <<mode, "MATRIX2", m2>>
           w2 == <<mode, "MATRIX3", m3>>
           w3 == <<mode, "CHARGEP", cp>>
           w4 == <<mode, "PBCOUNTER", bp>>
           w5 == <<mode, "QCOUNTER", bq>>
           w6 == <<mode, "CLKOE", 105>>
           w7 == <<mode, "DIV1N", 6>>
           w8 == <<mode, "PINCTRL", 80>>
           w9 == <<mode, "OSCDRV", 40>>
           w10 == <<mode, "INLOAD", 107>>
           w11 == <<mode, "ADCREG", 0>>
           w12 == <<mode, "MATRIX1", 182>>
           w13 == <<mode, "DIV2N", 8>>
           w14 == <<mode, "WPREG", 28>>
<1>1. CypressMultiplier(f).p = p /\ CypressMultiplier(f).q = 40 /\ p \in Counts
  BY CypressCounters
<1>2. CypressList(ws, f, mode)
  BY CypressWritesAre
<1> HIDE DEF ws, p
<1>3. /\ m2 \in {222, 223} /\ m2 \in BYTES /\ m3 \in BYTES
      /\ cp \in BYTES /\ bp \in BYTES /\ bq \in BYTES
  <2>1. Matrix2(f) \in {222, 223} /\ Matrix3(f) \in {183, 223, 111}
    BY DEF Matrix2, Matrix3
  <2>2. cp \in BYTES
    <3>1. p \in Counts
      BY <1>1
    <3> QED
      BY <3>1, PumpIs, Zenon
  <2>3. bp \in BYTES /\ bq \in BYTES
    BY <1>1, ByteIs DEF Counts
  <2> QED
    BY <2>1, <2>2, <2>3, ByteIs
<1> HIDE DEF m2, m3, cp, bp, bq
<1>4. /\ L \in Nat
      /\ \A n \in 1 .. L : ws[n] \in {w0, w1, w2, w3, w4, w5, w6, w7, w8, w9, w10, w11, w12, w13, w14}
      /\ \E k \in {0, 1} :
           /\ L = k + 14 /\ ws[k + 1] = w1 /\ ws[k + 3] = w3 /\ ws[k + 4] = w4
           /\ ws[k + 5] = w5 /\ ws[k + 7] = w7 /\ ws[k + 13] = w13
  <2>1. CASE mode = "rom"
    <3>1. /\ L = 15 /\ ws[1] = w0 /\ ws[2] = w1 /\ ws[3] = w2 /\ ws[4] = w3
          /\ ws[5] = w4 /\ ws[6] = w5 /\ ws[7] = w6 /\ ws[8] = w7 /\ ws[9] = w8
          /\ ws[10] = w9 /\ ws[11] = w10 /\ ws[12] = w11 /\ ws[13] = w12 /\ ws[14] = w13
          /\ ws[15] = w14
      BY <1>1, <1>2, <2>1 DEF CypressList, m2, m3, cp, bp, bq
    <3> HIDE DEF L, ws, w0, w1, w2, w3, w4, w5, w6, w7, w8, w9, w10, w11, w12, w13, w14
    <3>2. \A n \in 1 .. L : n = 1 \/ n = 2 \/ n = 3 \/ n = 4 \/ n = 5 \/ n = 6 \/ n = 7 \/ n = 8
                              \/ n = 9 \/ n = 10 \/ n = 11 \/ n = 12 \/ n = 13 \/ n = 14 \/ n = 15
      BY <3>1
    <3>3. \A n \in 1 .. L : ws[n] \in {w0, w1, w2, w3, w4, w5, w6, w7, w8, w9, w10, w11, w12, w13, w14}
      BY <3>1, <3>2
    <3> QED
      BY <3>1, <3>3
  <2>2. CASE mode = "ram"
    <3>1. /\ L = 14 /\ ws[1] = w1 /\ ws[2] = w2 /\ ws[3] = w3 /\ ws[4] = w4
          /\ ws[5] = w5 /\ ws[6] = w6 /\ ws[7] = w7 /\ ws[8] = w8 /\ ws[9] = w9
          /\ ws[10] = w10 /\ ws[11] = w11 /\ ws[12] = w12 /\ ws[13] = w13 /\ ws[14] = w14
      BY <1>1, <1>2, <2>2 DEF CypressList, m2, m3, cp, bp, bq
    <3> HIDE DEF L, ws, w0, w1, w2, w3, w4, w5, w6, w7, w8, w9, w10, w11, w12, w13, w14
    <3>2. \A n \in 1 .. L : n = 1 \/ n = 2 \/ n = 3 \/ n = 4 \/ n = 5 \/ n = 6 \/ n = 7 \/ n = 8
                              \/ n = 9 \/ n = 10 \/ n = 11 \/ n = 12 \/ n = 13 \/ n = 14
      BY <3>1
    <3>3. \A n \in 1 .. L : ws[n] \in {w0, w1, w2, w3, w4, w5, w6, w7, w8, w9, w10, w11, w12, w13, w14}
      BY <3>1, <3>2
    <3> QED
      BY <3>1, <3>3
  <2> QED
    BY <2>1, <2>2
<1>0. /\ 105 \in BYTES /\ 6 \in BYTES /\ 80 \in BYTES /\ 40 \in BYTES /\ 107 \in BYTES
      /\ 0 \in BYTES /\ 182 \in BYTES /\ 8 \in BYTES /\ 28 \in BYTES /\ 12 \in BYTES
  BY ByteIs
<1>5. /\ w0 = <<"ram", "WPREG", 12>>
      /\ w1 = <<mode, "MATRIX2", m2>>
      /\ w2 = <<mode, "MATRIX3", m3>>
      /\ w3 = <<mode, "CHARGEP", cp>>
      /\ w4 = <<mode, "PBCOUNTER", bp>>
      /\ w5 = <<mode, "QCOUNTER", bq>>
      /\ w6 = <<mode, "CLKOE", 105>>
      /\ w7 = <<mode, "DIV1N", 6>>
      /\ w8 = <<mode, "PINCTRL", 80>>
      /\ w9 = <<mode, "OSCDRV", 40>>
      /\ w10 = <<mode, "INLOAD", 107>>
      /\ w11 = <<mode, "ADCREG", 0>>
      /\ w12 = <<mode, "MATRIX1", 182>>
      /\ w13 = <<mode, "DIV2N", 8>>
      /\ w14 = <<mode, "WPREG", 28>>
  OBVIOUS
<1> HIDE DEF L, ws, w0, w1, w2, w3, w4, w5, w6, w7, w8, w9, w10, w11, w12, w13, w14
<1>6. CyWrites(ws, mode)
  <2>1. \A w : \A reg \in CY_REGS, v \in BYTES : w = <<mode, reg, v>> => CyWrite(w, mode)
    BY DEF CyWrite
  <2>2. CyWrite(<<"ram", "WPREG", 12>>, mode)
    BY <1>0, CyRegs DEF CyWrite
  <2>3. \A w \in {w0, w1, w2, w3, w4, w5, w6, w7, w8, w9, w10, w11, w12, w13, w14} : CyWrite(w, mode)
    <3>1. /\ CyWrite(w0, mode)
          /\ CyWrite(w1, mode) /\ CyWrite(w2, mode) /\ CyWrite(w3, mode) /\ CyWrite(w4, mode)
          /\ CyWrite(w5, mode) /\ CyWrite(w6, mode) /\ CyWrite(w7, mode) /\ CyWrite(w8, mode)
          /\ CyWrite(w9, mode) /\ CyWrite(w10, mode) /\ CyWrite(w11, mode) /\ CyWrite(w12, mode)
          /\ CyWrite(w13, mode) /\ CyWrite(w14, mode)
      <4>1. /\ "MATRIX2" \in CY_REGS /\ "MATRIX3" \in CY_REGS /\ "CHARGEP" \in CY_REGS
            /\ "PBCOUNTER" \in CY_REGS /\ "QCOUNTER" \in CY_REGS /\ "CLKOE" \in CY_REGS
            /\ "DIV1N" \in CY_REGS /\ "PINCTRL" \in CY_REGS /\ "OSCDRV" \in CY_REGS
            /\ "INLOAD" \in CY_REGS /\ "ADCREG" \in CY_REGS /\ "MATRIX1" \in CY_REGS
            /\ "DIV2N" \in CY_REGS /\ "WPREG" \in CY_REGS
        BY CyRegs
      <4>2. CyWrite(w0, mode)
        BY <1>5, <2>2
      <4>3. CyWrite(w1, mode) /\ CyWrite(w2, mode) /\ CyWrite(w3, mode) /\ CyWrite(w4, mode)
        BY <1>3, <1>5, <2>1, <4>1
      <4>4. CyWrite(w5, mode) /\ CyWrite(w6, mode) /\ CyWrite(w7, mode) /\ CyWrite(w8, mode)
        BY <1>0, <1>3, <1>5, <2>1, <4>1
      <4>5. CyWrite(w9, mode) /\ CyWrite(w10, mode) /\ CyWrite(w11, mode) /\ CyWrite(w12, mode)
        BY <1>0, <1>5, <2>1, <4>1
      <4>6. CyWrite(w13, mode) /\ CyWrite(w14, mode)
        BY <1>0, <1>5, <2>1, <4>1
      <4> QED
        BY <4>2, <4>3, <4>4, <4>5, <4>6
    <3> QED
      BY <3>1
  <2> QED
    BY <1>4, <2>3 DEF CyWrites, L
<1> DEFINE W == {w0, w1, w2, w3, w4, w5, w6, w7, w8, w9, w10, w11, w12, w13, w14}
           r == AfterWrites(c, ws)[L][mode]
<1> DEFINE Once(R, t) == (\A w \in W : w[2] = R => w = t) /\ (\E n \in 1 .. L : ws[n] = t)
<1>7. \A t : \A R \in CY_REGS, u \in BYTES : Once(R, t) /\ t = <<mode, R, u>> => r[R] = u
  <2> SUFFICES ASSUME NEW t, NEW R \in CY_REGS, NEW u \in BYTES, Once(R, t), t = <<mode, R, u>>
               PROVE  r[R] = u
    OBVIOUS
  <2>0. PICK n \in 1 .. L : ws[n] = t
    OBVIOUS
  <2>1. \A m \in 1 .. L : ws[m] \in W
    BY <1>4
  <2> HIDE DEF W
  <2>2. \A m \in 1 .. L : ws[m][2] = R => ws[m] = ws[n]
    BY <2>0, <2>1 DEF W
  <2> QED
    <3>1. \A m \in 1 .. Len(ws) : ws[m][2] = R => ws[m] = ws[n]
      BY <2>2, Zenon DEF L
    <3>2. ws[n] = <<mode, R, u>> /\ n \in 1 .. Len(ws)
      BY <2>0 DEF L
    <3> HIDE DEF Once, r
    <3>3. OnlyValue(ws, mode, R, u)
      BY <3>1, <3>2, Zenon DEF OnlyValue
    <3>4. AfterWrites(c, ws)[Len(ws)][mode][R] = u
      BY <1>6, <3>3, Stays
    <3> QED
      BY <3>4, Zenon DEF L, r
<1>8. \A w \in W :
        /\ w[2] = "MATRIX2" => w = w1
        /\ w[2] = "CHARGEP" => w = w3
        /\ w[2] = "PBCOUNTER" => w = w4
        /\ w[2] = "QCOUNTER" => w = w5
        /\ w[2] = "DIV1N" => w = w7
        /\ w[2] = "DIV2N" => w = w13
  <2>1. /\ w0[2] = "WPREG"
        /\ w1[2] = "MATRIX2"
        /\ w2[2] = "MATRIX3"
        /\ w3[2] = "CHARGEP"
        /\ w4[2] = "PBCOUNTER"
        /\ w5[2] = "QCOUNTER"
        /\ w6[2] = "CLKOE"
        /\ w7[2] = "DIV1N"
        /\ w8[2] = "PINCTRL"
        /\ w9[2] = "OSCDRV"
        /\ w10[2] = "INLOAD"
        /\ w11[2] = "ADCREG"
        /\ w12[2] = "MATRIX1"
        /\ w13[2] = "DIV2N"
        /\ w14[2] = "WPREG"
    BY <1>5
  <2> QED
    BY <2>1
<1>9. /\ \E n \in 1 .. L : ws[n] = w1
      /\ \E n \in 1 .. L : ws[n] = w3
      /\ \E n \in 1 .. L : ws[n] = w4
      /\ \E n \in 1 .. L : ws[n] = w5
      /\ \E n \in 1 .. L : ws[n] = w7
      /\ \E n \in 1 .. L : ws[n] = w13
  <2>1. PICK k \in {0, 1} :
           /\ L = k + 14 /\ ws[k + 1] = w1 /\ ws[k + 3] = w3 /\ ws[k + 4] = w4
           /\ ws[k + 5] = w5 /\ ws[k + 7] = w7 /\ ws[k + 13] = w13
    BY <1>4, Zenon
  <2>2. /\ k + 1 \in 1 .. L /\ k + 3 \in 1 .. L /\ k + 4 \in 1 .. L
        /\ k + 5 \in 1 .. L /\ k + 7 \in 1 .. L /\ k + 13 \in 1 .. L
    BY <2>1
  <2> QED
    BY <2>1, <2>2, Zenon
<1> HIDE DEF W, r, Once
<1>10. /\ r["MATRIX2"] = m2 /\ r["CHARGEP"] = cp /\ r["PBCOUNTER"] = bp
       /\ r["QCOUNTER"] = bq /\ r["DIV1N"] = 6 /\ r["DIV2N"] = 8
  <2>1. r["MATRIX2"] = m2
    <3>1. "MATRIX2" \in CY_REGS /\ m2 \in BYTES
      BY <1>3, CyRegs
    <3>2. w1 = <<mode, "MATRIX2", m2>>
      BY <1>5
    <3>3. Once("MATRIX2", w1)
      BY <1>8, <1>9, Zenon DEF Once
    <3> QED
      BY <1>7, <3>1, <3>2, <3>3
  <2>2. r["CHARGEP"] = cp
    <3>1. "CHARGEP" \in CY_REGS /\ cp \in BYTES
      BY <1>3, CyRegs
    <3>2. w3 = <<mode, "CHARGEP", cp>>
      BY <1>5
    <3>3. Once("CHARGEP", w3)
      BY <1>8, <1>9, Zenon DEF Once
    <3> QED
      BY <1>7, <3>1, <3>2, <3>3
  <2>3. r["PBCOUNTER"] = bp
    <3>1. "PBCOUNTER" \in CY_REGS /\ bp \in BYTES
      BY <1>3, CyRegs
    <3>2. w4 = <<mode, "PBCOUNTER", bp>>
      BY <1>5
    <3>3. Once("PBCOUNTER", w4)
      BY <1>8, <1>9, Zenon DEF Once
    <3> QED
      BY <1>7, <3>1, <3>2, <3>3
  <2>4. r["QCOUNTER"] = bq
    <3>1. "QCOUNTER" \in CY_REGS /\ bq \in BYTES
      BY <1>3, CyRegs
    <3>2. w5 = <<mode, "QCOUNTER", bq>>
      BY <1>5
    <3>3. Once("QCOUNTER", w5)
      BY <1>8, <1>9, Zenon DEF Once
    <3> QED
      BY <1>7, <3>1, <3>2, <3>3
  <2>5. r["DIV1N"] = 6
    <3>1. "DIV1N" \in CY_REGS /\ 6 \in BYTES
      BY <1>0, CyRegs
    <3>2. w7 = <<mode, "DIV1N", 6>>
      BY <1>5
    <3>3. Once("DIV1N", w7)
      BY <1>8, <1>9, Zenon DEF Once
    <3> QED
      BY <1>7, <3>1, <3>2, <3>3
  <2>6. r["DIV2N"] = 8
    <3>1. "DIV2N" \in CY_REGS /\ 8 \in BYTES
      BY <1>0, CyRegs
    <3>2. w13 = <<mode, "DIV2N", 8>>
      BY <1>5
    <3>3. Once("DIV2N", w13)
      BY <1>8, <1>9, Zenon DEF Once
    <3> QED
      BY <1>7, <3>1, <3>2, <3>3
  <2> QED
    BY <2>1, <2>2, <2>3, <2>4, <2>5, <2>6
<1>11. DOMAIN r = CY_REGS
  <2>1. L \in 0 .. L
    BY <1>4
  <2>2. KeptBy(c, AfterWrites(c, ws)[L], mode)
    BY <1>6, <2>1, CypressKept DEF L
  <2> QED
    BY <2>2 DEF KeptBy, IsChip, IsCypress, r
<1>12. FrequencyOf("cypress", r) = 125 * p
  <2>1. /\ r.MATRIX2 \in {222, 223} /\ r.CHARGEP = ChargePump(p) /\ r.DIV1N = 6 /\ r.DIV2N = 8
        /\ r.PBCOUNTER = ((p \div 2) - 4) % 256 /\ r.QCOUNTER = 128 * (p % 2) + 40 - 2
    BY <1>3, <1>10 DEF cp, bp, bq
  <2>2. p \in Counts /\ DOMAIN r = CY_REGS
    BY <1>1, <1>11
  <2> HIDE DEF Once
  <2> QED
    BY <2>1, <2>2, CypressMakes
<1> QED
  BY <1>6, <1>12 DEF ws, p, r, L

-----------------------------------------------------------------------------
(* What the registers make.                                                *)
\* C's division, for the two divisors the driver has.
LEMMA QuotIs ==
  ASSUME NEW a \in Int, NEW b \in {DAC_STEP, OFFSET_STEP}
  PROVE  /\ Quot(a, b) \in Int
         /\ a >= 0 => Quot(a, b) * b <= a /\ a < Quot(a, b) * b + b
         /\ a <= 0 => Quot(a, b) * b >= a /\ a > Quot(a, b) * b - b
<1> DEFINE q == Quot(a, b)
<1>1. CASE b = DAC_STEP
  BY <1>1 DEF Quot, DAC_STEP
<1>2. CASE b = OFFSET_STEP
  BY <1>2 DEF Quot, OFFSET_STEP
<1> QED
  BY <1>1, <1>2

\* A DS1085 with the words of a frequency makes that frequency, but for a step; what
\* it is less or more lies on the side of the default frequency.
LEMMA DallasMakes ==
  ASSUME NEW f \in Int, NEW r, r.DACWORD = DallasDac(f),
         r.OFFSET - r.RANGEWORD = DallasOffset(f)
  PROVE  /\ FrequencyOf("dallas", r) \in Int
         /\ f <= DEF_FREQ => FrequencyOf("dallas", r) \in f .. f + 49
         /\ f >= DEF_FREQ => FrequencyOf("dallas", r) \in f - 49 .. f
<1> DEFINE o == DallasOffset(f)
           x == f - (DEF_FREQ + OFFSET_STEP * o)
           q == Quot(x, DAC_STEP)
           g == FrequencyOf("dallas", r)
<1>1. o \in Int /\ (f <= DEF_FREQ => x <= 0) /\ (f >= DEF_FREQ => x >= 0)
  <2>1. CASE Dac(f, DEF_FREQ) \in DACWORDS
    BY <2>1 DEF DallasOffset, DEF_FREQ, OFFSET_STEP
  <2>2. CASE Dac(f, DEF_FREQ) \notin DACWORDS
    <3>1. o = Quot(f - DEF_FREQ, OFFSET_STEP)
      BY <2>2 DEF DallasOffset
    <3>2. f - DEF_FREQ \in Int
      BY DEF DEF_FREQ
    <3> HIDE DEF o
    <3>3. /\ o \in Int
          /\ f - DEF_FREQ >= 0 => o * OFFSET_STEP <= f - DEF_FREQ
          /\ f - DEF_FREQ <= 0 => o * OFFSET_STEP >= f - DEF_FREQ
      BY <3>1, <3>2, QuotIs
    <3> QED
      BY <3>3 DEF DEF_FREQ, OFFSET_STEP
  <2> QED
    BY <2>1, <2>2
<1> HIDE DEF o
<1>2. x \in Int
  BY <1>1 DEF DEF_FREQ, OFFSET_STEP
<1>3. g = DEF_FREQ + OFFSET_STEP * o - (DAC_DEF - r.DACWORD) * DAC_STEP
  BY DEF FrequencyOf, DallasFrequency, o
<1>4. r.DACWORD = q + DAC_DEF
  BY DEF DallasDac, Dac, o
<1>5. x = f - (DEF_FREQ + OFFSET_STEP * o)
  OBVIOUS
<1> HIDE DEF x
<1>6. /\ q \in Int
      /\ x >= 0 => q * DAC_STEP <= x /\ x < q * DAC_STEP + DAC_STEP
      /\ x <= 0 => q * DAC_STEP >= x /\ x > q * DAC_STEP - DAC_STEP
  BY <1>2, QuotIs
<1> HIDE DEF q, g
<1> USE DEF DAC_STEP, DAC_DEF, DEF_FREQ, OFFSET_STEP
<1>7. g = f - x + 50 * q
  BY <1>1, <1>2, <1>3, <1>4, <1>5, <1>6
<1>8. /\ g \in Int
      /\ f <= DEF_FREQ => g \in f .. f + 49
      /\ f >= DEF_FREQ => g \in f - 49 .. f
  BY <1>1, <1>2, <1>6, <1>7
<1> QED
  BY <1>8 DEF g

\* A DS1085 always runs.
LEMMA DallasRuns ==
  ASSUME NEW r, IsDallas(r)
  PROVE  FrequencyOf("dallas", r) \in Int /\ FrequencyOf("dallas", r) > 0
<1>1. r.DACWORD \in DACWORDS /\ r.OFFSET - r.RANGEWORD \in -6 .. 6
  BY DEF IsDallas
<1> DEFINE o == r.OFFSET - r.RANGEWORD
           d == r.DACWORD
<1>2. FrequencyOf("dallas", r) = DEF_FREQ + OFFSET_STEP * o - (DAC_DEF - d) * DAC_STEP
  BY DEF FrequencyOf, DallasFrequency
<1>3. o \in -6 .. 6 /\ d \in DACWORDS
  BY <1>1
<1> HIDE DEF o, d
<1> QED
  BY <1>2, <1>3, DacIs DEF DAC_STEP, DAC_DEF, DEF_FREQ, OFFSET_STEP

\* A quotient of two positive numbers, the first the larger one.
LEMMA Quotient ==
  ASSUME NEW a \in Nat, NEW b \in Nat \ {0}, b <= a
  PROVE  a \div b \in Nat /\ a \div b > 0 /\ a < b * (a \div b) + b /\ b * (a \div b) <= a
  OBVIOUS

\* A Cypress is blank or runs.
LEMMA CypressRuns ==
  ASSUME NEW r, IsCypress(r)
  PROVE  /\ FrequencyOf("cypress", r) \in Int
         /\ NullClock(r) => FrequencyOf("cypress", r) = -3
         /\ ~ NullClock(r) => FrequencyOf("cypress", r) > 0
<1> DEFINE q   == (r.QCOUNTER % 128) + 2
           p   == (r.QCOUNTER \div 128) + 2 * (256 * (r.CHARGEP % 4) + r.PBCOUNTER + 4)
           vco == (REF * p) \div q
           d1  == Divider(r.DIV1N)
           d2  == Divider(r.DIV2N)
           sel == (r.MATRIX2 \div 16) % 8
<1>1. /\ r.QCOUNTER \in BYTES /\ r.CHARGEP \in BYTES /\ r.PBCOUNTER \in BYTES
      /\ r.DIV1N \in BYTES /\ r.DIV2N \in BYTES /\ r.MATRIX2 \in BYTES
  BY CyRegs DEF IsCypress
<1>2. q \in 2 .. 129 /\ p \in 8 .. 3000
  <2> DEFINE qc == r.QCOUNTER
             qd == qc \div 128
             cm == r.CHARGEP % 4
             pb == r.PBCOUNTER
  <2>1. qc \in 0 .. 255 /\ cm \in 0 .. 3 /\ pb \in 0 .. 255
    BY <1>1, ByteIs
  <2>2. q = (qc % 128) + 2 /\ p = qd + 2 * (256 * cm + pb + 4)
    OBVIOUS
  <2> HIDE DEF qc, cm, pb, q, p
  <2>3. qc % 128 \in 0 .. 127 /\ qd \in 0 .. 1
    BY <2>1
  <2> HIDE DEF qd
  <2> QED
    BY <2>1, <2>2, <2>3
<1>3. \A x \in BYTES : /\ Divider(x) \in Int /\ Divider(x) % 128 \in 4 .. 127
  BY ByteIs DEF Divider
<1> HIDE DEF q, p
<1>4. vco \in Nat /\ vco >= 600
  <2>1. REF * p \in Nat /\ 80000 <= REF * p
    BY <1>2 DEF REF
  <2> DEFINE a == REF * p
  <2>2. a \in Nat /\ q \in Nat \ {0} /\ q <= a /\ vco = a \div q
    BY <1>2, <2>1
  <2> HIDE DEF a, vco
  <2>3. vco \in Nat /\ a < q * vco + q
    BY <2>2, Quotient
  <2>4. ~ (vco < 600)
    <3> SUFFICES ASSUME vco < 600 PROVE FALSE
      OBVIOUS
    <3>1. q * vco <= 129 * 599
      BY <1>2, <2>3
    <3> QED
      BY <1>2, <2>1, <2>3, <3>1 DEF a
  <2> QED
    BY <2>3, <2>4
<1>5. d1 % 128 \in 4 .. 127 /\ d2 % 128 \in 4 .. 127
  BY <1>1, <1>3
<1>6. \A d : \A n \in 2 .. 127 : Tap(d, vco, n) \in Int /\ Tap(d, vco, n) > 0
  <2> SUFFICES ASSUME NEW d, NEW n \in 2 .. 127 PROVE Tap(d, vco, n) \in Int /\ Tap(d, vco, n) > 0
    OBVIOUS
  <2> DEFINE a == IF d >= 128 THEN REF ELSE vco
  <2>1. a \in Nat /\ 600 <= a /\ Tap(d, vco, n) = a \div n
    BY <1>4 DEF REF, Tap
  <2> HIDE DEF a
  <2> QED
    BY <2>1, Quotient
<1>7. CypressFrequency(r) =
      CASE sel = 0 -> REF
        [] sel = 1 -> Tap(d1, vco, d1 % 128)
        [] sel = 2 -> Tap(d1, vco, 2)
        [] sel = 3 -> Tap(d1, vco, 3)
        [] sel = 4 -> Tap(d2, vco, d2 % 128)
        [] sel = 5 -> Tap(d2, vco, 2)
        [] sel = 6 -> Tap(d2, vco, 4)
        [] OTHER   -> vco
  BY SMT DEF CypressFrequency, q, p
<1>8. sel \in 0 .. 7
  BY <1>1, ByteIs
<1> HIDE DEF vco, d1, d2, sel
<1> DEFINE Runs(x) == x \in Int /\ x > 0
<1>9. /\ Runs(Tap(d1, vco, d1 % 128)) /\ Runs(Tap(d1, vco, 2)) /\ Runs(Tap(d1, vco, 3))
      /\ Runs(Tap(d2, vco, d2 % 128)) /\ Runs(Tap(d2, vco, 2)) /\ Runs(Tap(d2, vco, 4))
  <2>1. /\ d1 % 128 \in 2 .. 127 /\ d2 % 128 \in 2 .. 127
        /\ 2 \in 2 .. 127 /\ 3 \in 2 .. 127 /\ 4 \in 2 .. 127
    BY <1>5
  <2>2. \A d : \A n \in 2 .. 127 : Runs(Tap(d, vco, n))
    BY <1>6
  <2> HIDE DEF Runs
  <2> QED
    BY <2>1, <2>2
<1>10. Runs(REF) /\ Runs(vco)
  BY <1>4 DEF REF
<1> HIDE DEF Runs
<1>11. Runs(CypressFrequency(r))
  BY <1>7, <1>8, <1>9, <1>10
<1>12. CypressFrequency(r) \in Int /\ CypressFrequency(r) > 0
  BY <1>11 DEF Runs
<1> QED
  BY <1>12 DEF FrequencyOf

-----------------------------------------------------------------------------
(* A call of ct60_configure_clock.                                         *)
\* The frequency g is what a chip that was given f makes: the one the strap makes of
\* it but for a step, and on the side of the default frequency.
Given(g, f, kind, lim) ==
  /\ g \in Int
  /\ kind = "cypress" => g \in f - 124 .. f
  /\ kind = "dallas" => /\ Strapped(f, lim) <= DEF_FREQ
                             => g \in Strapped(f, lim) .. Strapped(f, lim) + 49
                        /\ Strapped(f, lim) >= DEF_FREQ
                             => g \in Strapped(f, lim) - 49 .. Strapped(f, lim)

\* What a call leaves, whatever came of it: a chip of the kind it was; writing the
\* registers in force the EEPROM as it was, and writing the EEPROM a chip that runs if
\* it ran; and when nothing failed the frequency, in the memory the call was for.
Configures(c, f, mode, lim, r) ==
  /\ IsChip(r.chip) /\ r.chip.kind = c.kind
  /\ mode = "ram" => r.chip.rom = c.rom
  /\ mode = "rom" /\ ct60_read_clock(c) > 0 => ct60_read_clock(r.chip) > 0
  /\ r.err = "none" => /\ c.kind # "none"
                       /\ Given(FrequencyOf(c.kind, r.chip[mode]), f, c.kind, lim)

\* The clock of a chip is a number: -1, -3 or a frequency.
LEMMA ClockRead ==
  ASSUME NEW c, IsChip(c)
  PROVE  /\ ct60_read_clock(c) \in Int
         /\ c.kind = "dallas" => ct60_read_clock(c) > 0
         /\ c.kind = "cypress" => ct60_read_clock(c) > 0 \/ ct60_read_clock(c) = -3
         /\ c.kind = "none" => ct60_read_clock(c) = -1
<1>1. CASE c.kind = "none"
  BY <1>1 DEF ct60_read_clock, FrequencyOf
<1>2. CASE c.kind = "dallas"
  <2>1. IsDallas(c.ram)
    BY <1>2 DEF IsChip
  <2> QED
    BY <1>2, <2>1, DallasRuns DEF ct60_read_clock
<1>3. CASE c.kind = "cypress"
  <2>1. IsCypress(c.ram)
    BY <1>3 DEF IsChip
  <2> QED
    BY <1>3, <2>1, CypressRuns DEF ct60_read_clock
<1> QED
  BY <1>1, <1>2, <1>3 DEF IsChip

\* The write of an EEPROM leaves a Cypress that ran running: of the registers in
\* force it changes the write enable only.
LEMMA RunsStill ==
  ASSUME NEW c, IsChip(c), NEW a, KeptBy(c, a, "rom"), ~ NullClock(c.ram), c.kind = "cypress"
  PROVE  ct60_read_clock(a) > 0
<1>1. IsCypress(c.ram) /\ IsCypress(a.ram) /\ a.kind = "cypress"
  BY DEF IsChip, KeptBy
<1>2. /\ \A reg \in CY_REGS \ {"WPREG"} : a.ram[reg] = c.ram[reg]
      /\ a.ram["WPREG"] # 0 \/ a.ram["WPREG"] = c.ram["WPREG"]
  BY DEF KeptBy
<1>3. ~ NullClock(a.ram)
  <2> DEFINE x == a.ram
             y == c.ram
  <2>1. /\ DOMAIN x = CY_REGS /\ DOMAIN y = CY_REGS /\ ~ NullClock(y)
        /\ \A reg \in CY_REGS \ {"WPREG"} : x[reg] = y[reg]
        /\ x["WPREG"] # 0 \/ x["WPREG"] = y["WPREG"]
    BY <1>1, <1>2 DEF IsCypress
  <2> HIDE DEF x, y
  <2>2. ~ NullClock(x)
    <3>1. "CHARGEP" \in CY_REGS \ {"WPREG"} /\ "WPREG" \in CY_REGS /\ "CHARGEP" # "WPREG"
      BY CyRegs
    <3>2. CASE y["CHARGEP"] % 4 # 0
      BY <2>1, <3>1, <3>2 DEF NullClock
    <3>3. CASE \E reg \in CY_REGS \ {"CHARGEP"} : y[reg] # 0
      <4>1. PICK reg \in CY_REGS \ {"CHARGEP"} : y[reg] # 0
        BY <3>3
      <4>2. x[reg] # 0
        BY <2>1, <4>1
      <4> QED
        BY <2>1, <4>1, <4>2 DEF NullClock
    <3> QED
      BY <2>1, <3>2, <3>3 DEF NullClock
  <2> QED
    BY <2>2 DEF x
<1> QED
  BY <1>1, <1>3, CypressRuns DEF ct60_read_clock

\* What any outcome of a call is.
THEOREM Configured ==
  ASSUME NEW c, IsChip(c), NEW f \in Int, NEW mode \in {"ram", "rom"},
         NEW lim \in {CPX_LIMITS, SETUP_LIMITS}, NEW faulty,
         NEW r \in ct60_configure_clock(c, f, mode, lim, faulty)
  PROVE  Configures(c, f, mode, lim, r)
<1>1. CASE c.kind = "none" \/ ~ Legal(c, f, lim)
  <2>1. r.chip = c /\ r.err # "none"
    BY <1>1 DEF ct60_configure_clock
  <2> QED
    BY <2>1 DEF Configures
<1>2. CASE c.kind # "none" /\ Legal(c, f, lim)
  <2> DEFINE ws == WritesFor(c, f, mode, lim)
             a  == AfterWrites(c, ws)
             s  == Strapped(f, lim)
  <2>1. \/ r.chip = a[Len(ws)] /\ r.err = "none"
        \/ r.err = "write" /\ \E n \in 0 .. Len(ws) - 1 : r.chip = a[n]
    BY <1>2 DEF ct60_configure_clock
  <2>2. SUFFICES /\ Len(ws) \in Nat
                 /\ \A n \in 0 .. Len(ws) :
                      /\ IsChip(a[n]) /\ a[n].kind = c.kind
                      /\ mode = "ram" => a[n].rom = c.rom
                      /\ mode = "rom" /\ ct60_read_clock(c) > 0 => ct60_read_clock(a[n]) > 0
                 /\ Given(FrequencyOf(c.kind, a[Len(ws)][mode]), f, c.kind, lim)
    <3> HIDE DEF a, ws
    <3>1. \E n \in 0 .. Len(ws) : r.chip = a[n]
      BY <2>1, <2>2
    <3> QED
      BY <1>2, <2>1, <2>2, <3>1 DEF Configures
  <2>3. CASE c.kind = "dallas"
    <3>1. ws = DallasWrites(s, c.ram, mode) /\ DallasLegal(s, c.ram, lim)
      BY <1>2, <2>3 DEF WritesFor, Legal
    <3>2. s \in Int
      BY DEF Strapped, CPX_LIMITS, SETUP_LIMITS
    <3> DEFINE A == AfterWrites(c, DallasWrites(s, c.ram, mode))
               l == Len(DallasWrites(s, c.ram, mode))
    <3>7. a = A /\ Len(ws) = l
      BY <3>1
    <3> HIDE DEF s, ws, a
    <3>3. /\ Len(ws) \in Nat
          /\ \A n \in 0 .. Len(ws) :
               /\ IsChip(a[n]) /\ a[n].kind = "dallas"
               /\ mode = "ram" => a[n].rom = c.rom
          /\ \A bank \in {"ram", mode} :
               /\ a[Len(ws)][bank].DACWORD = DallasDac(s)
               /\ a[Len(ws)][bank].OFFSET - a[Len(ws)][bank].RANGEWORD = DallasOffset(s)
      <4>1. /\ l \in Nat
            /\ \A n \in 0 .. l :
                 /\ IsChip(A[n]) /\ A[n].kind = "dallas"
                 /\ mode = "ram" => A[n].rom = c.rom
            /\ \A bank \in {"ram", mode} :
                 /\ A[l][bank].DACWORD = DallasDac(s)
                 /\ A[l][bank].OFFSET - A[l][bank].RANGEWORD = DallasOffset(s)
        BY <2>3, <3>1, <3>2, DallasConfigured
      <4> HIDE DEF A, l
      <4> QED
        BY <3>7, <4>1
    <3> DEFINE z == a[Len(ws)][mode]
    <3>4. z.DACWORD = DallasDac(s) /\ z.OFFSET - z.RANGEWORD = DallasOffset(s)
      BY <3>3
    <3> HIDE DEF z
    <3>5. /\ FrequencyOf("dallas", z) \in Int
          /\ s <= DEF_FREQ => FrequencyOf("dallas", z) \in s .. s + 49
          /\ s >= DEF_FREQ => FrequencyOf("dallas", z) \in s - 49 .. s
      BY <3>2, <3>4, DallasMakes
    <3>6. Given(FrequencyOf("dallas", z), f, "dallas", lim)
      BY <3>5 DEF Given, s
    <3> QED
      BY <2>3, <3>3, <3>6, ClockRead DEF z
  <2>4. CASE c.kind = "cypress"
    <3>1. ws = CypressWrites(f, mode) /\ CypressLegal(f, lim)
      BY <1>2, <2>4 DEF WritesFor, Legal
    <3>2. f \in Asked
      <4> HIDE DEF a, ws, s
      <4>1. f \in lim.min .. MAX_FREQ_REV6
        <5>1. CypressLegal(f, lim)
          BY <3>1
        <5> QED
          BY <5>1 DEF CypressLegal
      <4>2. lim.min \in Int /\ lim.min >= 50000
        BY DEF CPX_LIMITS, SETUP_LIMITS
      <4> QED
        BY <4>1, <4>2 DEF Asked, MAX_FREQ_REV6
    <3>3. CyWrites(ws, mode) /\ FrequencyOf("cypress", a[Len(ws)][mode]) = 125 * (f \div 125)
      BY <2>4, <3>1, <3>2, CypressConfigured
    <3> HIDE DEF ws
    <3>4. Len(ws) \in Nat /\ \A n \in 0 .. Len(ws) : KeptBy(c, a[n], mode)
      BY <2>4, <3>3, CypressKept DEF CyWrites
    <3> HIDE DEF a
    <3>5. 125 * (f \div 125) \in f - 124 .. f
      OBVIOUS
    <3>6. Given(FrequencyOf("cypress", a[Len(ws)][mode]), f, "cypress", lim)
      BY <3>3, <3>5 DEF Given
    <3>7. ct60_read_clock(c) > 0 => ~ NullClock(c.ram)
      BY <2>4 DEF ct60_read_clock, FrequencyOf
    <3>8. \A n \in 0 .. Len(ws) :
            /\ IsChip(a[n]) /\ a[n].kind = "cypress" /\ (mode = "ram" => a[n].rom = c.rom)
            /\ mode = "rom" /\ ct60_read_clock(c) > 0 => ct60_read_clock(a[n]) > 0
      BY <2>4, <3>4, <3>7, RunsStill DEF KeptBy
    <3> QED
      BY <2>4, <3>4, <3>6, <3>8
  <2> QED
    BY <1>2, <2>3, <2>4 DEF IsChip
<1> QED
  BY <1>1, <1>2
=============================================================================
