-------------------------- MODULE Settings_proofs --------------------------
(***************************************************************************)
(* Proofs about Settings: that panel and setup, in any sequence of         *)
(* sessions, keep what they share of its types, that the panel shows the   *)
(* mode it edits and keeps a legal mode legal, and that neither program's  *)
(* cursor leaves its form.  Then, with the generator's arithmetic, a       *)
(* second invariant and what it gives: the EEPROM is programmed with what  *)
(* was tried, what was saved is what is loaded, and what was set is what   *)
(* is shown again.                                                         *)
(*                                                                         *)
(* A panel is a record of forty fields: Field says what each may hold, and *)
(* the lemmas about a handler say which fields it changes and to what.     *)
(***************************************************************************)
EXTENDS Settings, ClockGenerator_proofs

(* The inductive invariant.  What is stored is of its type, the copy in    *)
(* the flash and the header of the panel with it; an open panel has all    *)
(* its fields, each within its bounds, shows the mode it edits, and has    *)
(* its cursor in a field of its page; an open setup is at a setting of its *)
(* form, in a list only where the setting has one.                         *)
Stored ==
  /\ nvram \in Nvram /\ IsFlash(flash) /\ IsHeader(disk)
  /\ IsHeader(head) \/ (head = << >> /\ pn = Closed)
  /\ faults \in Nat /\ sv_top \in 0 .. SV_ROWS - SV_VISIBLE

Scripted == /\ script \in Seq(Session) /\ left \in Nat
            /\ begun => script # << >>

InPage(p, top) ==
  p.edit # "none" => /\ PageOf(p.edit) = p.page
                     /\ p.edit = "svboot" => p.sven /\ SvSeen("svboot", top)

\* what each field of the panel may hold
Field(f) ==
  CASE f \in DOMAIN Popups -> Popups[f]
    [] f = "vmode" -> VMode                      [] f = "sep" -> {".", "-", "/"}
    [] f \in {"nvm", "sven", "flagf"} -> BOOLEAN
    [] f \in {"delay", "trigger"} -> 0 .. 99     [] f = "time" -> Times
    [] f = "freq" -> Nat                         [] f = "min" -> {33300, 65000, 66600}
    [] f = "max" -> {66000, 75000, 110000}       [] f = "step" -> {50, 125}
    [] f = "page" -> Pages
TYPED == FIELDS \ {"text", "open", "edit", "svboot", "svdvi", "svchk"}

IsPanel(p, top) ==
  /\ DOMAIN p = FIELDS /\ p.open = TRUE
  /\ \A f \in TYPED : p[f] \in Field(f)
  /\ InPage(p, top)
  /\ p.text = VideoTexts(p.vmode)

SETUP_FIELDS == {"open", "st", "row", "sel", "list", "nv", "cpu", "boot", "fresh"}
IsCpu(c) ==
  /\ DOMAIN c = {"freq", "text", "fpu", "fpu_load", "blit", "blit_load"}
  /\ c.fpu \in 0 .. 1 /\ c.blit \in 0 .. 1
IsBoot(b) ==
  /\ DOMAIN b = {"devs", "log", "tos", "pciide", "load"}
  /\ b.devs \in 0 .. 7 /\ b.log \in 0 .. 1 /\ b.tos \in 0 .. 1 /\ b.pciide \in 0 .. 1
InForms(x) ==
  /\ x.st = "MENU" => x.sel = 1
  /\ x.st # "MENU" => x.sel \in 1 .. Len(FormOf(x.row))
  /\ x.st = "FORM_LIST" => /\ Kind(Setting(x)) = "LIST"
                           /\ x.list \in 0 .. ListLen(Setting(x)) - 1
  /\ x.st # "FORM_LIST" => x.list = 0
  /\ x.st = "FORM_UPDOWN" => Setting(x) = "freq"
Edited(x) ==
  /\ DOMAIN x = SETUP_FIELDS /\ x.open = TRUE /\ x.row \in 1 .. NUM_MENU_ENTRIES
  /\ x.nv \in Nvram /\ IsCpu(x.cpu) /\ IsBoot(x.boot)
IsSetup(x) ==
  /\ Edited(x) /\ InForms(x)
  /\ x.st \in {"MENU", "FORM_SELECT", "FORM_LIST", "FORM_UPDOWN"}

Inv ==
  /\ machine \in Machine /\ Stored /\ Scripted
  /\ pn = Closed \/ IsPanel(pn, sv_top)
  /\ su = Off \/ IsSetup(su)

-----------------------------------------------------------------------------
(* The video mode.                                                         *)
\* The fields of a mode.
LEMMA ModeFields ==
  ASSUME NEW vm \in VMode
  PROVE  /\ DOMAIN vm = {"planes", "c80", "vga", "pal", "ovr", "st", "vert"}
         /\ vm.planes \in 0 .. 4 /\ vm.c80 \in BOOLEAN /\ vm.vga \in BOOLEAN
         /\ vm.pal \in BOOLEAN /\ vm.ovr \in BOOLEAN /\ vm.st \in BOOLEAN /\ vm.vert \in BOOLEAN
         /\ ~(vm.vga /\ vm.ovr)
BY DEF VMode

\* Setting the resolution gives a mode with that resolution, and changes
\* nothing but the columns and the vertical bit.
LEMMA SetResIs ==
  ASSUME NEW vm \in VMode, NEW r \in 0 .. 3
  PROVE  /\ SetRes(vm, r) \in VMode /\ ResIndex(SetRes(vm, r)) = r
         /\ SetRes(vm, r).planes = vm.planes /\ SetRes(vm, r).vga = vm.vga
         /\ SetRes(vm, r).pal = vm.pal /\ SetRes(vm, r).ovr = vm.ovr /\ SetRes(vm, r).st = vm.st
         /\ SetRes(vm, r).c80 <=> r >= 2
<1> DEFINE wide == r >= 2
           tall == IF r % 2 = 1 THEN ~vm.vga ELSE vm.vga
           m == SetRes(vm, r)
<1>1. wide \in BOOLEAN /\ tall \in BOOLEAN
  <2>1. (~vm.vga) \in BOOLEAN /\ vm.vga \in BOOLEAN
    BY Zenon DEF VMode
  <2>2. tall \in BOOLEAN
    BY <2>1, Zenon
  <2>3. wide \in BOOLEAN
    OBVIOUS
  <2> QED
    BY <2>2, <2>3
<1>2. m = [vm EXCEPT !.c80 = wide, !.vert = tall]
  BY DEF SetRes
<1>3. m \in VMode /\ m.c80 = wide /\ m.vert = tall /\ m.planes = vm.planes /\ m.vga = vm.vga
      /\ m.pal = vm.pal /\ m.ovr = vm.ovr /\ m.st = vm.st
  <2> HIDE DEF wide, tall, m
  <2> QED
    BY <1>1, <1>2 DEF VMode
<1>4. (m.c80 <=> r >= 2) /\ (m.vert # m.vga <=> r % 2 = 1)
  <2>1. m.c80 <=> r >= 2
    BY <1>3, Zenon
  <2>2. CASE r % 2 = 1
    BY <1>3, <2>2, Zenon DEF VMode
  <2>3. CASE r % 2 # 1
    BY <1>3, <2>3, Zenon
  <2> QED
    BY <2>1, <2>2, <2>3, Zenon
<1>5. ResIndex(m) = r
  <2> HIDE DEF m
  <2> QED
    BY <1>4 DEF ResIndex
<1> QED
  BY <1>3, <1>4, <1>5, Zenon

TEXTS == {"video", "pal", "coul", "res", "ovr", "st"}

\* The texts of the video page, one by one.
LEMMA Texts ==
  ASSUME NEW vm
  PROVE  /\ DOMAIN VideoTexts(vm) = TEXTS
         /\ VideoTexts(vm) = [f \in TEXTS |-> VideoTexts(vm)[f]]
         /\ VideoTexts(vm).video = vm.vga /\ VideoTexts(vm).pal = vm.pal
         /\ VideoTexts(vm).coul = vm.planes /\ VideoTexts(vm).res = ResIndex(vm)
         /\ VideoTexts(vm).st = vm.st
         /\ VideoTexts(vm).ovr <=> (vm.ovr /\ ~vm.vga)
         /\ VideoTexts(vm).ovr \in BOOLEAN
<1> DEFINE over == vm.ovr /\ ~vm.vga
<1>1. over \in BOOLEAN
  OBVIOUS
<1>2. VideoTexts(vm) = [video |-> vm.vga, pal |-> vm.pal, coul |-> vm.planes,
                        res |-> ResIndex(vm), ovr |-> over, st |-> vm.st]
  BY DEF VideoTexts
<1>3. /\ DOMAIN VideoTexts(vm) = TEXTS
      /\ VideoTexts(vm) = [f \in TEXTS |-> VideoTexts(vm)[f]]
      /\ VideoTexts(vm).video = vm.vga /\ VideoTexts(vm).pal = vm.pal
      /\ VideoTexts(vm).coul = vm.planes /\ VideoTexts(vm).res = ResIndex(vm)
      /\ VideoTexts(vm).st = vm.st /\ VideoTexts(vm).ovr = over
  <2> HIDE DEF over
  <2> QED
    BY <1>2 DEF TEXTS
<1> QED
  BY <1>1, <1>3, Zenon

\* What holds each text of a mode is the texts of that mode.
LEMMA SameTexts ==
  ASSUME NEW t, NEW vm, DOMAIN t = TEXTS, t = [f \in TEXTS |-> t[f]],
         t.video = vm.vga, t.pal = vm.pal, t.coul = vm.planes, t.res = ResIndex(vm),
         t.st = vm.st, t.ovr \in BOOLEAN, t.ovr <=> (vm.ovr /\ ~vm.vga)
  PROVE  t = VideoTexts(vm)
<1>1. t.ovr = VideoTexts(vm).ovr
  <2>1. t.ovr <=> VideoTexts(vm).ovr
    BY Texts, Zenon
  <2> QED
    BY <2>1, Texts
<1>2. \A f \in TEXTS : t[f] = VideoTexts(vm)[f]
  BY <1>1, Texts DEF TEXTS
<1> QED
  BY <1>2, Texts

(* A click on the video page: a legal type of mode, its texts, and nothing *)
(* else of the panel changes.                                              *)
ModeSet(p, q) ==
  /\ DOMAIN q = DOMAIN p
  /\ \A f \in DOMAIN p \ {"vmode", "text"} : q[f] = p[f]
  /\ q.vmode \in VMode /\ q.text = VideoTexts(q.vmode)
  /\ LegalMode(p.vmode) => LegalMode(q.vmode)
IsVideo(p) ==
  /\ {"vmode", "text"} \subseteq DOMAIN p
  /\ p.vmode \in VMode /\ p.text = VideoTexts(p.vmode)

\* The monitor: the page follows the new mode, which stays legal
\* (cpx_button, MENUBVIDEO).
LEMMA VideoClick ==
  ASSUME NEW p, IsVideo(p)
  PROVE  ModeSet(p, ChooseVideo(p, ~p.vmode.vga))
<1> DEFINE v == p.vmode
           vga == ~v.vga
           got == vga /\ ~(v.c80 /\ v.planes = 4)
           tall == ~v.vert
           over == ~got /\ v.ovr
           shown == ~got /\ p.text.ovr
           vm == [v EXCEPT !.vga = got, !.vert = tall, !.ovr = over]
           q == ChooseVideo(p, vga)
<1>1. got \in BOOLEAN /\ tall \in BOOLEAN /\ over \in BOOLEAN /\ shown \in BOOLEAN
  BY Zenon DEF IsVideo
<1>2. q = [p EXCEPT !.vmode = vm, !.text.video = got, !.text.res = ResIndex(vm),
                    !.text.ovr = shown]
  BY Zenon DEF ChooseVideo
<1>3. /\ vm \in VMode /\ vm.vga = got /\ vm.vert = tall /\ vm.ovr = over /\ vm.planes = v.planes
      /\ vm.pal = v.pal /\ vm.st = v.st /\ vm.c80 = v.c80
  <2>1. ~(got /\ over)
    BY Zenon
  <2> HIDE DEF got, tall, over
  <2> QED
    BY <1>1, <2>1 DEF VMode, IsVideo
<1>4. /\ DOMAIN q = DOMAIN p /\ q.vmode = vm
      /\ \A f \in DOMAIN p \ {"vmode", "text"} : q[f] = p[f]
      /\ q.text = [p.text EXCEPT !.video = got, !.res = ResIndex(vm), !.ovr = shown]
  <2> HIDE DEF vm, got, shown, q
  <2> QED
    BY <1>2 DEF IsVideo
<1>5. /\ DOMAIN q.text = TEXTS /\ q.text = [f \in TEXTS |-> q.text[f]]
      /\ q.text.video = got /\ q.text.pal = v.pal /\ q.text.coul = v.planes
      /\ q.text.res = ResIndex(vm) /\ q.text.ovr = shown /\ q.text.st = v.st
  <2>1. /\ DOMAIN p.text = TEXTS /\ p.text = [f \in TEXTS |-> p.text[f]]
        /\ p.text.pal = v.pal /\ p.text.coul = v.planes /\ p.text.st = v.st
    BY Texts DEF IsVideo
  <2> HIDE DEF vm, got, shown, q, v
  <2> QED
    BY <1>4, <2>1 DEF TEXTS
<1>6. shown <=> (vm.ovr /\ ~vm.vga)
  <2>1. p.text.ovr <=> (v.ovr /\ ~v.vga)
    <3>1. p.text.ovr = VideoTexts(v).ovr
      BY DEF IsVideo
    <3> QED
      BY <3>1, Texts, Zenon
  <2>2. ~(v.vga /\ v.ovr)
    BY ModeFields, Zenon DEF IsVideo
  <2>3. (vm.ovr <=> (~got /\ v.ovr)) /\ (vm.vga <=> got)
    BY <1>3, Zenon
  <2>4. shown <=> (~got /\ v.ovr)
    BY <2>1, <2>2, Zenon
  <2> QED
    BY <2>3, <2>4, Zenon
<1>7. q.text = VideoTexts(vm)
  <2>1. q.text.ovr \in BOOLEAN /\ (q.text.ovr <=> (vm.ovr /\ ~vm.vga))
    BY <1>1, <1>5, <1>6, Zenon
  <2> HIDE DEF vm, got, shown, q, v
  <2> QED
    BY <1>3, <1>5, <2>1, SameTexts
<1>8. LegalMode(v) => LegalMode(vm)
  <2> SUFFICES ASSUME LegalMode(v) PROVE LegalMode(vm)
    OBVIOUS
  <2>1. v \in VMode
    BY DEF IsVideo
  <2>2. /\ (vm.vga <=> got) /\ (vm.vert <=> ~v.vert) /\ (vm.ovr <=> (~got /\ v.ovr))
        /\ vm.planes = v.planes /\ (vm.st <=> v.st) /\ (vm.c80 <=> v.c80)
        /\ (got <=> (vga /\ ~(v.c80 /\ v.planes = 4)))
    BY <1>3, Zenon
  <2> HIDE DEF vm, got
  <2>3. (got <=> ~v.vga) => ResIndex(vm) = ResIndex(v)
    BY <1>3, <2>1, <2>2, ModeFields DEF ResIndex
  <2>4. (vm.vga <=> got) /\ (got => ~(v.c80 /\ v.planes = 4)) /\ (got \/ v.vga \/ (v.c80 /\ v.planes = 4))
    BY <2>1, <2>2, ModeFields
  <2> QED
    BY <2>1, <2>2, <2>3, <2>4, ModeFields DEF LegalMode, StRes
<1> QED
  BY <1>3, <1>4, <1>7, <1>8 DEF ModeSet

\* The frequency of the screen: PAL or NTSC (MENUBMODE).
LEMMA ModeClick ==
  ASSUME NEW p, IsVideo(p), NEW pal \in BOOLEAN
  PROVE  ModeSet(p, ChooseMode(p, pal))
<1> DEFINE v == p.vmode
           vm == [v EXCEPT !.pal = pal]
           q == ChooseMode(p, pal)
<1>1. /\ vm \in VMode /\ vm.vga = v.vga /\ vm.vert = v.vert /\ vm.ovr = v.ovr
      /\ vm.planes = v.planes /\ vm.pal = pal /\ vm.st = v.st /\ vm.c80 = v.c80
  BY DEF VMode, IsVideo
<1>2. /\ DOMAIN q = DOMAIN p /\ q.vmode = vm
      /\ \A f \in DOMAIN p \ {"vmode", "text"} : q[f] = p[f]
      /\ q.text = [p.text EXCEPT !.pal = pal]
  BY DEF ChooseMode, IsVideo
<1>3. ResIndex(vm) = ResIndex(v)
  <2> HIDE DEF vm, v
  <2> QED
    BY <1>1 DEF ResIndex
<1> HIDE DEF vm, q
<1>4. q.text = VideoTexts(vm)
  <2>1. /\ DOMAIN p.text = TEXTS /\ p.text = [f \in TEXTS |-> p.text[f]]
        /\ p.text.video = v.vga /\ p.text.coul = v.planes /\ p.text.st = v.st
        /\ p.text.res = ResIndex(v) /\ p.text.ovr = VideoTexts(v).ovr
    BY Texts DEF IsVideo
  <2>2. /\ DOMAIN q.text = TEXTS /\ q.text = [f \in TEXTS |-> q.text[f]]
        /\ q.text.video = v.vga /\ q.text.pal = pal /\ q.text.coul = v.planes
        /\ q.text.res = ResIndex(v) /\ q.text.st = v.st /\ q.text.ovr = VideoTexts(v).ovr
    <3> HIDE DEF v
    <3> QED
      BY <1>2, <2>1 DEF TEXTS
  <2>3. q.text.ovr \in BOOLEAN /\ (q.text.ovr <=> (vm.ovr /\ ~vm.vga))
    BY <1>1, <2>2, Texts, Zenon
  <2> QED
    BY <1>1, <1>3, <2>2, <2>3, SameTexts
<1>5. LegalMode(v) => LegalMode(vm)
  BY <1>1, <1>3 DEF LegalMode, StRes
<1> QED
  BY <1>1, <1>2, <1>4, <1>5 DEF ModeSet, q

(* The resolution: the page shows the one given.                           *)
LEMMA ResClick ==
  ASSUME NEW p, IsVideo(p), NEW r \in 0 .. 3
  PROVE  ModeSet(p, ChooseRes(p, r))
<1> DEFINE v == p.vmode
           got == ResGiven(v, r)
           vm == SetRes(v, got)
           q == ChooseRes(p, r)
<1>0. v \in VMode
  BY DEF IsVideo
<1>1. got \in 0 .. 3
  BY DEF ResGiven, StRes
<1>2. /\ vm \in VMode /\ ResIndex(vm) = got /\ vm.vga = v.vga /\ vm.ovr = v.ovr
      /\ vm.planes = v.planes /\ vm.pal = v.pal /\ vm.st = v.st /\ (vm.c80 <=> got >= 2)
  <2> HIDE DEF got, v
  <2> QED
    BY <1>0, <1>1, SetResIs
<1>3. q = [p EXCEPT !.vmode = vm, !.text.res = got]
  BY DEF ChooseRes
<1>6. LegalMode(v) => LegalMode(vm)
  <2> SUFFICES ASSUME LegalMode(v) PROVE LegalMode(vm)
    OBVIOUS
  <2>1. /\ (v.st => v.planes < 3) /\ (v.vga => ~v.ovr)
    BY DEF LegalMode
  <2>2. /\ (v.st => got = StRes(v.planes)) /\ (v.planes = 0 => got >= 2)
        /\ (v.vga /\ v.planes = 4 => got < 2)
    BY <1>0, <2>1, ModeFields DEF ResGiven, StRes
  <2> HIDE DEF vm, got, v
  <2> QED
    BY <1>0, <1>1, <1>2, <2>1, <2>2, ModeFields DEF LegalMode
<1> HIDE DEF vm, q, got
<1>4. /\ DOMAIN q = DOMAIN p /\ q.vmode = vm
      /\ \A f \in DOMAIN p \ {"vmode", "text"} : q[f] = p[f]
      /\ q.text = [p.text EXCEPT !.res = got]
  BY <1>3 DEF IsVideo
<1>5. q.text = VideoTexts(vm)
  <2>1. /\ DOMAIN p.text = TEXTS /\ p.text = [f \in TEXTS |-> p.text[f]] /\ p.text.pal = v.pal
        /\ p.text.video = v.vga /\ p.text.coul = v.planes /\ p.text.st = v.st
        /\ p.text.ovr = VideoTexts(v).ovr
    BY Texts DEF IsVideo
  <2>2. /\ DOMAIN q.text = TEXTS /\ q.text = [f \in TEXTS |-> q.text[f]]
        /\ q.text.video = v.vga /\ q.text.pal = v.pal /\ q.text.coul = v.planes
        /\ q.text.res = got /\ q.text.st = v.st /\ q.text.ovr = VideoTexts(v).ovr
    <3> HIDE DEF v
    <3> QED
      BY <1>4, <2>1 DEF TEXTS
  <2>3. q.text.ovr \in BOOLEAN /\ (q.text.ovr <=> (vm.ovr /\ ~vm.vga))
    BY <1>2, <2>2, Texts, Zenon
  <2> QED
    BY <1>2, <2>2, <2>3, SameTexts
<1> QED
  BY <1>2, <1>4, <1>5, <1>6 DEF ModeSet, q

(* The colours: an ST mode takes their resolution, or ends.                *)
LEMMA ColoursClick ==
  ASSUME NEW p, IsVideo(p), NEW n \in 0 .. 4
  PROVE  ModeSet(p, ChooseColours(p, n))
<1> DEFINE v == p.vmode
           cm == Coloured(v, n)
           got == IF ~cm.c80 /\ n = 0 THEN 1 ELSE IF cm.c80 /\ cm.vga /\ n = 4 THEN 3 ELSE n
           vm == [cm EXCEPT !.planes = got]
           st == p.text.st /\ n < 3
           res == IF v.st /\ n < 3 THEN StRes(n) ELSE p.text.res
           q == ChooseColours(p, n)
<1>0. v \in VMode
  BY DEF IsVideo
<1>1. got \in 0 .. 4 /\ StRes(n) \in 0 .. 3
  BY DEF StRes
<1>2. st \in BOOLEAN
  BY Zenon
<1>3. /\ cm \in VMode /\ cm.vga = v.vga /\ cm.ovr = v.ovr /\ cm.pal = v.pal
      /\ cm.st \in BOOLEAN /\ (cm.st <=> v.st /\ n < 3)
      /\ ResIndex(cm) = IF v.st /\ n < 3 THEN StRes(n) ELSE ResIndex(v)
      /\ (cm.c80 <=> IF v.st /\ n < 3 THEN StRes(n) >= 2 ELSE v.c80)
  <2>1. CASE ~v.st
    BY <1>0, <2>1, ModeFields DEF Coloured
  <2>2. CASE v.st /\ n < 3
    <3>1. cm = SetRes(v, StRes(n))
      BY <2>2 DEF Coloured
    <3> HIDE DEF cm, v
    <3> QED
      BY <1>0, <1>1, <2>2, <3>1, SetResIs, ModeFields
  <2>3. CASE v.st /\ ~(n < 3)
    <3>1. cm = [v EXCEPT !.st = FALSE]
      BY <2>3 DEF Coloured
    <3> HIDE DEF cm, v
    <3>2. /\ cm \in VMode /\ cm.vga = v.vga /\ cm.ovr = v.ovr /\ cm.pal = v.pal
          /\ cm.st = FALSE /\ cm.c80 = v.c80 /\ cm.vert = v.vert
      BY <1>0, <3>1 DEF VMode
    <3> QED
      BY <2>3, <3>2 DEF ResIndex
  <2> QED
    BY <2>1, <2>2, <2>3
<1>4. /\ vm \in VMode /\ vm.vga = v.vga /\ vm.ovr = v.ovr /\ vm.pal = v.pal /\ vm.planes = got
      /\ vm.st = cm.st /\ vm.c80 = cm.c80 /\ ResIndex(vm) = ResIndex(cm)
  <2> HIDE DEF cm, v, got
  <2>1. /\ vm \in VMode /\ vm.vga = v.vga /\ vm.ovr = v.ovr /\ vm.pal = v.pal /\ vm.planes = got
        /\ vm.st = cm.st /\ vm.c80 = cm.c80 /\ vm.vert = cm.vert /\ vm.vga = cm.vga
    BY <1>1, <1>3 DEF VMode
  <2> HIDE DEF vm
  <2> QED
    BY <2>1 DEF ResIndex
<1>5. q = [p EXCEPT !.vmode = vm, !.text = [p.text EXCEPT !.coul = got, !.st = st, !.res = res]]
  BY Zenon DEF ChooseColours
<1>6. LegalMode(v) => LegalMode(vm)
  <2> SUFFICES ASSUME LegalMode(v) PROVE LegalMode(vm)
    OBVIOUS
  <2>1. /\ (v.st => v.planes < 3) /\ (v.vga => ~v.ovr)
    BY DEF LegalMode
  <2>2. cm.c80 \in BOOLEAN /\ cm.vga \in BOOLEAN /\ cm.vga = v.vga
    BY <1>3, ModeFields
  <2>3. /\ (got = 0 => cm.c80) /\ ~(cm.c80 /\ v.vga /\ got = 4)
        /\ (v.st /\ n < 3 => got = n)
    <3> HIDE DEF cm, v
    <3> QED
      BY <1>3, <2>2 DEF StRes
  <2> HIDE DEF vm, got, v, cm
  <2> QED
    BY <1>0, <1>1, <1>3, <1>4, <2>1, <2>3, ModeFields DEF LegalMode
<1> HIDE DEF vm, q, got, cm, st, res
<1>7. /\ DOMAIN q = DOMAIN p /\ q.vmode = vm
      /\ \A f \in DOMAIN p \ {"vmode", "text"} : q[f] = p[f]
      /\ q.text = [p.text EXCEPT !.coul = got, !.st = st, !.res = res]
  BY <1>5 DEF IsVideo
<1>8. q.text = VideoTexts(vm)
  <2>1. /\ DOMAIN p.text = TEXTS /\ p.text = [f \in TEXTS |-> p.text[f]] /\ p.text.pal = v.pal
        /\ p.text.video = v.vga /\ p.text.st = v.st /\ p.text.res = ResIndex(v)
        /\ p.text.ovr = VideoTexts(v).ovr
    BY Texts DEF IsVideo
  <2>2. /\ DOMAIN q.text = TEXTS /\ q.text = [f \in TEXTS |-> q.text[f]]
        /\ q.text.video = v.vga /\ q.text.pal = v.pal /\ q.text.coul = got
        /\ q.text.res = res /\ q.text.st = st /\ q.text.ovr = VideoTexts(v).ovr
    <3> HIDE DEF v
    <3> QED
      BY <1>7, <2>1 DEF TEXTS
  <2>3. q.text.ovr \in BOOLEAN /\ (q.text.ovr <=> (vm.ovr /\ ~vm.vga))
    BY <1>4, <2>2, Texts, Zenon
  <2>4. res = ResIndex(vm)
    BY <1>3, <1>4, <2>1 DEF res
  <2>5. st = vm.st
    <3>1. st <=> (v.st /\ n < 3)
      BY <2>1, Zenon DEF st
    <3>2. vm.st \in BOOLEAN /\ (vm.st <=> (v.st /\ n < 3))
      BY <1>3, <1>4, Zenon
    <3> QED
      BY <1>2, <3>1, <3>2, Zenon
  <2> QED
    BY <1>4, <2>2, <2>3, <2>4, <2>5, SameTexts
<1> QED
  BY <1>4, <1>6, <1>7, <1>8 DEF ModeSet, q

(* The button of the ST modes, and the one of the overscan.                *)
LEMMA StClick ==
  ASSUME NEW p, IsVideo(p)
  PROVE  ModeSet(p, ToggleSt(p))
<1> DEFINE v == p.vmode
           q == ToggleSt(p)
           r == StRes(v.planes)
<1>0. v \in VMode
  BY DEF IsVideo
<1>1. /\ DOMAIN p.text = TEXTS /\ p.text = [f \in TEXTS |-> p.text[f]] /\ p.text.pal = v.pal
      /\ p.text.video = v.vga /\ p.text.coul = v.planes /\ p.text.st = v.st
      /\ p.text.res = ResIndex(v) /\ p.text.ovr = VideoTexts(v).ovr
  BY Texts DEF IsVideo
<1>2. CASE ~p.text.st /\ v.planes < 3
  <2> DEFINE sm == SetRes(v, r)
             vm == [sm EXCEPT !.st = TRUE]
  <2>1. r \in 0 .. 3
    BY DEF StRes
  <2>2. /\ sm \in VMode /\ ResIndex(sm) = r /\ sm.vga = v.vga /\ sm.ovr = v.ovr
        /\ sm.planes = v.planes /\ sm.pal = v.pal /\ (sm.c80 <=> r >= 2)
    <3> HIDE DEF r, v
    <3> QED
      BY <1>0, <2>1, SetResIs
  <2>3. q = [p EXCEPT !.vmode = vm, !.text.st = TRUE, !.text.res = r]
    BY <1>2, Zenon DEF ToggleSt, StForced
  <2>4. /\ vm \in VMode /\ vm.vga = v.vga /\ vm.ovr = v.ovr /\ vm.planes = v.planes
        /\ vm.pal = v.pal /\ vm.st = TRUE /\ vm.c80 = sm.c80 /\ ResIndex(vm) = r
    <3> HIDE DEF sm, v, r
    <3>1. /\ vm \in VMode /\ vm.vga = sm.vga /\ vm.ovr = sm.ovr /\ vm.planes = sm.planes
          /\ vm.pal = sm.pal /\ vm.st = TRUE /\ vm.c80 = sm.c80 /\ vm.vert = sm.vert
      BY <2>2 DEF VMode
    <3> HIDE DEF vm
    <3> QED
      BY <2>2, <3>1 DEF ResIndex
  <2>5. LegalMode(v) => LegalMode(vm)
    <3> SUFFICES ASSUME LegalMode(v) PROVE LegalMode(vm)
      OBVIOUS
    <3>1. (v.vga => ~v.ovr) /\ v.planes < 3 /\ (v.planes = 0 => r >= 2)
      BY <1>2 DEF LegalMode, StRes
    <3> HIDE DEF vm, sm
    <3> QED
      BY <2>2, <2>4, <3>1 DEF LegalMode
  <2> HIDE DEF vm, q
  <2>6. /\ DOMAIN q = DOMAIN p /\ q.vmode = vm
        /\ \A f \in DOMAIN p \ {"vmode", "text"} : q[f] = p[f]
        /\ q.text = [p.text EXCEPT !.st = TRUE, !.res = r]
    BY <2>3 DEF IsVideo
  <2>7. q.text = VideoTexts(vm)
    <3>1. /\ DOMAIN q.text = TEXTS /\ q.text = [f \in TEXTS |-> q.text[f]]
          /\ q.text.video = v.vga /\ q.text.pal = v.pal /\ q.text.coul = v.planes
          /\ q.text.res = r /\ q.text.st = TRUE /\ q.text.ovr = VideoTexts(v).ovr
      <4> HIDE DEF v, r
      <4> QED
        BY <1>1, <2>6 DEF TEXTS
    <3>2. q.text.ovr \in BOOLEAN /\ (q.text.ovr <=> (vm.ovr /\ ~vm.vga))
      BY <2>4, <3>1, Texts, Zenon
    <3>3. /\ q.text.video = vm.vga /\ q.text.pal = vm.pal /\ q.text.coul = vm.planes
          /\ q.text.res = ResIndex(vm) /\ q.text.st = vm.st
      BY <2>4, <3>1
    <3> HIDE DEF v, r
    <3> QED
      BY <3>1, <3>2, <3>3, SameTexts
  <2> QED
    BY <2>4, <2>5, <2>6, <2>7 DEF ModeSet, q
<1>3. CASE ~(~p.text.st /\ v.planes < 3)
  <2> DEFINE vm == [v EXCEPT !.st = FALSE]
  <2>1. q = [p EXCEPT !.vmode.st = FALSE, !.text.st = FALSE]
    BY <1>3, Zenon DEF ToggleSt
  <2>2. /\ vm \in VMode /\ vm.vga = v.vga /\ vm.ovr = v.ovr /\ vm.planes = v.planes
        /\ vm.pal = v.pal /\ vm.st = FALSE /\ vm.c80 = v.c80 /\ ResIndex(vm) = ResIndex(v)
    <3> HIDE DEF v
    <3>1. /\ vm \in VMode /\ vm.vga = v.vga /\ vm.ovr = v.ovr /\ vm.planes = v.planes
          /\ vm.pal = v.pal /\ vm.st = FALSE /\ vm.c80 = v.c80 /\ vm.vert = v.vert
      BY <1>0 DEF VMode
    <3> HIDE DEF vm
    <3> QED
      BY <3>1 DEF ResIndex
  <2>3. LegalMode(v) => LegalMode(vm)
    <3> HIDE DEF vm, v
    <3> QED
      BY <2>2 DEF LegalMode
  <2> HIDE DEF q
  <2>4. /\ DOMAIN q = DOMAIN p /\ q.vmode = vm
        /\ \A f \in DOMAIN p \ {"vmode", "text"} : q[f] = p[f]
        /\ q.text = [p.text EXCEPT !.st = FALSE]
    BY <2>1 DEF IsVideo
  <2> HIDE DEF vm
  <2>5. q.text = VideoTexts(vm)
    <3>1. /\ DOMAIN q.text = TEXTS /\ q.text = [f \in TEXTS |-> q.text[f]]
          /\ q.text.video = v.vga /\ q.text.pal = v.pal /\ q.text.coul = v.planes
          /\ q.text.res = ResIndex(v) /\ q.text.st = FALSE /\ q.text.ovr = VideoTexts(v).ovr
      <4> HIDE DEF v
      <4> QED
        BY <1>1, <2>4 DEF TEXTS
    <3>2. q.text.ovr \in BOOLEAN /\ (q.text.ovr <=> (vm.ovr /\ ~vm.vga))
      BY <2>2, <3>1, Texts, Zenon
    <3>3. /\ q.text.video = vm.vga /\ q.text.pal = vm.pal /\ q.text.coul = vm.planes
          /\ q.text.res = ResIndex(vm) /\ q.text.st = vm.st
      BY <2>2, <3>1
    <3> HIDE DEF v
    <3> QED
      BY <3>1, <3>2, <3>3, SameTexts
  <2> QED
    BY <2>2, <2>3, <2>4, <2>5 DEF ModeSet, q
<1> QED
  BY <1>2, <1>3

\* The overscan, which VGA and the ST modes of it have not (MENUBOVERSCAN).
LEMMA OverscanClick ==
  ASSUME NEW p, IsVideo(p)
  PROVE  ModeSet(p, ToggleOverscan(p))
<1> DEFINE v == p.vmode
           q == ToggleOverscan(p)
           on == ~p.text.ovr /\ ~v.vga
           over == IF p.text.ovr THEN FALSE ELSE on \/ v.ovr
           vm == [v EXCEPT !.ovr = over]
<1>0. v \in VMode
  BY DEF IsVideo
<1>1. /\ DOMAIN p.text = TEXTS /\ p.text = [f \in TEXTS |-> p.text[f]] /\ p.text.pal = v.pal
      /\ p.text.video = v.vga /\ p.text.coul = v.planes /\ p.text.st = v.st
      /\ p.text.res = ResIndex(v) /\ p.text.ovr = VideoTexts(v).ovr
  BY Texts DEF IsVideo
<1>2. on \in BOOLEAN /\ over \in BOOLEAN /\ (over <=> on)
  <2>1. p.text.ovr <=> (v.ovr /\ ~v.vga)
    BY <1>1, Texts, Zenon
  <2>2. ~(v.vga /\ v.ovr)
    BY <1>0, ModeFields, Zenon
  <2>3. on \in BOOLEAN
    BY Zenon
  <2>4. CASE p.text.ovr
    BY <2>1, <2>3, <2>4, Zenon
  <2>5. CASE ~p.text.ovr
    <3>1. over = (on \/ v.ovr)
      BY <2>5, Zenon
    <3> QED
      BY <2>1, <2>2, <2>3, <2>5, <3>1, Zenon
  <2> QED
    BY <2>4, <2>5
<1>3. q = [p EXCEPT !.vmode = vm, !.text.ovr = on]
  BY Zenon DEF ToggleOverscan
<1>4. on => ~v.vga
  BY Zenon
<1> HIDE DEF on, over
<1>5. /\ vm \in VMode /\ vm.vga = v.vga /\ vm.ovr = over /\ vm.planes = v.planes
      /\ vm.pal = v.pal /\ vm.st = v.st /\ vm.c80 = v.c80 /\ ResIndex(vm) = ResIndex(v)
  <2> HIDE DEF v
  <2>1. /\ vm \in VMode /\ vm.vga = v.vga /\ vm.ovr = over /\ vm.planes = v.planes
        /\ vm.pal = v.pal /\ vm.st = v.st /\ vm.c80 = v.c80 /\ vm.vert = v.vert
    BY <1>0, <1>2, <1>4 DEF VMode
  <2> HIDE DEF vm
  <2> QED
    BY <2>1 DEF ResIndex
<1>6. LegalMode(v) => LegalMode(vm)
  <2> HIDE DEF vm, v
  <2> QED
    BY <1>2, <1>4, <1>5 DEF LegalMode
<1> HIDE DEF vm, q
<1>7. /\ DOMAIN q = DOMAIN p /\ q.vmode = vm
      /\ \A f \in DOMAIN p \ {"vmode", "text"} : q[f] = p[f]
      /\ q.text = [p.text EXCEPT !.ovr = on]
  BY <1>3 DEF IsVideo
<1>8. q.text = VideoTexts(vm)
  <2>1. /\ DOMAIN q.text = TEXTS /\ q.text = [f \in TEXTS |-> q.text[f]]
        /\ q.text.video = v.vga /\ q.text.pal = v.pal /\ q.text.coul = v.planes
        /\ q.text.res = ResIndex(v) /\ q.text.st = v.st /\ q.text.ovr = on
    <3> HIDE DEF v
    <3> QED
      BY <1>1, <1>7 DEF TEXTS
  <2>2. q.text.ovr \in BOOLEAN /\ (q.text.ovr <=> (vm.ovr /\ ~vm.vga))
    BY <1>2, <1>4, <1>5, <2>1
  <2> QED
    BY <1>5, <2>1, <2>2, SameTexts
<1> QED
  BY <1>5, <1>6, <1>7, <1>8 DEF ModeSet, q

\* Every click on the video page either keeps page and mode together, and a
\* legal mode legal, or is the button of the copy in the flash.
LEMMA VideoPage ==
  ASSUME NEW p, IsVideo(p), "nvm" \in DOMAIN p, p.nvm \in BOOLEAN,
         NEW q \in VideoClicks(p)
  PROVE  ModeSet(p, q) \/ q = [p EXCEPT !.nvm = ~p.nvm]
<1>1. (~p.vmode.pal) \in BOOLEAN
  BY Zenon
<1>2. CASE q = ChooseVideo(p, ~p.vmode.vga) \/ q = ToggleSt(p) \/ q = ToggleOverscan(p)
  BY <1>2, VideoClick, StClick, OverscanClick, Zenon
<1>3. CASE q = ChooseMode(p, ~p.vmode.pal)
  BY <1>1, <1>3, ModeClick, Zenon
<1>4. CASE \E r \in 0 .. 3 : q = ChooseRes(p, r)
  BY <1>4, ResClick, Zenon
<1>5. CASE \E n \in 0 .. 4 : q = ChooseColours(p, n)
  BY <1>5, ColoursClick, Zenon
<1>6. CASE q = [p EXCEPT !.nvm = ~p.nvm]
  BY <1>6, Zenon
<1>7. \/ q = ChooseVideo(p, ~p.vmode.vga) \/ q = ToggleSt(p) \/ q = ToggleOverscan(p)
      \/ q = ChooseMode(p, ~p.vmode.pal)
      \/ \E r \in 0 .. 3 : q = ChooseRes(p, r)
      \/ \E n \in 0 .. 4 : q = ChooseColours(p, n)
      \/ q = [p EXCEPT !.nvm = ~p.nvm]
  BY Zenon DEF VideoClicks
<1> QED
  BY <1>2, <1>3, <1>4, <1>5, <1>6, <1>7, Zenon

(* A mode as the panel opens it, or loads it.                              *)
LEMMA ModeOpened ==
  ASSUME NEW vm \in VMode
  PROVE  /\ VideoOpened(vm) \in VMode
         /\ LegalMode(vm) => LegalMode(VideoOpened(vm))
<1> DEFINE r == StRes(vm.planes)
<1>1. r \in 0 .. 3
  BY DEF StRes
<1>2. CASE vm.st /\ vm.planes < 3
  <2> DEFINE m == SetRes(vm, r)
  <2>1. VideoOpened(vm) = m
    BY <1>2, Zenon DEF VideoOpened, StForced
  <2>2. /\ m \in VMode /\ ResIndex(m) = r /\ m.vga = vm.vga /\ m.ovr = vm.ovr
        /\ m.planes = vm.planes /\ m.st = vm.st /\ (m.c80 <=> r >= 2)
    <3> HIDE DEF r
    <3> QED
      BY <1>1, SetResIs
  <2>3. LegalMode(vm) => LegalMode(m)
    <3> HIDE DEF m
    <3> QED
      BY <2>2, <1>2, ModeFields DEF LegalMode, StRes
  <2> QED
    BY <2>1, <2>2, <2>3
<1>3. CASE ~(vm.st /\ vm.planes < 3)
  <2> DEFINE m == [vm EXCEPT !.st = FALSE]
  <2>1. VideoOpened(vm) = m
    <3>1. VideoOpened(vm) = [vm EXCEPT !.st = vm.st /\ vm.planes < 3]
      BY <1>3, Zenon DEF VideoOpened
    <3>2. (vm.st /\ vm.planes < 3) = FALSE
      BY <1>3, Zenon
    <3> QED
      BY <3>1, <3>2, Zenon
  <2>2. /\ m \in VMode /\ m.vga = vm.vga /\ m.ovr = vm.ovr /\ m.c80 = vm.c80
        /\ m.planes = vm.planes /\ m.st = FALSE
    BY DEF VMode
  <2>3. LegalMode(vm) => LegalMode(m)
    <3> HIDE DEF m
    <3> QED
      BY <2>2 DEF LegalMode
  <2> QED
    BY <2>1, <2>2, <2>3
<1> QED
  BY <1>2, <1>3

-----------------------------------------------------------------------------
(* The open panel: what a change of some fields must respect.              *)
\* What each field of the panel may hold.
LEMMA FieldIs ==
  /\ \A f \in DOMAIN Popups : f \in TYPED /\ Field(f) = Popups[f]
  /\ {"vmode", "sep", "nvm", "sven", "flagf", "delay", "trigger", "time", "freq", "min", "max",
      "step", "page"} \subseteq TYPED
  /\ Field("vmode") = VMode /\ Field("sep") = {".", "-", "/"} /\ Field("nvm") = BOOLEAN
  /\ Field("sven") = BOOLEAN /\ Field("flagf") = BOOLEAN /\ Field("delay") = 0 .. 99
  /\ Field("trigger") = 0 .. 99 /\ Field("time") = Times /\ Field("freq") = Nat
  /\ Field("min") = {33300, 65000, 66600} /\ Field("max") = {66000, 75000, 110000}
  /\ Field("step") = {50, 125} /\ Field("page") = Pages
  /\ {"text", "open", "edit", "svboot", "svdvi", "svchk"} \subseteq FIELDS
  /\ TYPED \subseteq FIELDS
<1> USE DEF FIELDS, TYPED, SHOWN, NV_FIELDS, SWITCHES, KEPT, CLOCK, SV
<1>1. DOMAIN Popups = {"language", "keyboard", "df", "tf", "bootorder", "bootpref", "arb", "id",
                       "blitter", "tosram", "bootlog", "cpufpu", "daystop", "beep"}
  BY DEF Popups
<1>2. DOMAIN Popups \subseteq TYPED /\ TYPED \subseteq FIELDS
  BY <1>1
<1>3. \A f \in DOMAIN Popups : Field(f) = Popups[f]
  BY <1>1 DEF Field
<1> QED
  BY <1>1, <1>2, <1>3 DEF Field

\* A change of fields that are neither the mode, its texts, the page nor the
\* cursor, each to a value it may have, leaves a panel.
LEMMA PanelChanged ==
  ASSUME NEW p, NEW q, NEW top, NEW C, IsPanel(p, top), DOMAIN q = FIELDS,
         C \cap {"open", "text", "vmode", "page", "edit", "sven"} = {},
         \A f \in FIELDS \ C : q[f] = p[f], \A f \in C \cap TYPED : q[f] \in Field(f)
  PROVE  IsPanel(q, top)
<1>1. \A f \in TYPED : q[f] \in Field(f)
  BY DEF IsPanel, TYPED
<1>2. q.open = TRUE /\ q.text = p.text /\ q.vmode = p.vmode /\ q.page = p.page /\ q.edit = p.edit
      /\ q.sven = p.sven
  BY FieldIs DEF IsPanel, TYPED
<1> QED
  BY <1>1, <1>2 DEF IsPanel, InPage

\* So does a change of a text or of a check box of the SuperVidel page.
LEMMA PanelText ==
  ASSUME NEW p, NEW q, NEW top, IsPanel(p, top), NEW f \in {"svboot", "svdvi", "svchk"}, NEW v,
         q = [p EXCEPT ![f] = v]
  PROVE  IsPanel(q, top)
<1>1. DOMAIN q = FIELDS /\ \A g \in FIELDS \ {f} : q[g] = p[g]
  BY DEF IsPanel
<1>2. {f} \cap TYPED = {} /\ {f} \cap {"open", "text", "vmode", "page", "edit", "sven"} = {}
  BY DEF TYPED
<1>3. \A g \in {f} \cap TYPED : q[g] \in Field(g)
  BY <1>2, Zenon
<1> QED
  BY <1>1, <1>2, <1>3, PanelChanged, Zenon

\* So does one field set to a value it may have.
LEMMA PanelSet ==
  ASSUME NEW p, NEW top, IsPanel(p, top), NEW f \in TYPED \ {"vmode", "page", "sven"},
         NEW v \in Field(f)
  PROVE  IsPanel([p EXCEPT ![f] = v], top)
<1> DEFINE q == [p EXCEPT ![f] = v]
<1>1. DOMAIN q = FIELDS /\ q[f] = v /\ \A g \in FIELDS \ {f} : q[g] = p[g]
  BY FieldIs DEF IsPanel
<1>2. {f} \cap {"open", "text", "vmode", "page", "edit", "sven"} = {}
  BY DEF TYPED
<1> HIDE DEF q
<1>3. IsPanel(q, top)
  BY <1>1, <1>2, PanelChanged
<1> QED
  BY <1>3 DEF q

\* So does a click on the mode.
LEMMA PanelVideo ==
  ASSUME NEW p, NEW q, NEW top, IsPanel(p, top), ModeSet(p, q)
  PROVE  IsPanel(q, top)
<1>1. DOMAIN q = FIELDS /\ \A f \in FIELDS \ {"vmode", "text"} : q[f] = p[f]
  BY DEF IsPanel, ModeSet
<1>2. \A f \in TYPED : q[f] \in Field(f)
  BY <1>1, FieldIs DEF IsPanel, ModeSet, TYPED
<1>3. q.open = TRUE /\ q.page = p.page /\ q.edit = p.edit /\ q.sven = p.sven
  BY <1>1, FieldIs DEF IsPanel, TYPED
<1> QED
  BY <1>1, <1>2, <1>3 DEF IsPanel, InPage, ModeSet

\* An open panel shows its mode.
LEMMA PanelIsVideo ==
  ASSUME NEW p, NEW top, IsPanel(p, top)
  PROVE  IsVideo(p) /\ "nvm" \in DOMAIN p /\ p.nvm \in BOOLEAN
BY FieldIs DEF IsPanel, IsVideo

-----------------------------------------------------------------------------
(* The controls of the open panel.                                         *)
\* The SuperVidel page: the cursor is in the field of the start mode only
\* while that is on and visible.
LEMMA SvEdit ==
  ASSUME NEW p, NEW q, NEW top, NEW to, IsPanel(p, top), DOMAIN q = FIELDS, p.page = "SV",
         \A f \in FIELDS \ {"sven", "edit"} : q[f] = p[f], q.sven \in BOOLEAN,
         q.edit = sv_first_edit(q.sven, to)
  PROVE  IsPanel(q, to)
<1>1. \A f \in TYPED : q[f] \in Field(f)
  BY FieldIs DEF IsPanel, TYPED
<1>2. q.open = TRUE /\ q.text = p.text /\ q.vmode = p.vmode /\ q.page = p.page
  BY FieldIs DEF IsPanel, TYPED
<1>3. InPage(q, to)
  BY <1>2 DEF InPage, sv_first_edit, PageOf
<1> QED
  BY <1>1, <1>2, <1>3 DEF IsPanel

\* A click on the SuperVidel page leaves a panel.
LEMMA SvClick ==
  ASSUME NEW p, IsPanel(p, sv_top), p.page = "SV", NEW q \in SvClicks(p)
  PROVE  IsPanel(q, sv_top)
<1>1. CASE \E v : q = [p EXCEPT !["svdvi"] = v]
  BY <1>1, PanelText, Zenon
<1>2. CASE \E v : q = [p EXCEPT !["svchk"] = v]
  BY <1>2, PanelText, Zenon
<1>3. CASE q = [p EXCEPT !.sven = ~p.sven, !.edit = sv_first_edit(~p.sven, sv_top)]
  <2> DEFINE on == ~p.sven
  <2>1. on \in BOOLEAN
    BY Zenon
  <2>2. q = [p EXCEPT !.sven = on, !.edit = sv_first_edit(on, sv_top)]
    BY <1>3, Zenon
  <2> HIDE DEF on
  <2>3. DOMAIN q = FIELDS /\ q.sven = on /\ q.edit = sv_first_edit(on, sv_top)
        /\ \A f \in FIELDS \ {"sven", "edit"} : q[f] = p[f]
    <3>1. DOMAIN p = FIELDS /\ {"sven", "edit"} \subseteq FIELDS
      BY FieldIs DEF IsPanel
    <3> QED
      BY <2>2, <3>1
  <2> QED
    BY <2>1, <2>3, SvEdit
<1>4. \/ \E v : q = [p EXCEPT !["svdvi"] = v]
      \/ \E v : q = [p EXCEPT !["svchk"] = v]
      \/ q = [p EXCEPT !.sven = ~p.sven, !.edit = sv_first_edit(~p.sven, sv_top)]
  BY Zenon DEF SvClicks
<1> QED
  BY <1>1, <1>2, <1>3, <1>4

Slider(min, max, step, ret) == min + (((ret * (max - min)) \div 1000) \div step) * step

\* The slider's frequency: min and the position, a multiple of the step
\* above it, is a number though max may lie below min.
LEMMA SliderInNat ==
  ASSUME NEW min \in {33300, 65000, 66600}, NEW max \in {66000, 75000, 110000},
         NEW step \in {50, 125}, NEW ret \in {0, 500, 1000}
  PROVE  Slider(min, max, step, ret) \in Nat
<1> DEFINE d == (ret * (max - min)) \div 1000
<1>1. d \in Int /\ d >= -600
  BY SMTT(30)
<1> HIDE DEF d
<1>2. (d \div step) * step \in Int /\ (d \div step) * step >= d - 125
  <2>1. CASE step = 50
    BY <1>1, <2>1
  <2>2. CASE step = 125
    BY <1>1, <2>2
  <2> QED
    BY <2>1, <2>2
<1>3. min + (d \div step) * step \in Nat
  BY <1>1, <1>2
<1> QED
  BY <1>3 DEF d, Slider

\* A click on the frequency leaves a panel, with the mode it had.
LEMMA FreqClick ==
  ASSUME NEW p, IsPanel(p, sv_top), NEW q \in FreqClicks(p)
  PROVE  IsPanel(q, sv_top) /\ q.vmode = p.vmode
<1>1. /\ p.freq \in Nat /\ p.min \in {33300, 65000, 66600} /\ p.max \in {66000, 75000, 110000}
      /\ p.step \in {50, 125}
  BY FieldIs DEF IsPanel
<1> DEFINE S == (IF p.freq > p.min THEN {AtLeast(p.freq - p.step, p.min)} ELSE {})
                  \cup (IF p.freq < p.max THEN {AtMost(p.freq + p.step, p.max)} ELSE {})
                  \cup {AtMost(AtLeast(p.freq + d, p.min), p.max) : d \in {1000, -1000}}
                  \cup {Slider(p.min, p.max, p.step, ret) : ret \in {0, 500, 1000}}
<1>2. PICK f \in S : q = [p EXCEPT !.freq = f, !.flagf = TRUE]
  <2>1. p.freq # 0
    BY DEF FreqClicks
  <2>2. FreqClicks(p) = IF p.freq = 0 THEN {}
                        ELSE {[p EXCEPT !.freq = f, !.flagf = TRUE] : f \in S}
    BY DEF FreqClicks, Slider
  <2> HIDE DEF S
  <2> QED
    BY <2>1, <2>2
<1>3. f \in Nat
  <2>1. AtLeast(p.freq - p.step, p.min) \in Nat /\ AtMost(p.freq + p.step, p.max) \in Nat
    BY <1>1 DEF AtLeast, AtMost
  <2>2. \A d \in {1000, -1000} : AtMost(AtLeast(p.freq + d, p.min), p.max) \in Nat
    BY <1>1 DEF AtLeast, AtMost
  <2>3. \A ret \in {0, 500, 1000} : Slider(p.min, p.max, p.step, ret) \in Nat
    BY <1>1, SliderInNat
  <2> QED
    BY <2>1, <2>2, <2>3
<1> HIDE DEF S
<1>4. /\ DOMAIN q = FIELDS /\ q.freq = f /\ q.flagf = TRUE
      /\ \A g \in FIELDS \ {"freq", "flagf"} : q[g] = p[g]
  <2>1. DOMAIN p = FIELDS /\ {"freq", "flagf"} \subseteq FIELDS
    BY FieldIs DEF IsPanel
  <2> QED
    BY <1>2, <2>1
<1>5. q.freq \in Field("freq") /\ q.flagf \in Field("flagf")
  <2>1. Field("freq") = Nat /\ Field("flagf") = BOOLEAN
    BY FieldIs
  <2>2. q.freq \in Nat
    BY <1>3, <1>4
  <2>3. q.flagf \in BOOLEAN
    BY <1>4
  <2> QED
    BY <2>1, <2>2, <2>3, Zenon
<1>6. \A g \in {"freq", "flagf"} \cap TYPED : q[g] \in Field(g)
  BY <1>5
<1>7. q.vmode = p.vmode
  BY <1>4, FieldIs
<1> QED
  BY <1>4, <1>6, <1>7, PanelChanged

\* Every control of the open page leaves a panel.
LEMMA ControlKept ==
  ASSUME IsPanel(pn, sv_top), Control
  PROVE  IsPanel(pn', sv_top)
<1>1. CASE pn' \in Clicks(pn)
  <2>1. CASE pn.page = "VIDEO"
    <3>1. pn' \in VideoClicks(pn)
      BY <1>1, <2>1 DEF Clicks
    <3>2. ModeSet(pn, pn') \/ pn' = [pn EXCEPT !.nvm = ~pn.nvm]
      BY <3>1, VideoPage, PanelIsVideo
    <3>3. CASE pn' = [pn EXCEPT !.nvm = ~pn.nvm]
      <4> DEFINE on == ~pn.nvm
      <4>1. on \in BOOLEAN
        BY Zenon
      <4> HIDE DEF on
      <4>2. IsPanel([pn EXCEPT !["nvm"] = on], sv_top)
        BY <4>1, FieldIs, PanelSet
      <4> QED
        BY <3>3, <4>2 DEF on
    <3> QED
      BY <3>2, <3>3, PanelVideo
  <2>2. CASE pn.page = "MEMORY"
    BY <1>1, <2>2, FreqClick DEF Clicks
  <2>3. CASE pn.page = "SV"
    BY <1>1, <2>3, SvClick DEF Clicks
  <2> QED
    BY <1>1, <2>1, <2>2, <2>3 DEF Clicks
<1>2. CASE \E f \in DOMAIN Popups : \E i \in Popups[f] : pn' = [pn EXCEPT ![f] = i]
  <2>1. PICK f \in DOMAIN Popups : \E i \in Popups[f] : pn' = [pn EXCEPT ![f] = i]
    BY <1>2
  <2>2. f \in TYPED \ {"vmode", "page", "sven"} /\ Field(f) = Popups[f]
    <3>1. f \in TYPED /\ Field(f) = Popups[f]
      BY FieldIs
    <3>2. f \notin {"vmode", "page", "sven"}
      BY DEF Popups
    <3> QED
      BY <3>1, <3>2
  <2>3. PICK i \in Field(f) : pn' = [pn EXCEPT ![f] = i]
    BY <2>1, <2>2
  <2> QED
    BY <2>2, <2>3, PanelSet, Zenon
<1> QED
  BY <1>1, <1>2, Zenon DEF Control

\* So does a text typed where the cursor is.
LEMMA KeyKept ==
  ASSUME IsPanel(pn, sv_top), cpx_key
  PROVE  IsPanel(pn', sv_top)
<1>1. PICK f \in DOMAIN Edits : \E v \in Edits[f] : pn' = [pn EXCEPT ![f] = v]
  BY Zenon DEF cpx_key
<1>2. PICK v \in Edits[f] : pn' = [pn EXCEPT ![f] = v]
  BY <1>1
<1>3. CASE f = "svboot"
  BY <1>2, <1>3, PanelText
<1>4. CASE f # "svboot"
  <2>1. f \in {"trigger", "delay", "time", "sep"}
    BY <1>4, SettingsAssumption
  <2>2. f \in TYPED \ {"vmode", "page", "sven"} /\ v \in Field(f)
    BY <2>1, FieldIs, SettingsAssumption
  <2> QED
    BY <1>2, <2>2, PanelSet
<1> QED
  BY <1>3, <1>4

\* So does scrolling the SuperVidel page, and the first row stays in bounds.
LEMMA ScrollKept ==
  ASSUME sv_top \in 0 .. SV_ROWS - SV_VISIBLE, IsPanel(pn, sv_top), Scroll
  PROVE  IsPanel(pn', sv_top') /\ sv_top' \in 0 .. SV_ROWS - SV_VISIBLE
<1>1. PICK by \in {-SV_VISIBLE, -1, 1, SV_VISIBLE} : SvScroll(sv_top + by)
  BY Zenon DEF Scroll
<1>2. /\ sv_top' = AtMost(AtLeast(sv_top + by, 0), SV_ROWS - SV_VISIBLE)
      /\ pn' = [pn EXCEPT !.edit = sv_first_edit(pn.sven, sv_top')]
  BY <1>1 DEF SvScroll
<1>3. sv_top' \in 0 .. SV_ROWS - SV_VISIBLE
  BY <1>2 DEF AtMost, AtLeast, SV_ROWS, SV_VISIBLE
<1>4. /\ DOMAIN pn' = FIELDS /\ pn'.edit = sv_first_edit(pn.sven, sv_top')
      /\ \A g \in FIELDS \ {"edit"} : pn'[g] = pn[g]
  BY <1>2, FieldIs DEF IsPanel
<1>5. pn'.sven = pn.sven /\ pn.sven \in BOOLEAN /\ pn.page = "SV"
  BY <1>4, FieldIs DEF IsPanel, Scroll
<1>6. \A g \in FIELDS \ {"sven", "edit"} : pn'[g] = pn[g]
  BY <1>4
<1> QED
  BY <1>3, <1>4, <1>5, <1>6, SvEdit

-----------------------------------------------------------------------------
(* What the panel opens with, and loads.                                   *)
\* The index of a code is one of its table, of a code the table has not as
\* well.
LEMMA IndexIn ==
  ASSUME NEW code, NEW codes, DOMAIN codes \subseteq Int, 1 \in DOMAIN codes
  PROVE  IndexOf(code, codes) \in Int /\ IndexOf(code, codes) + 1 \in DOMAIN codes
<1>1. CASE code \in Range(codes)
  <2>1. \E i \in DOMAIN codes : codes[i] = code
    BY <1>1 DEF Range
  <2>2. (CHOOSE i \in DOMAIN codes : codes[i] = code) \in DOMAIN codes
    BY <2>1
  <2> QED
    BY <1>1, <2>2 DEF IndexOf
<1>2. CASE code \notin Range(codes)
  BY <1>2 DEF IndexOf
<1> QED
  BY <1>1, <1>2

\* What the fields of the header may hold.
LEMMA HeaderFieldIs ==
  /\ HeaderField("language") = Range(code_lang) /\ HeaderField("keyboard") = Range(code_key)
  /\ HeaderField("bootpref") = Range(code_os) /\ HeaderField("vmode") = VMode
  /\ HeaderField("sep") = {".", "-", "/"} /\ HeaderField("delay") = 0 .. 99
  /\ HeaderField("trigger") = 0 .. 99 /\ HeaderField("timestop") = Nat
  /\ HeaderField("frequency") = Nat
  /\ \A f \in {"df", "tf", "arb", "id", "daystop", "beep"} \cup SWITCHES :
        HeaderField(f) = Popups[f]
BY DEF HeaderField, SWITCHES

\* The entries of the popups.
LEMMA PopupIs ==
  /\ Popups.language = 0 .. 6 /\ Popups.keyboard = 0 .. 8 /\ Popups.df = 0 .. 3
  /\ Popups.tf = 0 .. 1 /\ Popups.bootpref = 0 .. 5 /\ Popups.arb = 0 .. 1
  /\ Popups.id = 0 .. 7 /\ Popups.daystop = 0 .. 10 /\ Popups.beep = 0 .. 1
BY DEF Popups

\* The settings that NVRAM and header both keep.
LEMMA NvFieldsOf ==
  ASSUME NEW r, r \in Nvram \/ IsHeader(r)
  PROVE  /\ r.df \in 0 .. 3 /\ r.tf \in 0 .. 1 /\ r.sep \in {".", "-", "/"} /\ r.vmode \in VMode
         /\ r.arb \in 0 .. 1 /\ r.id \in 0 .. 7 /\ r.delay \in 0 .. 255
<1>1. CASE r \in Nvram
  BY <1>1 DEF Nvram
<1>2. CASE IsHeader(r)
  <2>1. \A f \in NV_FIELDS : r[f] \in HeaderField(f)
    BY <1>2 DEF IsHeader, HEADER
  <2> QED
    BY <2>1, HeaderFieldIs, PopupIs DEF NV_FIELDS
<1> QED
  BY <1>1, <1>2

\* What the panel shows of the NVRAM or of a header has the panel's types,
\* and the texts are the mode's.
LEMMA ShownIs ==
  ASSUME NEW r, r \in Nvram \/ IsHeader(r)
  PROVE  /\ \A f \in NV_FIELDS : Shown(r)[f] \in Field(f)
         /\ Shown(r).vmode = VideoOpened(r.vmode)
         /\ Shown(r).text = VideoTexts(Shown(r).vmode)
<1> DEFINE s == Shown(r)
<1>1. s.language \in 0 .. 6 /\ s.keyboard \in 0 .. 8 /\ s.bootpref \in 0 .. 5
  <2>1. IndexOf(r.language, code_lang) \in 0 .. 6
    <3>1. DOMAIN code_lang = 1 .. 7
      BY DEF code_lang
    <3>2. DOMAIN code_lang \subseteq Int /\ 1 \in DOMAIN code_lang
      BY <3>1
    <3>3. IndexOf(r.language, code_lang) \in Int /\ IndexOf(r.language, code_lang) + 1 \in DOMAIN code_lang
      BY <3>2, IndexIn, Zenon
    <3> QED
      BY <3>1, <3>3
  <2>2. IndexOf(r.keyboard, code_key) \in 0 .. 8
    <3>1. DOMAIN code_key = 1 .. 9
      BY DEF code_key
    <3>2. DOMAIN code_key \subseteq Int /\ 1 \in DOMAIN code_key
      BY <3>1
    <3>3. IndexOf(r.keyboard, code_key) \in Int /\ IndexOf(r.keyboard, code_key) + 1 \in DOMAIN code_key
      BY <3>2, IndexIn, Zenon
    <3> QED
      BY <3>1, <3>3
  <2>3. IndexOf(r.bootpref, code_os) \in 0 .. 5
    <3>1. DOMAIN code_os = 1 .. 6
      BY DEF code_os
    <3>2. DOMAIN code_os \subseteq Int /\ 1 \in DOMAIN code_os
      BY <3>1
    <3>3. IndexOf(r.bootpref, code_os) \in Int /\ IndexOf(r.bootpref, code_os) + 1 \in DOMAIN code_os
      BY <3>2, IndexIn, Zenon
    <3> QED
      BY <3>1, <3>3
  <2> QED
    BY <2>1, <2>2, <2>3 DEF Shown
<1>2. /\ s.df = r.df /\ s.tf = r.tf /\ s.sep = r.sep /\ s.vmode = VideoOpened(r.vmode)
      /\ s.arb = r.arb /\ s.id = r.id /\ s.delay = AtMost(r.delay, 99)
      /\ s.text = VideoTexts(VideoOpened(r.vmode))
  BY DEF Shown
<1> HIDE DEF s
<1>3. /\ s.df \in 0 .. 3 /\ s.tf \in 0 .. 1 /\ s.sep \in {".", "-", "/"} /\ s.vmode \in VMode
      /\ s.arb \in 0 .. 1 /\ s.id \in 0 .. 7 /\ s.delay \in 0 .. 99
  BY <1>2, NvFieldsOf, ModeOpened DEF AtMost
<1>4. /\ Field("language") = 0 .. 6 /\ Field("keyboard") = 0 .. 8 /\ Field("df") = 0 .. 3
      /\ Field("tf") = 0 .. 1 /\ Field("bootpref") = 0 .. 5 /\ Field("arb") = 0 .. 1
      /\ Field("id") = 0 .. 7
  BY FieldIs, PopupIs DEF Popups
<1>5. \A f \in NV_FIELDS : s[f] \in Field(f)
  BY <1>1, <1>3, <1>4, FieldIs DEF NV_FIELDS
<1> QED
  BY <1>2, <1>5 DEF s

\* So has what only the header keeps.
LEMMA KeptIs ==
  ASSUME NEW h, IsHeader(h)
  PROVE  \A f \in KEPT : Kept(h)[f] \in Field(f)
<1>1. h.trigger \in 0 .. 99 /\ h.daystop \in 0 .. 10 /\ h.timestop \in Nat /\ h.beep \in 0 .. 1
  <2>1. \A f \in {"trigger", "daystop", "timestop", "beep"} : h[f] \in HeaderField(f)
    BY DEF IsHeader, HEADER
  <2> QED
    BY <2>1, HeaderFieldIs, PopupIs
<1>2. Kept(h).trigger \in 0 .. 99 /\ Kept(h).daystop \in 0 .. 10 /\ Kept(h).beep \in 0 .. 1
  BY <1>1 DEF Kept, AtMost, DefaultTrigger
<1>3. Kept(h).time \in Times
  <2>1. (h.timestop \div 2048) % 32 \in 0 .. 31 /\ (h.timestop \div 32) % 64 \in 0 .. 63
    BY <1>1
  <2>2. TimeText(h.timestop) \in Times
    <3> DEFINE a == (h.timestop \div 2048) % 32
               b == (h.timestop \div 32) % 64
    <3>1. TimeText(h.timestop) = AtMost(100 * a + b, 2359)
      BY Zenon DEF TimeText
    <3> HIDE DEF a, b
    <3> QED
      BY <2>1, <3>1 DEF AtMost, Times, a, b
  <2> QED
    BY <2>2 DEF Kept
<1>4. Field("daystop") = 0 .. 10 /\ Field("beep") = 0 .. 1
  BY FieldIs, PopupIs DEF Popups
<1> QED
  BY <1>2, <1>3, <1>4, FieldIs DEF KEPT

\* A frequency forced into limits is a number.
LEMMA ClampIs ==
  ASSUME NEW f, NEW min \in Nat, NEW max
  PROVE  Clamp(f, min, max) \in Nat
BY DEF Clamp

\* The frequency and its limits as the panel opens (init_frequency).
LEMMA FrequenciesAre ==
  \A f \in CLOCK : Frequencies[f] \in Field(f)
<1> DEFINE stored == Clamp(flash.clock, CPX_LIMITS.min, MaxFreq)
           value == ct60_read_clock(chip) \div (IF Halved THEN 2 ELSE 1)
           r == Frequencies
<1>0. CPX_LIMITS.min = 65000 /\ CPX_LIMITS.dallas = 66000
  BY DEF CPX_LIMITS
<1>1. r.min \in {33300, 65000, 66600}
  BY <1>0 DEF Frequencies
<1>2. r.max \in {66000, 75000, 110000}
  BY <1>0 DEF Frequencies, MaxFreq, MAX_FREQ_REV6
<1>3. r.step \in {50, 125}
  BY DEF Frequencies, StepOf, DAC_STEP, CY_STEP
<1>4. r.freq \in Nat
  <2>1. stored \in Nat
    BY <1>0, ClampIs
  <2>2. r.freq = IF ~On060 THEN stored
                 ELSE IF ct60_read_clock(chip) < 0 THEN 0
                 ELSE IF value \in r.min .. r.max THEN value ELSE stored
    BY DEF Frequencies
  <2> HIDE DEF stored, value, r
  <2> QED
    BY <1>1, <1>2, <2>1, <2>2
<1>5. r.flagf \in BOOLEAN
  BY DEF Frequencies
<1> HIDE DEF r
<1>6. \A f \in CLOCK : r[f] \in Field(f)
  BY <1>1, <1>2, <1>3, <1>4, <1>5, FieldIs DEF CLOCK
<1> QED
  BY <1>6 DEF r

\* What the parameters of the flash may hold.
LEMMA FlashFieldIs ==
  /\ \A f \in SWITCHES : FlashField(f) = Popups[f] /\ f \in DOMAIN Popups
  /\ FlashField("ctpci") = 0 .. 1
  /\ FlashField("nv1") = [magic : BOOLEAN, bootpref : Range(code_os)]
  /\ FlashField("nv2") = [language : 0 .. 8, keyboard : 0 .. 18, df : 0 .. 3, tf : 0 .. 1,
                          sep : {".", "-", "/"}]
  /\ FlashField("nv3") = [delay : 0 .. 255, vmode : VMode, arb : 0 .. 1, id : 0 .. 7]
  /\ FLASH \ {"clock", "sv", "tlv"} = SWITCHES \cup {"ctpci", "nv1", "nv2", "nv3"}
BY DEF FlashField, FLASH, SWITCHES, Popups

\* The switches of the flash are popups of the panel.
LEMMA SwitchesAre ==
  ASSUME IsFlash(flash)
  PROVE  \A f \in SWITCHES : flash[f] \in Field(f)
BY FieldIs, FlashFieldIs DEF IsFlash

\* The copy of the NVRAM in the flash.
LEMMA CopyIs ==
  ASSUME IsFlash(flash)
  PROVE  /\ flash.nv1 \in [magic : BOOLEAN, bootpref : Range(code_os)]
         /\ flash.nv2 \in [language : 0 .. 8, keyboard : 0 .. 18, df : 0 .. 3, tf : 0 .. 1,
                           sep : {".", "-", "/"}]
         /\ flash.nv3 \in [delay : 0 .. 255, vmode : VMode, arb : 0 .. 1, id : 0 .. 7]
<1>1. \A f \in {"nv1", "nv2", "nv3"} : flash[f] \in FlashField(f)
  BY FlashFieldIs DEF IsFlash
<1> QED
  BY <1>1, FlashFieldIs, Zenon

\* A read of the NVRAM that restores the copy gives an NVRAM again.
LEMMA NvmReadIs ==
  ASSUME nvram \in Nvram, IsFlash(flash)
  PROVE  NvmRead \in Nvram
<1>1. CASE ~flash.nv1.magic
  BY <1>1 DEF NvmRead
<1>2. CASE flash.nv1.magic
  <2> DEFINE n == NvmRead
  <2>1. DOMAIN nvram = NV_FIELDS
    BY DEF Nvram, NV_FIELDS
  <2>2. /\ DOMAIN flash.nv1 = {"magic", "bootpref"} /\ flash.nv1.bootpref \in Range(code_os)
        /\ DOMAIN flash.nv2 = {"language", "keyboard", "df", "tf", "sep"}
        /\ flash.nv2.language \in 0 .. 8 /\ flash.nv2.keyboard \in 0 .. 18
        /\ flash.nv2.df \in 0 .. 3 /\ flash.nv2.tf \in 0 .. 1 /\ flash.nv2.sep \in {".", "-", "/"}
        /\ DOMAIN flash.nv3 = {"delay", "vmode", "arb", "id"}
        /\ flash.nv3.delay \in 0 .. 255 /\ flash.nv3.vmode \in VMode
        /\ flash.nv3.arb \in 0 .. 1 /\ flash.nv3.id \in 0 .. 7
    BY CopyIs
  <2>3. n = [f \in NV_FIELDS |->
               CASE f \in DOMAIN flash.nv1 -> flash.nv1[f]
                 [] f \in DOMAIN flash.nv2 -> flash.nv2[f]
                 [] OTHER                  -> flash.nv3[f]]
    BY <1>2, <2>1 DEF NvmRead
  <2> HIDE DEF n
  <2>4. n \in [NV_FIELDS -> UNION {{n[f]} : f \in NV_FIELDS}] /\ DOMAIN n = NV_FIELDS
        /\ n = [f \in NV_FIELDS |-> n[f]]
    BY <2>3
  <2>5. /\ n.bootpref \in Range(code_os) /\ n.language \in 0 .. 8 /\ n.keyboard \in 0 .. 18
        /\ n.df \in 0 .. 3 /\ n.tf \in 0 .. 1 /\ n.sep \in {".", "-", "/"} /\ n.delay \in 0 .. 255
        /\ n.vmode \in VMode /\ n.arb \in 0 .. 1 /\ n.id \in 0 .. 7
    BY <2>2, <2>3 DEF NV_FIELDS
  <2>6. n \in Nvram
    BY <2>4, <2>5 DEF Nvram, NV_FIELDS
  <2> QED
    BY <2>6 DEF n
<1> QED
  BY <1>1, <1>2

-----------------------------------------------------------------------------
(* Opening and loading the panel.                                          *)
\* The panel's fields, each in one of the sets Opened and Loaded tell apart.
LEMMA FieldSets ==
  /\ FIELDS = SHOWN \cup SWITCHES \cup KEPT \cup CLOCK \cup SV \cup {"nvm", "open", "page", "edit"}
  /\ SHOWN = NV_FIELDS \cup {"text"} /\ "text" \notin NV_FIELDS
  /\ SHOWN \cap SWITCHES = {} /\ (SHOWN \cup SWITCHES) \cap KEPT = {}
  /\ (SHOWN \cup SWITCHES \cup KEPT) \cap CLOCK = {}
  /\ (SHOWN \cup SWITCHES \cup KEPT \cup CLOCK) \cap SV = {}
  /\ (SHOWN \cup SWITCHES \cup KEPT \cup CLOCK \cup SV) \cap {"nvm", "open", "page", "edit"} = {}
  /\ "vmode" \in NV_FIELDS /\ "freq" \in CLOCK /\ "sven" \in SV
  /\ SV \cap TYPED = {"sven"}
  /\ TYPED = NV_FIELDS \cup SWITCHES \cup KEPT \cup CLOCK \cup {"sven", "nvm", "page"}
BY DEF FIELDS, TYPED, SHOWN, NV_FIELDS, SWITCHES, KEPT, CLOCK, SV

\* The page the panel opens with has the field the cursor is given.
LEMMA FirstPageIs ==
  ASSUME NEW p, NEW top
  PROVE  /\ FirstPage \in Pages
         /\ EditOn(FirstPage, p) = (IF On060 THEN "trigger" ELSE "none")
         /\ On060 => PageOf("trigger") = FirstPage
BY DEF FirstPage, Pages, EditOn, PageOf

\* The panel opens as a panel, whatever the setup or another program left in
\* NVRAM and flash.
LEMMA Opening ==
  ASSUME machine \in Machine, Stored
  PROVE  IsPanel(Opened, sv_top)
<1> DEFINE n == NvmRead
           h == fix_header
           s == SvObjects(IF machine.sv /\ flash.sv.version THEN flash.sv ELSE SV_DEFAULT)
           o == Opened
<1>1. IsFlash(flash) /\ n \in Nvram /\ IsHeader(h)
  BY NvmReadIs DEF Stored, fix_header
<1>2. o = [f \in FIELDS |->
     CASE f \in SHOWN    -> Shown(n)[f]
       [] f \in SWITCHES -> flash[f]
       [] f \in KEPT     -> Kept(h)[f]
       [] f \in CLOCK    -> Frequencies[f]
       [] f \in SV       -> s[f]
       [] f = "nvm"      -> flash.nv1.magic
       [] f = "open"     -> TRUE
       [] f = "page"     -> FirstPage
       [] f = "edit"     -> IF On060 THEN "trigger" ELSE "none"]
  BY Zenon DEF Opened
<1>3. flash.nv1.magic \in BOOLEAN
  BY <1>1, CopyIs
<1>4. s.sven \in BOOLEAN
  BY DEF SvObjects
<1> HIDE DEF n, h, s, o
<1>5. /\ DOMAIN o = FIELDS /\ o.open = TRUE /\ o.page = FirstPage /\ o.nvm \in BOOLEAN
      /\ o.edit = IF On060 THEN "trigger" ELSE "none"
  BY <1>2, <1>3, FieldSets
<1>6. /\ \A f \in SHOWN : o[f] = Shown(n)[f]
      /\ \A f \in SWITCHES : o[f] = flash[f]
      /\ \A f \in KEPT : o[f] = Kept(h)[f]
      /\ \A f \in CLOCK : o[f] = Frequencies[f]
      /\ o.sven = s.sven
  BY <1>2, FieldSets
<1>7. \A f \in TYPED : o[f] \in Field(f)
  <2>1. \A f \in NV_FIELDS : o[f] \in Field(f)
    BY <1>1, <1>6, ShownIs, FieldSets
  <2>2. \A f \in SWITCHES : o[f] \in Field(f)
    BY <1>1, <1>6, SwitchesAre
  <2>3. \A f \in KEPT : o[f] \in Field(f)
    BY <1>1, <1>6, KeptIs
  <2>4. \A f \in CLOCK : o[f] \in Field(f)
    BY <1>6, FrequenciesAre
  <2>5. o.sven \in Field("sven") /\ o.nvm \in Field("nvm") /\ o.page \in Field("page")
    BY <1>4, <1>5, <1>6, FieldIs, FirstPageIs
  <2>6. TYPED \subseteq NV_FIELDS \cup SWITCHES \cup KEPT \cup CLOCK \cup {"sven", "nvm", "page"}
    BY FieldSets
  <2> QED
    BY <2>1, <2>2, <2>3, <2>4, <2>5, <2>6
<1>8. o.text = VideoTexts(o.vmode)
  <2>1. o.text = Shown(n).text /\ o.vmode = Shown(n).vmode
    BY <1>6, FieldSets
  <2> QED
    BY <1>1, <2>1, ShownIs
<1>9. InPage(o, sv_top)
  BY <1>5, FirstPageIs DEF InPage
<1>10. IsPanel(o, sv_top)
  BY <1>5, <1>7, <1>8, <1>9 DEF IsPanel
<1> QED
  BY <1>10 DEF o

\* LOAD leaves a panel, with the mode the header holds as opening would show
\* it.
LEMMA Loading ==
  ASSUME NEW p, NEW top, IsPanel(p, top), NEW h, IsHeader(h)
  PROVE  /\ IsPanel(Loaded(p, h), top)
         /\ Loaded(p, h).vmode = VideoOpened(h.vmode)
<1> DEFINE o == Loaded(p, h)
           freq == IF On060 /\ ct60_read_clock(chip) < 0 THEN 0 ELSE Clamp(h.frequency, p.min, p.max)
<1>1. o = [f \in FIELDS |->
     CASE f \in SHOWN    -> Shown(h)[f]
       [] f \in SWITCHES -> h[f]
       [] f \in KEPT     -> Kept(h)[f]
       [] f = "freq"     -> freq
       [] f = "page"     -> FirstPage
       [] f = "edit"     -> EditOn(FirstPage, p)
       [] OTHER          -> p[f]]
  BY Zenon DEF Loaded
<1>2. freq \in Nat
  <2>1. p.min \in Nat
    BY FieldIs DEF IsPanel
  <2>2. Clamp(h.frequency, p.min, p.max) \in Nat
    BY <2>1, ClampIs
  <2> QED
    BY <2>2
<1> HIDE DEF o, freq
<1>5. /\ DOMAIN o = FIELDS /\ o.open = TRUE /\ o.page = FirstPage /\ o.nvm = p.nvm
      /\ o.edit = (IF On060 THEN "trigger" ELSE "none") /\ o.freq = freq /\ o.sven = p.sven
  BY <1>1, FieldSets, FirstPageIs DEF IsPanel
<1>6. /\ \A f \in SHOWN : o[f] = Shown(h)[f]
      /\ \A f \in SWITCHES : o[f] = h[f]
      /\ \A f \in KEPT : o[f] = Kept(h)[f]
      /\ \A f \in CLOCK \ {"freq"} : o[f] = p[f]
  BY <1>1, FieldSets
<1>7. \A f \in TYPED : o[f] \in Field(f)
  <2>1. \A f \in NV_FIELDS : o[f] \in Field(f)
    BY <1>6, ShownIs, FieldSets
  <2>2. \A f \in SWITCHES : o[f] \in Field(f)
    <3>1. \A f \in SWITCHES : h[f] \in HeaderField(f)
      BY DEF IsHeader, HEADER
    <3>2. \A f \in SWITCHES : HeaderField(f) = Popups[f]
      BY HeaderFieldIs
    <3>3. SWITCHES \subseteq DOMAIN Popups
      BY DEF SWITCHES, Popups
    <3> QED
      BY <1>6, <3>1, <3>2, <3>3, FieldIs
  <2>3. \A f \in KEPT : o[f] \in Field(f)
    BY <1>6, KeptIs
  <2>4. \A f \in CLOCK : o[f] \in Field(f)
    <3>1. \A f \in CLOCK \ {"freq"} : o[f] \in Field(f)
      BY <1>6, FieldIs DEF IsPanel, CLOCK
    <3> QED
      BY <1>2, <1>5, <3>1, FieldIs
  <2>5. o.sven \in Field("sven") /\ o.nvm \in Field("nvm") /\ o.page \in Field("page")
    BY <1>5, FieldIs, FirstPageIs DEF IsPanel
  <2>6. TYPED \subseteq NV_FIELDS \cup SWITCHES \cup KEPT \cup CLOCK \cup {"sven", "nvm", "page"}
    BY FieldSets
  <2> QED
    BY <2>1, <2>2, <2>3, <2>4, <2>5, <2>6
<1>8. o.text = VideoTexts(o.vmode) /\ o.vmode = VideoOpened(h.vmode)
  <2>1. o.text = Shown(h).text /\ o.vmode = Shown(h).vmode
    BY <1>6, FieldSets
  <2> QED
    BY <2>1, ShownIs
<1>9. InPage(o, top)
  BY <1>5, FirstPageIs DEF InPage
<1>10. IsPanel(o, top)
  BY <1>5, <1>7, <1>8, <1>9 DEF IsPanel
<1> QED
  BY <1>8, <1>10 DEF o

-----------------------------------------------------------------------------
(* What the panel writes back.                                             *)
\* The codes of the panel's tables are codes of the NVRAM.
LEMMA Codes ==
  /\ \A i \in 0 .. 6 : code_lang[i + 1] \in Range(code_lang)
  /\ \A i \in 0 .. 8 : code_key[i + 1] \in Range(code_key)
  /\ \A i \in 0 .. 5 : code_os[i + 1] \in Range(code_os)
  /\ Range(code_lang) \subseteq 0 .. 8 /\ Range(code_key) \subseteq 0 .. 18
<1>1. DOMAIN code_lang = 1 .. 7 /\ DOMAIN code_key = 1 .. 9 /\ DOMAIN code_os = 1 .. 6
  BY DEF code_lang, code_key, code_os
<1>2. \A i \in DOMAIN code_lang : code_lang[i] \in Range(code_lang)
  BY Zenon DEF Range
<1>3. \A i \in DOMAIN code_key : code_key[i] \in Range(code_key)
  BY Zenon DEF Range
<1>4. \A i \in DOMAIN code_os : code_os[i] \in Range(code_os)
  BY Zenon DEF Range
<1>5. /\ \A i \in 0 .. 6 : code_lang[i + 1] \in Range(code_lang)
      /\ \A i \in 0 .. 8 : code_key[i + 1] \in Range(code_key)
      /\ \A i \in 0 .. 5 : code_os[i + 1] \in Range(code_os)
  BY <1>1, <1>2, <1>3, <1>4
<1>6. Range(code_lang) \subseteq 0 .. 8
  BY DEF Range, code_lang
<1>7. Range(code_key) \subseteq 0 .. 18
  BY DEF Range, code_key
<1> QED
  BY <1>5, <1>6, <1>7

\* What the panel writes back to NVRAM and header is of their types.
LEMMA CodedIs ==
  ASSUME NEW p, NEW top, IsPanel(p, top)
  PROVE  /\ DOMAIN Coded(p) = NV_FIELDS
         /\ \A f \in NV_FIELDS : Coded(p)[f] \in HeaderField(f)
         /\ Coded(p) \in Nvram
         /\ Coded(p).vmode = p.vmode
<1> DEFINE c == Coded(p)
           l == code_lang[p.language + 1]
           k == code_key[p.keyboard + 1]
           b == code_os[p.bootpref + 1]
<1>1. \A f \in NV_FIELDS : p[f] \in Field(f)
  BY FieldSets DEF IsPanel
<1>2. /\ l \in Range(code_lang) /\ k \in Range(code_key) /\ b \in Range(code_os)
  <2>1. p.language \in 0 .. 6 /\ p.keyboard \in 0 .. 8 /\ p.bootpref \in 0 .. 5
    BY <1>1, FieldIs, PopupIs DEF NV_FIELDS, Popups
  <2> QED
    BY <2>1, Codes
<1>3. /\ p.df \in 0 .. 3 /\ p.tf \in 0 .. 1 /\ p.sep \in {".", "-", "/"} /\ p.vmode \in VMode
      /\ p.arb \in 0 .. 1 /\ p.id \in 0 .. 7 /\ p.delay \in 0 .. 99
  BY <1>1, FieldIs, PopupIs DEF NV_FIELDS, Popups
<1>4. c = [language |-> l, keyboard |-> k, df |-> p.df, tf |-> p.tf, sep |-> p.sep,
           vmode |-> p.vmode, bootpref |-> b, arb |-> p.arb, id |-> p.id, delay |-> p.delay]
  BY Zenon DEF Coded
<1> HIDE DEF c, l, k, b
<1>5. /\ DOMAIN c = NV_FIELDS /\ c = [f \in NV_FIELDS |-> c[f]]
      /\ c.language = l /\ c.keyboard = k /\ c.bootpref = b /\ c.df = p.df /\ c.tf = p.tf
      /\ c.sep = p.sep /\ c.vmode = p.vmode /\ c.arb = p.arb /\ c.id = p.id /\ c.delay = p.delay
  BY <1>4 DEF NV_FIELDS
<1>6. \A f \in NV_FIELDS : c[f] \in HeaderField(f)
  BY <1>2, <1>3, <1>5, HeaderFieldIs, PopupIs DEF NV_FIELDS
<1>7. c \in Nvram
  <2>1. l \in 0 .. 8 /\ k \in 0 .. 18 /\ p.delay \in 0 .. 255
    BY <1>2, <1>3, Codes
  <2> QED
    BY <1>2, <1>3, <1>4, <2>1 DEF Nvram
<1> QED
  BY <1>5, <1>6, <1>7 DEF c

\* The header SAVE makes is one LOAD can take.
LEMMA HeaderIs ==
  ASSUME NEW p, NEW top, IsPanel(p, top)
  PROVE  IsHeader(HeaderOf(p))
<1> DEFINE h == HeaderOf(p)
           word == TimeWord(p.time)
           c == Coded(p)
<1>1. h = [f \in HEADER |-> CASE f \in NV_FIELDS -> c[f] [] f = "timestop" -> word
                              [] f = "frequency" -> p.freq [] OTHER -> p[f]]
  BY Zenon DEF HeaderOf, HeaderWith, HEADER
<1>2. word \in Nat
  <2>1. p.time \in Nat
    BY FieldIs DEF IsPanel, Times
  <2>2. 2048 * (p.time \div 100) + 32 * (p.time % 100) \in Nat
    BY <2>1
  <2> QED
    BY <2>2 DEF TimeWord, WORD
<1> HIDE DEF h, c, word
<1>3. DOMAIN h = HEADER
  BY <1>1
<1>4. \A f \in NV_FIELDS : h[f] \in HeaderField(f)
  <2>1. NV_FIELDS \subseteq HEADER /\ {"timestop", "frequency"} \cap NV_FIELDS = {}
    BY DEF HEADER, NV_FIELDS
  <2>2. \A f \in NV_FIELDS : c[f] \in HeaderField(f)
    BY CodedIs DEF c
  <2> QED
    BY <1>1, <2>1, <2>2
<1>5. \A f \in SWITCHES \cup {"trigger", "daystop", "beep"} : h[f] = p[f] /\ p[f] \in Field(f)
  <2>1. (SWITCHES \cup {"trigger", "daystop", "beep"}) \cap NV_FIELDS = {}
    BY FieldSets DEF KEPT
  <2>2. SWITCHES \cup {"trigger", "daystop", "beep"} \subseteq HEADER \cap TYPED
    BY FieldSets DEF HEADER, KEPT
  <2>3. {"timestop", "frequency"} \cap TYPED = {}
    BY DEF TYPED, FIELDS, SHOWN, NV_FIELDS, SWITCHES, KEPT, CLOCK, SV
  <2> QED
    BY <1>1, <2>1, <2>2, <2>3 DEF IsPanel
<1>6. \A f \in SWITCHES \cup {"trigger", "daystop", "beep"} : h[f] \in HeaderField(f)
  <2>1. \A f \in SWITCHES : Field(f) = HeaderField(f)
    <3>1. \A f \in SWITCHES : f \in DOMAIN Popups
      BY FlashFieldIs
    <3>2. \A f \in SWITCHES : Field(f) = Popups[f]
      BY <3>1, FieldIs
    <3>3. \A f \in SWITCHES : HeaderField(f) = Popups[f]
      BY HeaderFieldIs
    <3> QED
      BY <3>2, <3>3
  <2>2. \A f \in {"trigger", "daystop", "beep"} : Field(f) = HeaderField(f)
    <3>1. Field("trigger") = HeaderField("trigger")
      <4>1. Field("trigger") = 0 .. 99
        BY FieldIs
      <4>2. HeaderField("trigger") = 0 .. 99
        BY HeaderFieldIs
      <4> QED
        BY <4>1, <4>2
    <3>2. {"daystop", "beep"} \subseteq DOMAIN Popups
      BY DEF Popups
    <3>3. \A f \in {"daystop", "beep"} : Field(f) = HeaderField(f)
      BY <3>2, FieldIs, HeaderFieldIs
    <3> QED
      BY <3>1, <3>3
  <2> QED
    BY <1>5, <2>1, <2>2
<1>7. h.timestop \in Nat /\ h.frequency \in Nat
  <2>1. p.freq \in Nat
    BY FieldIs DEF IsPanel
  <2>2. {"timestop", "frequency"} \cap NV_FIELDS = {} /\ {"timestop", "frequency"} \subseteq HEADER
    BY DEF NV_FIELDS, HEADER
  <2> QED
    BY <1>1, <1>2, <2>1, <2>2
<1>8. \A f \in HEADER : h[f] \in HeaderField(f)
  BY <1>4, <1>6, <1>7, HeaderFieldIs DEF HEADER
<1>9. IsHeader(h)
  BY <1>3, <1>8 DEF IsHeader
<1> QED
  BY <1>9 DEF h

\* Parameters of their types leave the flash of its type, whichever of them
\* fails.
LEMMA FlashWritten ==
  ASSUME IsFlash(flash), NEW upd, NEW failed,
         \A f \in DOMAIN upd \cap (FLASH \ {"clock", "sv", "tlv"}) : upd[f] \in FlashField(f)
  PROVE  IsFlash(WriteParams(upd, failed))
<1> DEFINE fl == WriteParams(upd, failed)
<1>1. /\ DOMAIN fl = FLASH
      /\ \A f \in FLASH : fl[f] = IF f \in DOMAIN upd /\ f # failed THEN upd[f] ELSE flash[f]
  BY DEF WriteParams, IsFlash
<1> HIDE DEF fl
<1>2. \A f \in FLASH \ {"clock", "sv", "tlv"} : fl[f] \in FlashField(f)
  BY <1>1 DEF IsFlash
<1>3. IsFlash(fl)
  BY <1>1, <1>2 DEF IsFlash
<1> QED
  BY <1>3 DEF fl

\* Those OK writes are.
LEMMA ParametersAre ==
  ASSUME IsFlash(flash), NEW p, NEW top, IsPanel(p, top), NEW failed
  PROVE  IsFlash(WriteParams(Parameters(p), failed))
<1> DEFINE c == Coded(p)
           u == Parameters(p)
           names == SWITCHES \cup {"clock", "nv1", "nv2", "nv3"}
                      \cup (IF machine.sv THEN {"sv"} ELSE {})
<1>1. u = [name \in names |->
         CASE name \in SWITCHES -> p[name]
           [] name = "clock"    -> p.freq
           [] name = "nv1"      -> [magic |-> p.nvm, bootpref |-> c.bootpref]
           [] name = "sv"       -> SvWord(p)
           [] OTHER             -> [f \in DOMAIN flash[name] |-> c[f]]]
  BY Zenon DEF Parameters
<1>2. {"clock", "nv1", "nv2", "nv3", "sv", "ctpci"} \cap SWITCHES = {}
  BY DEF SWITCHES
<1>3. c \in Nvram
  BY CodedIs
<1>4. p.nvm \in BOOLEAN
  BY PanelIsVideo
<1> HIDE DEF u, c
<1>5. /\ DOMAIN u = names /\ \A f \in SWITCHES : u[f] = p[f]
      /\ u.nv1 = [magic |-> p.nvm, bootpref |-> c.bootpref]
      /\ u.nv2 = [f \in DOMAIN flash.nv2 |-> c[f]] /\ u.nv3 = [f \in DOMAIN flash.nv3 |-> c[f]]
  BY <1>1, <1>2
<1>6. \A f \in SWITCHES : u[f] \in FlashField(f)
  <2>1. \A f \in SWITCHES : f \in TYPED /\ FlashField(f) = Field(f)
    BY FieldIs, FlashFieldIs
  <2>2. \A f \in TYPED : p[f] \in Field(f)
    BY DEF IsPanel
  <2> QED
    BY <1>5, <2>1, <2>2, Zenon
<1>7. u.nv1 \in FlashField("nv1")
  <2>1. c.bootpref \in Range(code_os)
    BY <1>3 DEF Nvram
  <2>2. u.nv1 = [magic |-> p.nvm, bootpref |-> c.bootpref]
    BY <1>5
  <2>3. FlashField("nv1") = [magic : BOOLEAN, bootpref : Range(code_os)]
    BY FlashFieldIs
  <2> QED
    BY <1>4, <2>1, <2>2, <2>3
<1>8. u.nv2 \in FlashField("nv2")
  <2>1. DOMAIN flash.nv2 = {"language", "keyboard", "df", "tf", "sep"}
    BY CopyIs
  <2>2. /\ c.language \in 0 .. 8 /\ c.keyboard \in 0 .. 18 /\ c.df \in 0 .. 3 /\ c.tf \in 0 .. 1
        /\ c.sep \in {".", "-", "/"}
    BY <1>3 DEF Nvram
  <2> DEFINE e == u.nv2
  <2>3. e = [f \in {"language", "keyboard", "df", "tf", "sep"} |-> c[f]]
    BY <1>5, <2>1
  <2> HIDE DEF e
  <2>4. e \in FlashField("nv2")
    BY <2>2, <2>3, FlashFieldIs
  <2> QED
    BY <2>4 DEF e
<1>9. u.nv3 \in FlashField("nv3")
  <2>1. DOMAIN flash.nv3 = {"delay", "vmode", "arb", "id"}
    BY CopyIs
  <2>2. c.delay \in 0 .. 255 /\ c.vmode \in VMode /\ c.arb \in 0 .. 1 /\ c.id \in 0 .. 7
    BY <1>3 DEF Nvram
  <2> DEFINE e == u.nv3
  <2>3. e = [f \in {"delay", "vmode", "arb", "id"} |-> c[f]]
    BY <1>5, <2>1
  <2> HIDE DEF e
  <2>4. e \in FlashField("nv3")
    BY <2>2, <2>3, FlashFieldIs
  <2> QED
    BY <2>4 DEF e
<1>10. \A f \in DOMAIN u \cap (FLASH \ {"clock", "sv", "tlv"}) : u[f] \in FlashField(f)
  <2>1. DOMAIN u \cap (FLASH \ {"clock", "sv", "tlv"}) \subseteq SWITCHES \cup {"nv1", "nv2", "nv3"}
    BY <1>5
  <2> QED
    BY <1>6, <1>7, <1>8, <1>9, <2>1
<1>11. IsFlash(WriteParams(u, failed))
  BY <1>10, FlashWritten
<1> QED
  BY <1>11 DEF u

-----------------------------------------------------------------------------
(* The steps of the panel.                                                 *)
\* A write to the generator fails only while faults are left.
LEMMA WriteNeedsFault ==
  ASSUME NEW chp, NEW f, NEW mode, NEW lim, NEW faulty \in BOOLEAN,
         NEW r \in ct60_configure_clock(chp, f, mode, lim, faulty), r.err = "write"
  PROVE  faulty = TRUE
BY DEF ct60_configure_clock

\* A parameter fails only while faults are left.
LEMMA FailureNeedsFault ==
  ASSUME NEW names, NEW failed \in Failures(names), failed # "none"
  PROVE  faults > 0
BY DEF Failures

\* OK stores what the panel shows, of its type, and closes.
LEMMA Accepted ==
  ASSUME Stored, NEW p, NEW top, IsPanel(p, top), Accept(p)
  PROVE  nvram' \in Nvram /\ IsFlash(flash') /\ faults' \in Nat /\ pn' = Closed
<1>1. PICK failed \in Failures(DOMAIN Parameters(p)) :
        \E r \in RunClock(p, failed = "none" /\ faults > 0) :
          /\ nvram' = Coded(p) /\ flash' = WriteParams(Parameters(p), failed)
          /\ faults' = IF failed # "none" \/ r.err = "write" THEN faults - 1 ELSE faults
          /\ pn' = Closed
  BY Zenon DEF Accept
<1>2. PICK r \in RunClock(p, failed = "none" /\ faults > 0) :
          /\ nvram' = Coded(p) /\ flash' = WriteParams(Parameters(p), failed)
          /\ faults' = IF failed # "none" \/ r.err = "write" THEN faults - 1 ELSE faults
          /\ pn' = Closed
  BY <1>1
<1>3. failed # "none" \/ r.err = "write" => faults > 0
  <2>1. CASE failed # "none"
    BY <2>1, FailureNeedsFault
  <2>2. CASE r.err = "write"
    <3> DEFINE faulty == failed = "none" /\ faults > 0
    <3>1. faulty \in BOOLEAN
      BY Zenon
    <3>2. r \in RunClock(p, faulty)
      BY Zenon
    <3>3. r \in ct60_configure_clock(chip, p.freq, "ram", CPX_LIMITS, faulty)
      <4> HIDE DEF faulty
      <4> QED
        BY <2>2, <3>2 DEF RunClock
    <3>4. faulty = TRUE
      <4> HIDE DEF faulty
      <4> QED
        BY <2>2, <3>1, <3>3, WriteNeedsFault
    <3> QED
      BY <3>4, Zenon
  <2> QED
    BY <2>1, <2>2
<1>4. faults' \in Nat
  BY <1>2, <1>3 DEF Stored
<1>5. nvram' \in Nvram /\ IsFlash(flash')
  BY <1>2, CodedIs, ParametersAre DEF Stored
<1> QED
  BY <1>2, <1>4, <1>5

\* SAVE's new lower limit leaves a panel with the mode it had.
LEMMA RaisedIs ==
  ASSUME NEW p, NEW top, IsPanel(p, top)
  PROVE  IsPanel(Raised(p), top) /\ Raised(p).vmode = p.vmode
<1> DEFINE min == IF chip.kind = "dallas" THEN CPX_LIMITS.dallas + 600 ELSE CPX_LIMITS.min
           freq == AtLeast(p.freq, min)
           step == StepOf(chip)
           q == Raised(p)
<1>1. min \in {33300, 65000, 66600} /\ step \in {50, 125}
  BY DEF CPX_LIMITS, StepOf, DAC_STEP, CY_STEP
<1>2. freq \in Nat
  <2>1. p.freq \in Nat
    BY FieldIs DEF IsPanel
  <2> HIDE DEF min
  <2> QED
    BY <1>1, <2>1 DEF AtLeast
<1>3. q = [p EXCEPT !.min = min, !.step = step, !.freq = freq]
  BY Zenon DEF Raised
<1> HIDE DEF q, min, step, freq
<1>4. /\ DOMAIN q = FIELDS /\ q.min = min /\ q.step = step /\ q.freq = freq
      /\ \A f \in FIELDS \ {"min", "step", "freq"} : q[f] = p[f]
  <2>1. DOMAIN p = FIELDS /\ {"min", "step", "freq"} \subseteq FIELDS
    BY FieldIs DEF IsPanel
  <2> QED
    BY <1>3, <2>1
<1>5. \A f \in {"min", "step", "freq"} \cap TYPED : q[f] \in Field(f)
  BY <1>1, <1>2, <1>4, FieldIs
<1>6. IsPanel(q, top)
  BY <1>4, <1>5, PanelChanged
<1>7. q.vmode = p.vmode
  BY <1>4, FieldSets
<1> QED
  BY <1>6, <1>7 DEF q

\* SAVE leaves a panel with the mode it had, or closes it as OK does when
\* the frequency must be tried first.
LEMMA Saved ==
  ASSUME Stored, IsPanel(pn, sv_top), NEW clicks \in {1, 2}, Save(clicks)
  PROVE  /\ nvram' \in Nvram /\ IsFlash(flash') /\ faults' \in Nat
         /\ IsHeader(disk') /\ IsHeader(head') /\ UNCHANGED sv_top
         /\ pn' = Closed \/ (IsPanel(pn', sv_top) /\ pn'.vmode = pn.vmode)
<1>1. /\ head' = HeaderOf(pn) /\ disk' \in {disk, HeaderOf(pn)} /\ UNCHANGED sv_top
      /\ IF WantsClock(clicks) THEN SaveClock(Raised(pn)) ELSE SaveNoClock
  BY DEF Save
<1>2. IsHeader(disk') /\ IsHeader(head')
  BY <1>1, HeaderIs DEF Stored
<1>3. CASE ~WantsClock(clicks)
  BY <1>1, <1>2, <1>3 DEF SaveNoClock, Stored
<1>4. CASE WantsClock(clicks)
  <2> DEFINE p == Raised(pn)
  <2>1. IsPanel(p, sv_top) /\ p.vmode = pn.vmode
    BY RaisedIs
  <2>2. SaveClock(p)
    BY <1>1, <1>4, Zenon
  <2> HIDE DEF p
  <2>3. CASE NotProgrammed(p)
    BY <1>1, <1>2, <2>1, <2>3 DEF NotProgrammed, Stored
  <2>4. CASE Accept(p)
    BY <1>1, <1>2, <2>1, <2>4, Accepted
  <2>5. CASE /\ \E r \in ct60_configure_clock(chip, p.freq, "rom", CPX_LIMITS, faults > 0) :
                   /\ faults' = IF r.err = "write" THEN faults - 1 ELSE faults
                   /\ pn' = [p EXCEPT !.flagf = IF r.err = "none" THEN FALSE ELSE @]
             /\ UNCHANGED <<nvram, flash>>
    <3>1. PICK r \in ct60_configure_clock(chip, p.freq, "rom", CPX_LIMITS, faults > 0) :
                   /\ faults' = IF r.err = "write" THEN faults - 1 ELSE faults
                   /\ pn' = [p EXCEPT !.flagf = IF r.err = "none" THEN FALSE ELSE @]
      BY <2>5
    <3>2. faults' \in Nat
      <4> DEFINE faulty == faults > 0
      <4>1. faulty \in BOOLEAN
        OBVIOUS
      <4>2. r.err = "write" => faulty = TRUE
        <5>1. r \in ct60_configure_clock(chip, p.freq, "rom", CPX_LIMITS, faulty)
          OBVIOUS
        <5> HIDE DEF faulty
        <5> QED
          BY <4>1, <5>1, WriteNeedsFault
      <4>3. r.err = "write" => faults > 0
        BY <4>2, Zenon
      <4> QED
        BY <3>1, <4>3 DEF Stored
    <3>3. \E on \in BOOLEAN : pn' = [p EXCEPT !["flagf"] = on]
      <4>1. p.flagf \in BOOLEAN
        BY <2>1, FieldIs DEF IsPanel
      <4> QED
        BY <3>1, <4>1
    <3>4. IsPanel(pn', sv_top) /\ pn'.vmode = p.vmode
      <4>1. PICK on \in BOOLEAN : pn' = [p EXCEPT !["flagf"] = on]
        BY <3>3
      <4>2. on \in Field("flagf") /\ "flagf" \in TYPED \ {"vmode", "page", "sven"}
        BY FieldIs
      <4>3. IsPanel(pn', sv_top)
        BY <2>1, <4>1, <4>2, PanelSet
      <4> QED
        BY <4>1, <4>3
    <3> QED
      BY <1>1, <1>2, <2>1, <2>5, <3>2, <3>4 DEF Stored
  <2> QED
    BY <2>2, <2>3, <2>4, <2>5, Zenon DEF SaveClock
<1> QED
  BY <1>3, <1>4

-----------------------------------------------------------------------------
(* The forms of the setup and the moves in them.                           *)
\* The smallest number of a set is in it.
LEMMA MinIn ==
  ASSUME NEW S \in SUBSET Nat, S # {}
  PROVE  Min(S) \in S
<1>1. \E n \in S : \A m \in S : n =< m
  BY LeastNumber
<1> QED
  BY <1>1 DEF Min

\* So is the largest of a bounded one.
LEMMA MaxIn ==
  ASSUME NEW n \in Nat, NEW S \in SUBSET (0 .. n), S # {}
  PROVE  Max(S) \in S
<1> DEFINE T == {n - s : s \in S}
<1>1. T \in SUBSET Nat /\ T # {}
  <2>1. \A s \in S : n - s \in Nat
    OBVIOUS
  <2>2. PICK s \in S : TRUE
    OBVIOUS
  <2>3. n - s \in T
    OBVIOUS
  <2> QED
    BY <2>1, <2>3
<1>2. PICK t \in T : \A m \in T : t <= m
  BY <1>1, LeastNumber
<1>3. PICK s \in S : t = n - s
  BY <1>2
<1>4. \A m \in S : s >= m
  BY <1>2, <1>3
<1>5. \E x \in S : \A y \in S : x >= y
  BY <1>4
<1> QED
  BY <1>5 DEF Max

\* The arrows in a form, of whatever rows: no move leaves the form
\* (vt_setting_next, vt_setting_prevRow, vt_setting_nextRow).
LEMMA Moves ==
  ASSUME NEW rows, NEW n \in Nat, DOMAIN rows = 1 .. n, Len(rows) = n, NEW sel \in 1 .. n
  PROVE  /\ vt_setting_next(sel, rows) \in 1 .. n
         /\ vt_setting_prevRow(sel, rows) \in 1 .. n
         /\ vt_setting_nextRow(sel, rows) \in 1 .. n
<1>1. vt_setting_next(sel, rows) \in 1 .. n
  BY DEF vt_setting_next
<1>2. vt_setting_prevRow(sel, rows) \in 1 .. n
  <2> DEFINE above == {i \in 1 .. sel : rows[i] # rows[sel]}
             k == IF above = {} THEN 1 ELSE Max(above)
             same == {i \in DOMAIN rows : rows[i] = rows[k]}
  <2>1. k \in 1 .. n
    <3>1. CASE above = {}
      BY <3>1
    <3>2. CASE above # {}
      <4>1. above \in SUBSET (0 .. n) /\ above \subseteq 1 .. n
        OBVIOUS
      <4> HIDE DEF above
      <4>2. Max(above) \in above
        BY <3>2, <4>1, MaxIn
      <4> QED
        BY <3>2, <4>1, <4>2
    <3> QED
      BY <3>1, <3>2
  <2>2. vt_setting_prevRow(sel, rows) = Min(same)
    BY Zenon DEF vt_setting_prevRow
  <2> HIDE DEF above, k
  <2>3. same \in SUBSET Nat /\ same # {} /\ same \subseteq 1 .. n
    BY <2>1
  <2> HIDE DEF same
  <2> QED
    BY <2>2, <2>3, MinIn
<1>3. vt_setting_nextRow(sel, rows) \in 1 .. n
  <2> DEFINE S == {i \in sel .. Len(rows) : rows[i] # rows[sel]} \cup {Len(rows)}
  <2>1. S \in SUBSET Nat /\ S # {} /\ S \subseteq 1 .. n
    OBVIOUS
  <2>2. vt_setting_nextRow(sel, rows) = Min(S)
    BY Zenon DEF vt_setting_nextRow
  <2> HIDE DEF S
  <2> QED
    BY <2>1, <2>2, MinIn
<1> QED
  BY <1>1, <1>2, <1>3

\* Nor do those of the menu.
LEMMA MenuMoves ==
  ASSUME NEW row \in 1 .. NUM_MENU_ENTRIES
  PROVE  RowUp(row) \in 1 .. NUM_MENU_ENTRIES /\ RowDown(row) \in 1 .. NUM_MENU_ENTRIES
<1> USE DEF NUM_MENU_ENTRIES
<1>1. ASSUME row # 1 PROVE RowUp(row) \in 1 .. 9
  <2> DEFINE S == {r \in 1 .. row - 1 : r = 1 \/ r \notin Empty}
  <2>1. S \in SUBSET (0 .. 9) /\ S # {} /\ S \subseteq 1 .. 9
    BY <1>1
  <2>2. RowUp(row) = Max(S)
    BY <1>1, Zenon DEF RowUp
  <2> HIDE DEF S
  <2>3. Max(S) \in S
    BY <2>1, MaxIn
  <2> QED
    BY <2>1, <2>2, <2>3
<1>2. ASSUME row # 9 PROVE RowDown(row) \in 1 .. 9
  <2> DEFINE S == {r \in row + 1 .. 9 : r = 9 \/ r \notin Empty}
  <2>1. S \in SUBSET Nat /\ S # {} /\ S \subseteq 1 .. 9
    BY <1>2
  <2>2. RowDown(row) = Min(S)
    BY <1>2, Zenon DEF RowDown
  <2> HIDE DEF S
  <2>3. Min(S) \in S
    BY <2>1, MinIn
  <2> QED
    BY <2>1, <2>2, <2>3
<1>3. row = 1 => RowUp(row) = 9
  BY DEF RowUp
<1>4. row = 9 => RowDown(row) = 1
  BY DEF RowDown
<1>5. RowUp(row) \in 1 .. 9
  BY <1>1, <1>3
<1>6. RowDown(row) \in 1 .. 9
  BY <1>2, <1>4
<1> QED
  BY <1>5, <1>6

FORMS == {1, 4, 7, 9}

\* The forms, and that each setting has its row.
LEMMA FormsAre ==
  ASSUME machine \in Machine
  PROVE  /\ FormOf(1) = NvramForm /\ FormOf(4) = CpuForm /\ FormOf(7) = BootForm
         /\ FormOf(9) = machine.exits
         /\ machine.exits \in Seq({"reset", "rcold", "diag", "continue"})
         /\ Len(machine.exits) \in Nat \ {0}
         /\ Len(NvramForm) = 19 /\ Len(CpuForm) = 5 /\ Len(BootForm) = 7
         /\ \A row \in (1 .. NUM_MENU_ENTRIES) \ FORMS : FormOf(row) = << >>
         /\ \A row \in FORMS : /\ Len(FormOf(row)) \in Nat \ {0}
                               /\ Len(RowsOf(row)) = Len(FormOf(row))
                               /\ DOMAIN RowsOf(row) = 1 .. Len(FormOf(row))
<1>1. /\ FormOf(1) = NvramForm /\ FormOf(4) = CpuForm /\ FormOf(7) = BootForm
      /\ FormOf(9) = machine.exits
      /\ \A row \in (1 .. NUM_MENU_ENTRIES) \ FORMS : FormOf(row) = << >>
  BY DEF FormOf, NUM_MENU_ENTRIES, FORMS
<1>2. /\ machine.exits \in Seq({"reset", "rcold", "diag", "continue"})
      /\ Len(machine.exits) \in Nat \ {0}
  BY DEF Machine
<1>3. Len(NvramForm) = 19 /\ Len(NvramRows) = 19 /\ DOMAIN NvramRows = 1 .. 19
  BY DEF NvramForm, NvramRows
<1>4. Len(CpuForm) = 5 /\ Len(CpuRows) = 5 /\ DOMAIN CpuRows = 1 .. 5
  BY DEF CpuForm, CpuRows
<1>5. Len(BootForm) = 7 /\ Len(BootRows) = 7 /\ DOMAIN BootRows = 1 .. 7
  BY DEF BootForm, BootRows
<1>6. RowsOf(1) = NvramRows /\ RowsOf(4) = CpuRows /\ RowsOf(7) = BootRows
  BY DEF RowsOf
<1>7. Len(RowsOf(9)) = Len(machine.exits) /\ DOMAIN RowsOf(9) = 1 .. Len(machine.exits)
  <2> DEFINE n == Len(machine.exits)
             s == [i \in 1 .. n |-> IF i = 3 THEN 5 ELSE i + 1]
  <2>1. RowsOf(9) = s
    BY DEF RowsOf
  <2>2. n \in Nat
    BY <1>2
  <2> HIDE DEF n
  <2>3. s \in Seq(Int) /\ DOMAIN s = 1 .. n /\ Len(s) = n
    BY <2>2
  <2> QED
    BY <2>1, <2>3 DEF n
<1>8. \A row \in FORMS : /\ Len(FormOf(row)) \in Nat \ {0}
                         /\ Len(RowsOf(row)) = Len(FormOf(row))
                         /\ DOMAIN RowsOf(row) = 1 .. Len(FormOf(row))
  <2> SUFFICES ASSUME NEW row \in FORMS
               PROVE  /\ Len(FormOf(row)) \in Nat \ {0}
                      /\ Len(RowsOf(row)) = Len(FormOf(row))
                      /\ DOMAIN RowsOf(row) = 1 .. Len(FormOf(row))
    OBVIOUS
  <2>1. CASE row = 1
    <3>1. FormOf(row) = NvramForm /\ RowsOf(row) = NvramRows
      BY <1>1, <1>6, <2>1
    <3>2. 19 \in Nat \ {0}
      OBVIOUS
    <3> QED
      BY <1>3, <3>1, <3>2, Zenon
  <2>2. CASE row = 4
    <3>1. FormOf(row) = CpuForm /\ RowsOf(row) = CpuRows
      BY <1>1, <1>6, <2>2
    <3>2. 5 \in Nat \ {0}
      OBVIOUS
    <3> QED
      BY <1>4, <3>1, <3>2, Zenon
  <2>3. CASE row = 7
    <3>1. FormOf(row) = BootForm /\ RowsOf(row) = BootRows
      BY <1>1, <1>6, <2>3
    <3>2. 7 \in Nat \ {0}
      OBVIOUS
    <3> QED
      BY <1>5, <3>1, <3>2, Zenon
  <2>4. CASE row = 9
    BY <1>1, <1>2, <1>7, <2>4
  <2> QED
    BY <2>1, <2>2, <2>3, <2>4 DEF FORMS
<1> QED
  BY <1>1, <1>2, <1>3, <1>4, <1>5, <1>8

-----------------------------------------------------------------------------
(* What a choice in a form leaves.                                         *)
\* The fields of the NVRAM.
LEMMA NvIs ==
  ASSUME NEW nv \in Nvram
  PROVE  /\ DOMAIN nv = NV_FIELDS /\ nv = [f \in NV_FIELDS |-> nv[f]]
         /\ nv.bootpref \in Range(code_os) /\ nv.language \in 0 .. 8 /\ nv.keyboard \in 0 .. 18
         /\ nv.df \in 0 .. 3 /\ nv.tf \in 0 .. 1 /\ nv.sep \in {".", "-", "/"}
         /\ nv.delay \in 0 .. 255 /\ nv.vmode \in VMode /\ nv.arb \in 0 .. 1 /\ nv.id \in 0 .. 7
BY DEF Nvram, NV_FIELDS

\* the values an entry of the NVRAM form can give
NvValues(s) ==
  CASE s = "language" -> 0 .. 8    [] s = "keyboard" -> 0 .. 18      [] s = "tf" -> 0 .. 1
    [] s = "delay" -> 0 .. 255     [] s = "id" -> 0 .. 7             [] s = "dfmt" -> 0 .. 11
    [] s = "res" -> 0 .. 11        [] s = "planes" -> 0 .. 4         [] s = "hz" -> 0 .. 1
    [] s = "st" -> 0 .. 1          [] s = "bootpref" -> 0 .. 5

NV_SETTINGS == {"language", "keyboard", "tf", "dfmt", "res", "planes", "hz", "st", "delay",
                "bootpref", "arb", "id"}

\* The mode a choice of the resolution leaves.
LEMMA ModeChosen ==
  ASSUME NEW vm \in VMode, NEW v \in 0 .. 11
  PROVE  [vm EXCEPT !.c80 = VMODES_RES[v].c80, !.vga = VMODES_RES[v].vga,
                    !.ovr = VMODES_RES[v].ovr, !.vert = VMODES_RES[v].vert] \in VMode
<1> DEFINE c80 == v % 4 < 2
           vga == v < 4
           ovr == v >= 8
           vert == (v % 2 = 1) = (v < 4)
           m == VMODES_RES[v]
<1>1. c80 \in BOOLEAN /\ vga \in BOOLEAN /\ ovr \in BOOLEAN /\ ~(vga /\ ovr)
  OBVIOUS
<1>2. vert \in BOOLEAN
  BY Zenon
<1>3. m = [c80 |-> c80, vga |-> vga, ovr |-> ovr, vert |-> vert]
  BY Zenon DEF VMODES_RES
<1> HIDE DEF c80, vga, ovr, vert, m
<1>4. m.c80 = c80 /\ m.vga = vga /\ m.ovr = ovr /\ m.vert = vert
  BY <1>3
<1>5. [vm EXCEPT !.c80 = m.c80, !.vga = m.vga, !.ovr = m.ovr, !.vert = m.vert] \in VMode
  BY <1>1, <1>2, <1>4 DEF VMode
<1> QED
  BY <1>5 DEF m

\* A field of the NVRAM set to a value of its own.
LEMMA NvPut ==
  ASSUME NEW nv \in Nvram, NEW f \in NV_FIELDS, NEW v,
         f = "language" => v \in 0 .. 8, f = "keyboard" => v \in 0 .. 18, f = "tf" => v \in 0 .. 1,
         f = "df" => v \in 0 .. 3, f = "sep" => v \in {".", "-", "/"},
         f = "delay" => v \in 0 .. 255, f = "vmode" => v \in VMode, f = "arb" => v \in 0 .. 1,
         f = "id" => v \in 0 .. 7, f = "bootpref" => v \in Range(code_os)
  PROVE  [nv EXCEPT ![f] = v] \in Nvram
<1> DEFINE q == [nv EXCEPT ![f] = v]
<1>1. q = [g \in NV_FIELDS |-> q[g]] /\ \A g \in NV_FIELDS : q[g] = IF g = f THEN v ELSE nv[g]
  BY NvIs
<1> HIDE DEF q
<1>2. /\ q.bootpref \in Range(code_os) /\ q.language \in 0 .. 8 /\ q.keyboard \in 0 .. 18
      /\ q.df \in 0 .. 3 /\ q.tf \in 0 .. 1 /\ q.sep \in {".", "-", "/"}
      /\ q.delay \in 0 .. 255 /\ q.vmode \in VMode /\ q.arb \in 0 .. 1 /\ q.id \in 0 .. 7
  BY <1>1, NvIs DEF NV_FIELDS
<1>3. q \in Nvram
  BY <1>1, <1>2 DEF Nvram, NV_FIELDS
<1> QED
  BY <1>3 DEF q

\* The setup's systems are codes the panel has as well, in another order.
LEMMA BootPrefs ==
  \A v \in 0 .. 5 : code_boot_pref[v + 1] \in Range(code_os)
<1>1. \A i \in 1 .. 6 : \E j \in 1 .. 6 : code_boot_pref[i] = code_os[j]
  BY DEF code_boot_pref, code_os
<1>2. DOMAIN code_os = 1 .. 6
  BY DEF code_os
<1>3. \A i \in 1 .. 6 : code_boot_pref[i] \in Range(code_os)
  BY <1>1, <1>2, Zenon DEF Range
<1> QED
  BY <1>3

\* Every choice in the NVRAM form leaves an NVRAM.
LEMMA NvChosenIs ==
  ASSUME NEW nv \in Nvram, NEW s \in NV_SETTINGS, NEW v, s # "arb" => v \in NvValues(s)
  PROVE  NvChosen(nv, s, v) \in Nvram
<1>1. CASE s \in {"language", "keyboard", "tf", "delay", "id"}
  <2>1. NvChosen(nv, s, v) = [nv EXCEPT ![s] = v]
    BY <1>1 DEF NvChosen
  <2>2. s \in NV_FIELDS
    BY <1>1 DEF NV_FIELDS
  <2>3. /\ s = "language" => v \in 0 .. 8
        /\ s = "keyboard" => v \in 0 .. 18
        /\ s = "tf" => v \in 0 .. 1
        /\ s = "delay" => v \in 0 .. 255
        /\ s = "id" => v \in 0 .. 7
    BY <1>1 DEF NvValues
  <2>4. s # "df" /\ s # "sep" /\ s # "vmode" /\ s # "arb" /\ s # "bootpref"
    BY <1>1
  <2> QED
    BY <2>1, <2>2, <2>3, <2>4, NvPut, ZenonT(30)
<1>2. CASE s = "dfmt"
  <2> DEFINE sep == DFMT_SEP[v]
             r == [nv EXCEPT !.df = v % 4]
             q == [r EXCEPT !.sep = sep]
  <2>1. v \in 0 .. 11
    BY <1>2 DEF NvValues
  <2>2. v % 4 \in 0 .. 3 /\ sep \in {".", "-", "/"}
    BY <2>1 DEF DFMT_SEP
  <2> HIDE DEF sep
  <2>3. r \in Nvram
    <3>1. [nv EXCEPT !["df"] = v % 4] \in Nvram
      BY <2>2, NvPut DEF NV_FIELDS
    <3> QED
      BY <3>1
  <2>4. NvChosen(nv, s, v) = [nv EXCEPT !.df = v % 4, !.sep = sep]
    BY <1>2 DEF NvChosen, sep
  <2>5. q = [nv EXCEPT !.df = v % 4, !.sep = sep]
    BY NvIs DEF NV_FIELDS
  <2> HIDE DEF r
  <2>6. q \in Nvram
    <3>1. [r EXCEPT !["sep"] = sep] \in Nvram
      BY <2>2, <2>3, NvPut DEF NV_FIELDS
    <3> QED
      BY <3>1
  <2> QED
    BY <2>4, <2>5, <2>6
<1>3. CASE s \in {"res", "planes", "hz", "st"}
  <2>1. \E vm \in VMode : NvChosen(nv, s, v) = [nv EXCEPT !["vmode"] = vm]
    <3>1. nv.vmode \in VMode
      BY NvIs
    <3>2. CASE s = "res"
      <4> DEFINE m == VMODES_RES[v]
                 vm == [nv.vmode EXCEPT !.c80 = m.c80, !.vga = m.vga, !.ovr = m.ovr, !.vert = m.vert]
      <4>1. v \in 0 .. 11
        BY <3>2 DEF NvValues
      <4>2. vm \in VMode
        BY <3>1, <4>1, ModeChosen
      <4>3. NvChosen(nv, s, v) = [nv EXCEPT !.vmode = [@ EXCEPT !.c80 = m.c80, !.vga = m.vga,
                                                               !.ovr = m.ovr, !.vert = m.vert]]
        BY <3>2, Zenon DEF NvChosen
      <4>4. NvChosen(nv, s, v) = [nv EXCEPT !.vmode = vm]
        BY <4>3, Zenon
      <4> QED
        BY <4>2, <4>4, Zenon
    <3>3. CASE s = "planes"
      <4>1. v \in 0 .. 4
        BY <3>3 DEF NvValues
      <4>2. [nv.vmode EXCEPT !.planes = v] \in VMode
        BY <3>1, <4>1 DEF VMode
      <4>3. NvChosen(nv, s, v) = [nv EXCEPT !.vmode.planes = v]
        BY <3>3, Zenon DEF NvChosen
      <4>4. NvChosen(nv, s, v) = [nv EXCEPT !.vmode = [nv.vmode EXCEPT !.planes = v]]
        BY <4>3
      <4> QED
        BY <4>2, <4>4, Zenon
    <3>4. CASE s = "hz"
      <4> DEFINE on == v = 0
      <4>1. on \in BOOLEAN
        BY Zenon
      <4>3. NvChosen(nv, s, v) = [nv EXCEPT !.vmode.pal = on]
        BY <3>4, Zenon DEF NvChosen
      <4> HIDE DEF on
      <4>2. [nv.vmode EXCEPT !.pal = on] \in VMode
        BY <3>1, <4>1 DEF VMode
      <4>4. NvChosen(nv, s, v) = [nv EXCEPT !.vmode = [nv.vmode EXCEPT !.pal = on]]
        BY <4>3
      <4> QED
        BY <4>2, <4>4, Zenon
    <3>5. CASE s = "st"
      <4> DEFINE on == v = 0
      <4>1. on \in BOOLEAN
        BY Zenon
      <4>3. NvChosen(nv, s, v) = [nv EXCEPT !.vmode.st = on]
        BY <3>5, Zenon DEF NvChosen
      <4> HIDE DEF on
      <4>2. [nv.vmode EXCEPT !.st = on] \in VMode
        BY <3>1, <4>1 DEF VMode
      <4>4. NvChosen(nv, s, v) = [nv EXCEPT !.vmode = [nv.vmode EXCEPT !.st = on]]
        BY <4>3
      <4> QED
        BY <4>2, <4>4, Zenon
    <3> QED
      BY <1>3, <3>2, <3>3, <3>4, <3>5
  <2>2. PICK vm \in VMode : NvChosen(nv, s, v) = [nv EXCEPT !["vmode"] = vm]
    BY <2>1
  <2>3. [nv EXCEPT !["vmode"] = vm] \in Nvram
    BY NvPut DEF NV_FIELDS
  <2> QED
    BY <2>2, <2>3
<1>4. CASE s = "bootpref"
  <2>1. code_boot_pref[v + 1] \in Range(code_os)
    BY <1>4, BootPrefs DEF NvValues
  <2>2. NvChosen(nv, s, v) = [nv EXCEPT !.bootpref = code_boot_pref[v + 1]]
    BY <1>4, Zenon DEF NvChosen
  <2>3. [nv EXCEPT !["bootpref"] = code_boot_pref[v + 1]] \in Nvram
    BY <2>1, NvPut DEF NV_FIELDS
  <2> QED
    BY <2>2, <2>3
<1>5. CASE s = "arb"
  <2>1. 1 - nv.arb \in 0 .. 1
    BY NvIs
  <2>2. NvChosen(nv, s, v) = [nv EXCEPT !.arb = 1 - nv.arb]
    BY <1>5, Zenon DEF NvChosen
  <2>3. [nv EXCEPT !["arb"] = 1 - nv.arb] \in Nvram
    BY <2>1, NvPut DEF NV_FIELDS
  <2> QED
    BY <2>2, <2>3
<1> QED
  BY <1>1, <1>2, <1>3, <1>4, <1>5 DEF NV_SETTINGS

(* The settings of the forms and their kinds.                              *)
\* The entries of the last form.
LEMMA ExitNames ==
  ASSUME machine \in Machine
  PROVE  Range(machine.exits) \subseteq {"reset", "rcold", "diag", "continue"}
<1>1. \A i \in DOMAIN machine.exits : machine.exits[i] \in {"reset", "rcold", "diag", "continue"}
  BY DEF Machine
<1> QED
  BY <1>1 DEF Range

\* What a setting is: a number, a switch, a list, a function, the frequency.
LEMMA KindIs ==
  ASSUME machine \in Machine
  PROVE  /\ \A s \in {"date1", "date2", "year", "hour", "minute", "delay", "id"} : Kind(s) = "INPUT"
         /\ \A s \in {"arb", "newboot", "log", "tos", "pciide"} : Kind(s) = "BOOL"
         /\ \A s \in {"reload", "save"} \cup Range(machine.exits) : Kind(s) = "FUNC"
         /\ Kind("freq") = "UPDOWN"
         /\ \A s \in {"language", "keyboard", "tf", "dfmt", "res", "planes", "hz", "st", "bootpref",
                      "fpu", "blit", "order"} : Kind(s) = "LIST"
BY ExitNames DEF Kind

\* The settings of each form.
LEMMA SettingIs ==
  ASSUME machine \in Machine, NEW x, x.row \in 1 .. NUM_MENU_ENTRIES,
         x.sel \in 1 .. Len(FormOf(x.row))
  PROVE  /\ x.row \in FORMS
         /\ x.row = 1 => Setting(x) \in NV_SETTINGS
                           \cup {"date1", "date2", "year", "hour", "minute", "reload", "save"}
         /\ x.row = 4 => Setting(x) \in {"fpu", "blit", "freq", "reload", "save"}
         /\ x.row = 7 => Setting(x) \in {"newboot", "order", "log", "tos", "pciide", "reload", "save"}
         /\ x.row = 9 => Setting(x) \in Range(machine.exits)
<1>1. x.row \in FORMS
  <2>1. Len(<< >>) = 0
    OBVIOUS
  <2>2. FormOf(x.row) # << >>
    BY <2>1
  <2> QED
    BY <2>2, FormsAre
<1>2. CASE x.row = 1
  <2>1. Setting(x) = NvramForm[x.sel] /\ x.sel \in 1 .. 19
    BY <1>2, FormsAre DEF Setting
  <2>2. \A i \in 1 .. 19 : NvramForm[i] \in NV_SETTINGS
                             \cup {"date1", "date2", "year", "hour", "minute", "reload", "save"}
    BY SMTT(30) DEF NvramForm, NV_SETTINGS
  <2>3. Setting(x) \in NV_SETTINGS
          \cup {"date1", "date2", "year", "hour", "minute", "reload", "save"}
    BY <2>1, <2>2, Zenon
  <2> QED
    BY <1>1, <1>2, <2>3
<1>3. CASE x.row = 4
  <2>1. Setting(x) = CpuForm[x.sel] /\ x.sel \in 1 .. 5
    BY <1>3, FormsAre DEF Setting
  <2>2. \A i \in 1 .. 5 : CpuForm[i] \in {"fpu", "blit", "freq", "reload", "save"}
    BY DEF CpuForm
  <2> QED
    BY <1>1, <1>3, <2>1, <2>2
<1>4. CASE x.row = 7
  <2>1. Setting(x) = BootForm[x.sel] /\ x.sel \in 1 .. 7
    BY <1>4, FormsAre DEF Setting
  <2>2. \A i \in 1 .. 7 :
          BootForm[i] \in {"newboot", "order", "log", "tos", "pciide", "reload", "save"}
    BY DEF BootForm
  <2> QED
    BY <1>1, <1>4, <2>1, <2>2
<1>5. CASE x.row = 9
  <2>1. Setting(x) = machine.exits[x.sel] /\ x.sel \in DOMAIN machine.exits
    BY <1>5, FormsAre DEF Setting
  <2>2. Setting(x) \in Range(machine.exits)
    BY <2>1, Zenon DEF Range
  <2> QED
    BY <1>1, <1>5, <2>2
<1> QED
  BY <1>1, <1>2, <1>3, <1>4, <1>5 DEF FORMS

(* What confirm leaves: the copies stay of their types, and the place in   *)
(* the form is not touched.                                                *)
LEMMA CpuChosenIs ==
  ASSUME NEW c, IsCpu(c), NEW s, NEW v \in 0 .. 1
  PROVE  IsCpu(CpuChosen(c, s, v))
<1>1. CASE s = "fpu"
  <2>1. CpuChosen(c, s, v) = [c EXCEPT !.fpu = 1 - v] /\ 1 - v \in 0 .. 1
    BY <1>1 DEF CpuChosen
  <2> QED
    BY <2>1 DEF IsCpu
<1>2. CASE s # "fpu"
  <2>1. CpuChosen(c, s, v) = [c EXCEPT !.blit = v]
    BY <1>2 DEF CpuChosen
  <2> QED
    BY <2>1 DEF IsCpu
<1> QED
  BY <1>1, <1>2

\* A choice in the BOOT form leaves its copy of its type.
LEMMA BootChosenIs ==
  ASSUME NEW b, IsBoot(b), NEW s \in {"newboot", "order", "log", "tos", "pciide"}, NEW v,
         s = "order" => v \in 0 .. 3
  PROVE  IsBoot(BootChosen(b, s, v))
<1>1. CASE s = "newboot"
  <2> DEFINE d == IF b.devs >= 4 THEN b.devs - 4 ELSE b.devs + 4
  <2>1. d \in 0 .. 7
    BY DEF IsBoot
  <2>2. BootChosen(b, s, v) = [b EXCEPT !.devs = d]
    BY <1>1 DEF BootChosen
  <2> HIDE DEF d
  <2> QED
    BY <2>1, <2>2 DEF IsBoot
<1>2. CASE s = "order"
  <2> DEFINE d == 4 * (b.devs \div 4) + v
  <2>1. d \in 0 .. 7
    BY <1>2 DEF IsBoot
  <2>2. BootChosen(b, s, v) = [b EXCEPT !.devs = d]
    BY <1>2 DEF BootChosen
  <2> HIDE DEF d
  <2> QED
    BY <2>1, <2>2 DEF IsBoot
<1>3. CASE s \in {"log", "tos", "pciide"}
  <2>1. BootChosen(b, s, v) = [b EXCEPT ![s] = 1 - b[s]]
    BY <1>3 DEF BootChosen
  <2>2. 1 - b[s] \in 0 .. 1
    BY <1>3 DEF IsBoot
  <2> QED
    BY <1>3, <2>1, <2>2 DEF IsBoot
<1> QED
  BY <1>1, <1>2, <1>3

PLACE == {"open", "st", "row", "sel", "list", "fresh"}

\* A value confirmed in a form leaves what is edited of its type and the
\* place in the form as it was.
LEMMA ConfirmedIs ==
  ASSUME machine \in Machine, NEW x, IsSetup(x), x.st # "MENU", NEW v, Kind(Setting(x)) # "FUNC",
         Kind(Setting(x)) = "LIST" => v \in 0 .. ListLen(Setting(x)) - 1
  PROVE  /\ Edited(Confirmed(x, Setting(x), v))
         /\ \A f \in PLACE : Confirmed(x, Setting(x), v)[f] = x[f]
<1> DEFINE s == Setting(x)
           c == Confirmed(x, s, v)
<1> SUFFICES Edited(c) /\ \A f \in PLACE : c[f] = x[f]
  OBVIOUS
<1>1. /\ DOMAIN x = SETUP_FIELDS /\ x.nv \in Nvram /\ IsCpu(x.cpu) /\ IsBoot(x.boot)
      /\ x.row \in 1 .. NUM_MENU_ENTRIES /\ x.sel \in 1 .. Len(FormOf(x.row)) /\ x.open = TRUE
  BY DEF IsSetup, Edited, InForms
<1>2. s \notin {"reload", "save"} \cup Range(machine.exits)
  BY KindIs
<1>3. DOMAIN DateShown(x.nv, rtc) = {"date1", "date2", "year", "hour", "minute"}
  BY DEF DateShown
<1>4. CASE x.row = 1
  <2>1. s \in NV_SETTINGS \cup {"date1", "date2", "year", "hour", "minute"}
    BY <1>1, <1>2, <1>4, SettingIs
  <2>2. CASE c = x
    BY <2>2 DEF IsSetup
  <2>3. CASE s \in NV_SETTINGS /\ (Kind(s) = "INPUT" => InRange(s, v)) /\ c # x
    <3>1. c = [x EXCEPT !.nv = NvChosen(x.nv, s, v)]
      <4> HIDE DEF s
      <4> QED
        BY <1>3, <1>4, <2>3 DEF Confirmed, NV_SETTINGS, c
    <3>2. s # "arb" => v \in NvValues(s)
      <4>1. CASE s \in {"delay", "id"}
        <5>1. InRange(s, v)
          BY <2>3, <4>1, KindIs
        <5> HIDE DEF s
        <5> QED
          BY <4>1, <5>1 DEF InRange, NvValues
      <4>2. CASE s \in NV_SETTINGS \ {"delay", "id", "arb"}
        <5>1. Kind(s) = "LIST"
          <6> HIDE DEF s
          <6> QED
            BY <4>2, KindIs DEF NV_SETTINGS
        <5>2. v \in 0 .. ListLen(s) - 1
          BY <5>1
        <5> HIDE DEF s
        <5> QED
          BY <4>2, <5>2 DEF ListLen, NvValues, NV_SETTINGS
      <4> QED
        BY <2>3, <4>1, <4>2
    <3>3. NvChosen(x.nv, s, v) \in Nvram
      <4> HIDE DEF s
      <4> QED
        BY <1>1, <2>3, <3>2, NvChosenIs
    <3> HIDE DEF s, c
    <3> QED
      BY <1>1, <3>1, <3>3 DEF Edited, SETUP_FIELDS, PLACE
  <2>4. CASE s \in {"date1", "date2", "year", "hour", "minute"}
    <3>1. c = x
      <4> HIDE DEF s
      <4> QED
        BY <1>3, <1>4, <2>4 DEF Confirmed, c
    <3> QED
      BY <3>1 DEF IsSetup
  <2>5. CASE s \in NV_SETTINGS /\ Kind(s) = "INPUT" /\ ~InRange(s, v)
    <3>1. c = x
      <4> HIDE DEF s
      <4> QED
        BY <1>3, <1>4, <2>5 DEF Confirmed, NV_SETTINGS, c
    <3> QED
      BY <3>1 DEF IsSetup
  <2> QED
    BY <2>1, <2>2, <2>3, <2>4, <2>5
<1>5. CASE x.row = 4
  <2>1. s \in {"fpu", "blit", "freq"}
    BY <1>1, <1>2, <1>5, SettingIs
  <2>2. CASE s = "freq"
    <3>1. c = [x EXCEPT !.cpu.text = x.cpu.freq]
      BY <1>5, <2>2 DEF Confirmed
    <3> HIDE DEF c
    <3>2. DOMAIN c = SETUP_FIELDS /\ c.cpu = [x.cpu EXCEPT !.text = x.cpu.freq]
          /\ \A f \in SETUP_FIELDS \ {"cpu"} : c[f] = x[f]
      BY <1>1, <3>1 DEF SETUP_FIELDS
    <3>3. IsCpu(c.cpu)
      BY <1>1, <3>2 DEF IsCpu
    <3> QED
      BY <1>1, <3>2, <3>3 DEF Edited, SETUP_FIELDS, PLACE
  <2>3. CASE s \in {"fpu", "blit"}
    <3>1. c = [x EXCEPT !.cpu = CpuChosen(x.cpu, s, v)]
      <4> HIDE DEF s
      <4> QED
        BY <1>5, <2>3 DEF Confirmed, c
    <3>2. v \in 0 .. 1
      <4>1. Kind(s) = "LIST"
        BY <2>3, KindIs
      <4>2. ListLen(s) = 2
        BY <2>3 DEF ListLen
      <4> QED
        BY <4>1, <4>2
    <3>3. IsCpu(CpuChosen(x.cpu, s, v))
      BY <1>1, <3>2, CpuChosenIs
    <3> HIDE DEF s, c
    <3> QED
      BY <1>1, <3>1, <3>3 DEF Edited, SETUP_FIELDS, PLACE
  <2> QED
    BY <2>1, <2>2, <2>3
<1>6. CASE x.row = 7
  <2>1. s \in {"newboot", "order", "log", "tos", "pciide"}
    BY <1>1, <1>2, <1>6, SettingIs
  <2>2. c = [x EXCEPT !.boot = BootChosen(x.boot, s, v)]
    <3> HIDE DEF s
    <3> QED
      BY <1>6 DEF Confirmed, c
  <2>3. s = "order" => v \in 0 .. 3
    <3>1. Kind("order") = "LIST" /\ ListLen("order") = 4
      BY KindIs DEF ListLen
    <3> QED
      BY <3>1
  <2>4. IsBoot(BootChosen(x.boot, s, v))
    <3> HIDE DEF s
    <3> QED
      BY <1>1, <2>1, <2>3, BootChosenIs
  <2> HIDE DEF s, c
  <2> QED
    BY <1>1, <2>2, <2>4 DEF Edited, SETUP_FIELDS, PLACE
<1>7. x.row # 9
  BY <1>1, <1>2, SettingIs
<1> QED
  BY <1>1, <1>4, <1>5, <1>6, <1>7, SettingIs DEF FORMS

-----------------------------------------------------------------------------
(* The steps of the setup.                                                 *)
\* A form that is read again is at its first setting, with what it reads of
\* its type.
LEMMA RefreshedIs ==
  ASSUME machine \in Machine, nvram \in Nvram, IsFlash(flash), NEW x, Edited(x), x.list = 0,
         x.st = "MENU" \/ (x.st = "FORM_SELECT" /\ x.row \in FORMS)
  PROVE  IsSetup(Refreshed(x))
<1> DEFINE at == [x EXCEPT !.sel = 1, !.fresh = TRUE]
           y == Refreshed(x)
<1>1. /\ DOMAIN at = SETUP_FIELDS /\ at.sel = 1 /\ at.open = TRUE /\ at.st = x.st
      /\ at.row = x.row /\ at.list = 0 /\ at.nv = x.nv /\ at.cpu = x.cpu /\ at.boot = x.boot
  BY DEF Edited, SETUP_FIELDS
<1> HIDE DEF at
<1>2. NvmRead \in Nvram
  BY NvmReadIs
<1>3. \A f \in SWITCHES : flash[f] \in Popups[f]
  BY FlashFieldIs DEF IsFlash
<1>4. flash.cpufpu \in 0 .. 1 /\ flash.blitter \in 0 .. 1
  BY <1>3 DEF SWITCHES, Popups
<1>5. /\ flash.bootorder \in 0 .. 7 /\ flash.bootlog \in 0 .. 1 /\ flash.tosram \in 0 .. 1
      /\ flash.ctpci \in 0 .. 1
  <2>1. flash.bootorder \in 0 .. 7 /\ flash.bootlog \in 0 .. 1 /\ flash.tosram \in 0 .. 1
    BY <1>3 DEF SWITCHES, Popups
  <2>2. "ctpci" \in FLASH \ {"clock", "sv", "tlv"}
    BY FlashFieldIs
  <2>3. flash.ctpci \in 0 .. 1
    BY <2>2, FlashFieldIs DEF IsFlash
  <2> QED
    BY <2>1, <2>3
<1>6. \A c : IsCpu(readCT60Settings(c))
  BY <1>4 DEF readCT60Settings, IsCpu
<1>7. \A c : IsCpu(c) => IsCpu(initFormCpu(c))
  BY <1>6 DEF initFormCpu
<1>8. \A b : IsBoot(reloadFromBoot(b))
  BY <1>5 DEF reloadFromBoot, IsBoot
<1>9. /\ DOMAIN y = SETUP_FIELDS /\ y.sel = 1 /\ y.open = TRUE /\ y.st = x.st
      /\ y.row = x.row /\ y.list = 0 /\ y.nv \in Nvram /\ IsCpu(y.cpu) /\ IsBoot(y.boot)
  <2>0. x.nv \in Nvram /\ IsCpu(x.cpu) /\ IsBoot(x.boot)
    BY DEF Edited
  <2>1. CASE x.row = 1
    <3>1. y = [at EXCEPT !.nv = NvmRead]
      BY <2>1 DEF Refreshed, at
    <3> HIDE DEF y
    <3> QED
      BY <1>1, <1>2, <2>0, <3>1 DEF SETUP_FIELDS
  <2>2. CASE x.row = 4
    <3>1. y = [at EXCEPT !.cpu = initFormCpu(at.cpu)]
      BY <2>2 DEF Refreshed, at
    <3> HIDE DEF y
    <3> QED
      BY <1>1, <1>7, <2>0, <3>1 DEF SETUP_FIELDS
  <2>3. CASE x.row = 7
    <3>1. y = [at EXCEPT !.boot = reloadFromBoot(at.boot)]
      BY <2>3 DEF Refreshed, at
    <3> HIDE DEF y
    <3> QED
      BY <1>1, <1>8, <2>0, <3>1 DEF SETUP_FIELDS
  <2>4. CASE x.row \notin {1, 4, 7}
    <3>1. y = at
      BY <2>4 DEF Refreshed, at
    <3> QED
      BY <1>1, <2>0, <3>1
  <2> QED
    BY <2>1, <2>2, <2>3, <2>4
<1> HIDE DEF y
<1>10. Edited(y)
  BY <1>9 DEF Edited
<1>11. InForms(y)
  <2>1. x.st # "MENU" => 1 \in 1 .. Len(FormOf(x.row))
    BY FormsAre
  <2> QED
    BY <1>9, <2>1 DEF InForms
<1>12. IsSetup(y)
  BY <1>9, <1>10, <1>11 DEF IsSetup
<1> QED
  BY <1>12 DEF y

\* What is edited depends on some of the setup's fields only.
LEMMA EditedSame ==
  ASSUME NEW x, NEW y, Edited(x), DOMAIN y = SETUP_FIELDS, y.open = x.open,
         y.row \in 1 .. NUM_MENU_ENTRIES, y.nv = x.nv, IsCpu(y.cpu), y.boot = x.boot
  PROVE  Edited(y)
BY DEF Edited

\* The setting is that of row and selection.
LEMMA SettingSame ==
  ASSUME NEW x, NEW y, y.row = x.row, y.sel = x.sel
  PROVE  Setting(y) = Setting(x)
BY Zenon DEF Setting

SetupDone ==
  nvram' \in Nvram /\ IsFlash(flash') /\ faults' \in Nat /\ (su' = Off \/ IsSetup(su'))

\* A move within the form.
LEMMA AtKept ==
  ASSUME Stored, NEW x, IsSetup(x), At(x)
  PROVE  SetupDone
BY DEF At, Stored, SetupDone

\* A move to a form, which is read again.
LEMMA GoToKept ==
  ASSUME Stored, machine \in Machine, NEW x, Edited(x), x.list = 0,
         x.st = "MENU" \/ (x.st = "FORM_SELECT" /\ x.row \in FORMS), GoTo(x)
  PROVE  SetupDone
<1>1. su' = Refreshed(x) /\ nvram' \in {nvram, NvmRead} /\ UNCHANGED <<flash, faults>>
  BY DEF GoTo
<1>2. IsSetup(Refreshed(x)) /\ NvmRead \in Nvram
  BY RefreshedIs, NvmReadIs DEF Stored
<1> QED
  BY <1>1, <1>2 DEF Stored, SetupDone

\* The setup starts in the menu.
LEMMA Started ==
  ASSUME Stored, machine \in Machine, StartSetup
  PROVE  SetupDone
<1> DEFINE x == [open |-> TRUE, st |-> "MENU", row |-> 1, sel |-> 1, list |-> 0, nv |-> nvram,
                 cpu |-> NoCpu, boot |-> NoBoot, fresh |-> TRUE]
<1>1. GoTo(x)
  BY DEF StartSetup
<1>2. IsCpu(NoCpu) /\ IsBoot(NoBoot)
  BY DEF NoCpu, NoBoot, IsCpu, IsBoot
<1>3. DOMAIN x = SETUP_FIELDS /\ x.open = TRUE /\ x.st = "MENU" /\ x.row = 1 /\ x.list = 0
      /\ x.nv = nvram /\ x.cpu = NoCpu /\ x.boot = NoBoot
  BY DEF SETUP_FIELDS
<1> HIDE DEF x
<1>4. Edited(x)
  BY <1>2, <1>3 DEF Edited, Stored, NUM_MENU_ENTRIES
<1> QED
  BY <1>1, <1>3, <1>4, GoToKept

\* The keys in the menu.
LEMMA MenuKept ==
  ASSUME Stored, machine \in Machine, IsSetup(su), MenuKey
  PROVE  SetupDone
<1>1. /\ Edited(su) /\ su.st = "MENU" /\ su.list = 0 /\ su.sel = 1
      /\ DOMAIN su = SETUP_FIELDS /\ su.row \in 1 .. NUM_MENU_ENTRIES
  BY DEF IsSetup, Edited, InForms, MenuKey
<1>2. ASSUME NEW row \in 1 .. NUM_MENU_ENTRIES, GoTo([su EXCEPT !.row = row])
      PROVE  SetupDone
  <2> DEFINE x == [su EXCEPT !.row = row]
  <2>1. /\ DOMAIN x = SETUP_FIELDS /\ x.row = row /\ x.st = "MENU" /\ x.list = 0
        /\ x.open = su.open /\ x.nv = su.nv /\ x.cpu = su.cpu /\ x.boot = su.boot
    BY <1>1 DEF SETUP_FIELDS
  <2>2. GoTo(x)
    BY <1>2
  <2> HIDE DEF x
  <2>3. Edited(x)
    BY <1>1, <2>1, EditedSame DEF Edited
  <2> QED
    BY <2>1, <2>2, <2>3, GoToKept
<1>3. CASE GoTo([su EXCEPT !.row = RowUp(su.row)]) \/ GoTo([su EXCEPT !.row = RowDown(su.row)])
  BY <1>1, <1>2, <1>3, MenuMoves
<1>4. CASE GoTo([su EXCEPT !.row = NUM_MENU_ENTRIES, !.st = "FORM_SELECT"])
  <2> DEFINE x == [su EXCEPT !.row = NUM_MENU_ENTRIES, !.st = "FORM_SELECT"]
  <2>1. /\ DOMAIN x = SETUP_FIELDS /\ x.row = 9 /\ x.st = "FORM_SELECT" /\ x.list = 0
        /\ x.open = su.open /\ x.nv = su.nv /\ x.cpu = su.cpu /\ x.boot = su.boot
    BY <1>1 DEF SETUP_FIELDS, NUM_MENU_ENTRIES
  <2>2. GoTo(x)
    BY <1>4
  <2> HIDE DEF x
  <2>3. Edited(x)
    BY <1>1, <2>1, EditedSame DEF Edited, NUM_MENU_ENTRIES
  <2>4. x.row \in FORMS
    BY <2>1 DEF FORMS
  <2> QED
    BY <2>1, <2>2, <2>3, <2>4, GoToKept
<1>5. CASE FormOf(su.row) # << >> /\ At([su EXCEPT !.st = "FORM_SELECT"])
  <2> DEFINE x == [su EXCEPT !.st = "FORM_SELECT"]
  <2>1. /\ DOMAIN x = SETUP_FIELDS /\ x.row = su.row /\ x.st = "FORM_SELECT" /\ x.list = 0
        /\ x.open = su.open /\ x.nv = su.nv /\ x.cpu = su.cpu /\ x.boot = su.boot /\ x.sel = 1
    BY <1>1 DEF SETUP_FIELDS
  <2>2. At(x)
    BY <1>5
  <2> HIDE DEF x
  <2>3. Edited(x)
    BY <1>1, <2>1, EditedSame DEF Edited
  <2>4. 1 \in 1 .. Len(FormOf(su.row))
    BY <1>1, <1>5, FormsAre
  <2>5. IsSetup(x)
    BY <2>1, <2>3, <2>4 DEF IsSetup, InForms
  <2> QED
    BY <2>2, <2>5, AtKept
<1> QED
  BY <1>3, <1>4, <1>5 DEF MenuKey

\* A selection of the form.
LEMMA SelectionMoves ==
  ASSUME Stored, machine \in Machine, IsSetup(su), su.st = "FORM_SELECT",
         NEW sel \in 1 .. Len(FormOf(su.row)), At([su EXCEPT !.sel = sel])
  PROVE  SetupDone
<1> DEFINE x == [su EXCEPT !.sel = sel]
<1>1. /\ DOMAIN x = SETUP_FIELDS /\ x.row = su.row /\ x.st = "FORM_SELECT" /\ x.list = 0
      /\ x.open = su.open /\ x.nv = su.nv /\ x.cpu = su.cpu /\ x.boot = su.boot /\ x.sel = sel
  BY DEF SETUP_FIELDS, IsSetup, Edited, InForms
<1>2. At(x)
  OBVIOUS
<1> HIDE DEF x
<1>3. Edited(x)
  BY <1>1, EditedSame DEF IsSetup, Edited
<1>4. IsSetup(x)
  BY <1>1, <1>3 DEF IsSetup, InForms
<1> QED
  BY <1>2, <1>4, AtKept

\* The keys in a form.
LEMMA FormKept ==
  ASSUME Stored, machine \in Machine, IsSetup(su), FormKey
  PROVE  SetupDone
<1> DEFINE rows == RowsOf(su.row)
           n == Len(FormOf(su.row))
<1>1. /\ Edited(su) /\ su.st = "FORM_SELECT" /\ su.list = 0 /\ su.sel \in 1 .. n
      /\ DOMAIN su = SETUP_FIELDS /\ su.row \in 1 .. NUM_MENU_ENTRIES
  BY DEF IsSetup, Edited, InForms, FormKey, InForm
<1>2. n \in Nat /\ DOMAIN rows = 1 .. n /\ Len(rows) = n
  <2>1. su.row \in FORMS
    BY <1>1, SettingIs
  <2> QED
    BY <2>1, FormsAre
<1>3. CASE GoTo([su EXCEPT !.st = "MENU"])
  <2> DEFINE x == [su EXCEPT !.st = "MENU"]
  <2>1. /\ DOMAIN x = SETUP_FIELDS /\ x.row = su.row /\ x.st = "MENU" /\ x.list = 0
        /\ x.open = su.open /\ x.nv = su.nv /\ x.cpu = su.cpu /\ x.boot = su.boot
    BY <1>1 DEF SETUP_FIELDS
  <2>2. GoTo(x)
    BY <1>3
  <2> HIDE DEF x
  <2>3. Edited(x)
    BY <1>1, <2>1, EditedSame DEF Edited
  <2> QED
    BY <2>1, <2>2, <2>3, GoToKept
<1> HIDE DEF rows, n
<1>4. /\ vt_setting_next(su.sel, rows) \in 1 .. n /\ vt_setting_prevRow(su.sel, rows) \in 1 .. n
      /\ vt_setting_nextRow(su.sel, rows) \in 1 .. n
  BY <1>1, <1>2, Moves
<1>5. ASSUME NEW sel \in 1 .. n, At([su EXCEPT !.sel = sel])
      PROVE  SetupDone
  BY <1>1, <1>5, SelectionMoves DEF n
<1>6. \/ GoTo([su EXCEPT !.st = "MENU"])
      \/ su.sel > 1 /\ At([su EXCEPT !.sel = su.sel - 1])
      \/ At([su EXCEPT !.sel = vt_setting_next(su.sel, rows)])
      \/ At([su EXCEPT !.sel = vt_setting_prevRow(su.sel, rows)])
      \/ At([su EXCEPT !.sel = vt_setting_nextRow(su.sel, rows)])
  BY Zenon DEF FormKey, rows
<1>7. su.sel > 1 => su.sel - 1 \in 1 .. n
  BY <1>1, <1>2
<1> QED
  BY <1>3, <1>4, <1>5, <1>6, <1>7

-----------------------------------------------------------------------------
(* Values, saves and reads of a form.                                      *)
\* A value confirmed.
LEMMA ValueKept ==
  ASSUME Stored, machine \in Machine, IsSetup(su), su.st # "MENU", NEW v,
         Kind(Setting(su)) # "FUNC",
         Kind(Setting(su)) = "LIST" => v \in 0 .. ListLen(Setting(su)) - 1,
         NewValue(Setting(su), v)
  PROVE  SetupDone
<1> DEFINE c == Confirmed(su, Setting(su), v)
           x == [c EXCEPT !.st = "FORM_SELECT", !.list = 0]
<1>1. Edited(c) /\ \A f \in PLACE : c[f] = su[f]
  BY ConfirmedIs
<1>2. su' = x /\ UNCHANGED <<nvram, flash, faults>>
  BY DEF NewValue
<1> HIDE DEF c
<1>3. DOMAIN c = SETUP_FIELDS
  BY <1>1 DEF Edited
<1>4. /\ DOMAIN x = SETUP_FIELDS /\ x.st = "FORM_SELECT" /\ x.list = 0 /\ x.row = su.row
      /\ x.sel = su.sel /\ x.open = c.open /\ x.nv = c.nv /\ x.cpu = c.cpu /\ x.boot = c.boot
  BY <1>1, <1>3 DEF SETUP_FIELDS, PLACE
<1> HIDE DEF x
<1>5. Edited(x)
  BY <1>1, <1>4, EditedSame DEF Edited, IsSetup
<1>6. IsSetup(x)
  BY <1>4, <1>5 DEF IsSetup, InForms
<1> QED
  BY <1>2, <1>6 DEF Stored, SetupDone

\* No list is empty.
LEMMA ListLenIs ==
  \A s : ListLen(s) \in Nat \ {0}
BY DEF ListLen

\* The frequency is the one setting changed up and down.
LEMMA UpDownIs ==
  ASSUME machine \in Machine, NEW x, IsSetup(x), x.st # "MENU", Kind(Setting(x)) = "UPDOWN"
  PROVE  Setting(x) = "freq"
<1>1. /\ x.row \in 1 .. NUM_MENU_ENTRIES /\ x.sel \in 1 .. Len(FormOf(x.row))
  BY DEF IsSetup, Edited, InForms
<1>2. Setting(x) \in NV_SETTINGS \cup {"date1", "date2", "year", "hour", "minute", "reload", "save",
        "fpu", "blit", "freq", "newboot", "order", "log", "tos", "pciide"} \cup Range(machine.exits)
  BY <1>1, SettingIs DEF FORMS
<1> QED
  BY <1>2, KindIs DEF NV_SETTINGS

\* a copy of the CPU settings whose frequency is another is one
LEMMA CpuPut ==
  ASSUME NEW x, Edited(x), NEW f, NEW y, DOMAIN y = SETUP_FIELDS, y.open = x.open, y.row = x.row,
         y.nv = x.nv, y.cpu = [x.cpu EXCEPT !.freq = f], y.boot = x.boot
  PROVE  Edited(y)
<1>1. IsCpu(y.cpu)
  BY DEF Edited, IsCpu
<1> QED
  BY <1>1, EditedSame DEF Edited

\* The keys in a list: the entry stays one of the list.
LEMMA ListKept ==
  ASSUME Stored, machine \in Machine, IsSetup(su), ListKey
  PROVE  SetupDone
<1>1. /\ Edited(su) /\ su.st = "FORM_LIST" /\ DOMAIN su = SETUP_FIELDS
      /\ su.row \in 1 .. NUM_MENU_ENTRIES /\ su.sel \in 1 .. Len(FormOf(su.row))
      /\ Kind(Setting(su)) = "LIST" /\ su.list \in 0 .. ListLen(Setting(su)) - 1
      /\ IsCpu(su.cpu)
  BY DEF IsSetup, Edited, InForms, ListKey, InForm
<1>2. CASE At([su EXCEPT !.st = "FORM_SELECT", !.list = 0])
  <2> DEFINE x == [su EXCEPT !.st = "FORM_SELECT", !.list = 0]
  <2>1. /\ DOMAIN x = SETUP_FIELDS /\ x.row = su.row /\ x.st = "FORM_SELECT" /\ x.list = 0
        /\ x.open = su.open /\ x.nv = su.nv /\ x.cpu = su.cpu /\ x.boot = su.boot /\ x.sel = su.sel
    BY <1>1 DEF SETUP_FIELDS
  <2>2. At(x)
    BY <1>2
  <2> HIDE DEF x
  <2>3. Edited(x)
    BY <1>1, <2>1, EditedSame
  <2>4. IsSetup(x)
    BY <1>1, <2>1, <2>3 DEF IsSetup, InForms
  <2> QED
    BY <2>2, <2>4, AtKept
<1>3. ASSUME NEW list \in 0 .. ListLen(Setting(su)) - 1, At([su EXCEPT !.list = list])
      PROVE  SetupDone
  <2> DEFINE x == [su EXCEPT !.list = list]
  <2>1. /\ DOMAIN x = SETUP_FIELDS /\ x.row = su.row /\ x.st = "FORM_LIST" /\ x.list = list
        /\ x.open = su.open /\ x.nv = su.nv /\ x.cpu = su.cpu /\ x.boot = su.boot /\ x.sel = su.sel
    BY <1>1 DEF SETUP_FIELDS
  <2>2. At(x)
    BY <1>3
  <2> HIDE DEF x
  <2>3. Edited(x)
    BY <1>1, <2>1, EditedSame
  <2>4. Setting(x) = Setting(su)
    BY <2>1, SettingSame
  <2>5. IsSetup(x)
    BY <1>1, <2>1, <2>3, <2>4 DEF IsSetup, InForms
  <2> QED
    BY <2>2, <2>5, AtKept
<1>4. ListLen(Setting(su)) \in Nat
  BY ListLenIs
<1>5. CASE su.list > 0 /\ At([su EXCEPT !.list = su.list - 1])
  <2>1. su.list - 1 \in 0 .. ListLen(Setting(su)) - 1
    BY <1>1, <1>4, <1>5
  <2> QED
    BY <1>3, <1>5, <2>1
<1>6. CASE su.list + 1 < ListLen(Setting(su)) /\ At([su EXCEPT !.list = su.list + 1])
  <2>1. su.list + 1 \in 0 .. ListLen(Setting(su)) - 1
    BY <1>1, <1>4, <1>6
  <2> QED
    BY <1>3, <1>6, <2>1
<1>7. CASE NewValue(Setting(su), su.list)
  BY <1>1, <1>7, ValueKept
<1> QED
  BY <1>2, <1>5, <1>6, <1>7, Zenon DEF ListKey

\* The keys at the frequency.
LEMMA StepKept ==
  ASSUME Stored, machine \in Machine, IsSetup(su), NEW d, StepKey(d)
  PROVE  SetupDone
<1> DEFINE f == Limited(su.cpu.freq + Steps[d])
           x == [su EXCEPT !.cpu.freq = f]
<1>1. su.st = "FORM_UPDOWN" /\ At(x) /\ Edited(su) /\ DOMAIN su = SETUP_FIELDS
  BY DEF StepKey, InForm, IsSetup, Edited
<1> HIDE DEF f
<1>2. /\ DOMAIN x = SETUP_FIELDS /\ x.row = su.row /\ x.st = su.st /\ x.list = su.list
      /\ x.open = su.open /\ x.nv = su.nv /\ x.boot = su.boot /\ x.sel = su.sel
      /\ x.cpu = [su.cpu EXCEPT !.freq = f]
  BY <1>1 DEF SETUP_FIELDS
<1> HIDE DEF x
<1>3. Edited(x)
  BY <1>1, <1>2, CpuPut
<1>4. Setting(x) = Setting(su)
  BY <1>2, SettingSame
<1>5. IsSetup(x)
  BY <1>1, <1>2, <1>3, <1>4 DEF IsSetup, InForms
<1> QED
  BY <1>1, <1>5, AtKept

\* Enter and Escape at the frequency.
LEMMA UpDownKept ==
  ASSUME Stored, machine \in Machine, IsSetup(su), UpDownKey
  PROVE  SetupDone
<1>1. /\ Edited(su) /\ su.st = "FORM_UPDOWN" /\ DOMAIN su = SETUP_FIELDS /\ su.list = 0
      /\ su.row \in 1 .. NUM_MENU_ENTRIES /\ su.sel \in 1 .. Len(FormOf(su.row))
      /\ Setting(su) = "freq" /\ IsCpu(su.cpu)
  BY DEF IsSetup, Edited, InForms, UpDownKey, InForm
<1>2. CASE At([su EXCEPT !.st = "FORM_SELECT"])
  <2> DEFINE x == [su EXCEPT !.st = "FORM_SELECT"]
  <2>1. /\ DOMAIN x = SETUP_FIELDS /\ x.row = su.row /\ x.st = "FORM_SELECT" /\ x.list = 0
        /\ x.open = su.open /\ x.nv = su.nv /\ x.cpu = su.cpu /\ x.boot = su.boot /\ x.sel = su.sel
    BY <1>1 DEF SETUP_FIELDS
  <2>2. At(x)
    BY <1>2
  <2> HIDE DEF x
  <2>3. Edited(x)
    BY <1>1, <2>1, EditedSame
  <2>4. IsSetup(x)
    BY <1>1, <2>1, <2>3 DEF IsSetup, InForms
  <2> QED
    BY <2>2, <2>4, AtKept
<1>3. CASE NewValue("freq", su.cpu.freq)
  <2>1. Kind(Setting(su)) = "UPDOWN"
    BY <1>1, KindIs
  <2> QED
    BY <1>1, <1>3, <2>1, ValueKept
<1> QED
  BY <1>2, <1>3 DEF UpDownKey

\* Leaving the setup.
LEMMA ExitKept ==
  ASSUME Stored, NEW how, Exit(how)
  PROVE  SetupDone
BY DEF Exit, Stored, SetupDone

\* A form read again from NVRAM, generator and flash.
LEMMA ReloadKept ==
  ASSUME Stored, machine \in Machine, IsSetup(su), su.st = "FORM_SELECT", ReloadForm
  PROVE  SetupDone
<1>1. /\ Edited(su) /\ DOMAIN su = SETUP_FIELDS /\ su.nv \in Nvram /\ IsCpu(su.cpu) /\ IsBoot(su.boot)
  BY DEF IsSetup, Edited
<1>2. NvmRead \in Nvram
  BY NvmReadIs DEF Stored
<1>3. \A f \in SWITCHES : flash[f] \in Popups[f]
  BY FlashFieldIs DEF IsFlash, Stored
<1>4. IsCpu(reloadFormCpu(su.cpu))
  <2>1. flash.cpufpu \in 0 .. 1 /\ flash.blitter \in 0 .. 1
    BY <1>3 DEF SWITCHES, Popups
  <2> QED
    BY <1>1, <2>1 DEF reloadFormCpu, readCT60Settings, IsCpu
<1>5. IsBoot(reloadFromBoot(su.boot))
  <2>1. flash.bootorder \in 0 .. 7 /\ flash.bootlog \in 0 .. 1 /\ flash.tosram \in 0 .. 1
    BY <1>3 DEF SWITCHES, Popups
  <2>2. flash.ctpci \in 0 .. 1
    BY FlashFieldIs DEF IsFlash, Stored
  <2> QED
    BY <2>1, <2>2 DEF reloadFromBoot, IsBoot
<1>6. PICK y : /\ y = CASE su.row = 1 -> [su EXCEPT !.nv = NvmRead, !.fresh = TRUE]
                        [] su.row = 4 -> [su EXCEPT !.cpu = reloadFormCpu(su.cpu), !.fresh = TRUE]
                        [] OTHER      -> [su EXCEPT !.boot = reloadFromBoot(su.boot), !.fresh = TRUE]
               /\ su' = y /\ nvram' \in {nvram, NvmRead} /\ UNCHANGED <<flash, faults>>
  BY DEF ReloadForm
<1>7. /\ DOMAIN y = SETUP_FIELDS /\ y.open = su.open /\ y.st = su.st /\ y.row = su.row
      /\ y.sel = su.sel /\ y.list = su.list /\ y.nv \in Nvram /\ IsCpu(y.cpu) /\ IsBoot(y.boot)
  <2>1. CASE su.row = 1
    <3>1. y = [su EXCEPT !.nv = NvmRead, !.fresh = TRUE]
      BY <1>6, <2>1
    <3> QED
      BY <1>1, <1>2, <3>1 DEF SETUP_FIELDS
  <2>2. CASE su.row = 4
    <3>1. y = [su EXCEPT !.cpu = reloadFormCpu(su.cpu), !.fresh = TRUE]
      BY <1>6, <2>2
    <3> QED
      BY <1>1, <1>4, <3>1 DEF SETUP_FIELDS
  <2>3. CASE su.row \notin {1, 4}
    <3>1. y = [su EXCEPT !.boot = reloadFromBoot(su.boot), !.fresh = TRUE]
      BY <1>6, <2>3
    <3> QED
      BY <1>1, <1>5, <3>1 DEF SETUP_FIELDS
  <2> QED
    BY <2>1, <2>2, <2>3
<1>8. IsSetup(y)
  <2>1. Edited(y)
    BY <1>1, <1>7 DEF Edited
  <2> QED
    BY <1>7, <2>1 DEF IsSetup, InForms
<1> QED
  BY <1>2, <1>6, <1>8 DEF Stored, SetupDone

\* what the save of the CPU form and of the BOOT form leaves in the flash
LEMMA CpuSaved ==
  ASSUME Stored, NEW c, IsCpu(c), saveFormCpu(c)
  PROVE  IsFlash(flash') /\ faults' \in Nat
<1> DEFINE now == [clock |-> c.freq, cpufpu |-> c.fpu, blitter |-> c.blit]
<1>0. PICK r \in ct60_configure_clock(chip, c.freq, "rom", SETUP_LIMITS, faults > 0) :
        \E changed, failed :
          /\ changed = ClockParam(r.err)
                       \cup (IF c.fpu # c.fpu_load THEN {"cpufpu"} ELSE {})
                       \cup (IF c.blit # c.blit_load THEN {"blitter"} ELSE {})
          /\ failed \in IF r.err = "write" THEN {"none"}
                        ELSE Failures(DOMAIN [f \in changed |-> now[f]])
          /\ flash' = WriteParams([f \in changed |-> now[f]], failed)
          /\ faults' = IF r.err = "write" \/ failed # "none" THEN faults - 1 ELSE faults
  BY Zenon DEF saveFormCpu
<1>1. PICK changed, failed :
        /\ changed = ClockParam(r.err)
                     \cup (IF c.fpu # c.fpu_load THEN {"cpufpu"} ELSE {})
                     \cup (IF c.blit # c.blit_load THEN {"blitter"} ELSE {})
        /\ failed \in IF r.err = "write" THEN {"none"}
                      ELSE Failures(DOMAIN [f \in changed |-> now[f]])
        /\ flash' = WriteParams([f \in changed |-> now[f]], failed)
        /\ faults' = IF r.err = "write" \/ failed # "none" THEN faults - 1 ELSE faults
  BY <1>0, Zenon
<1> DEFINE upd == [f \in changed |-> now[f]]
<1>2. r.err = "write" \/ failed # "none" => faults > 0
  <2>1. CASE r.err = "write"
    <3> DEFINE faulty == faults > 0
    <3>1. faulty \in BOOLEAN /\ (faulty <=> faults > 0)
      OBVIOUS
    <3>2. r \in ct60_configure_clock(chip, c.freq, "rom", SETUP_LIMITS, faulty)
      BY <1>0
    <3> HIDE DEF faulty
    <3> QED
      BY <2>1, <3>1, <3>2, WriteNeedsFault
  <2>2. CASE r.err # "write"
    <3>1. failed \in Failures(DOMAIN upd)
      BY <1>1, <2>2
    <3> QED
      BY <2>2, <3>1, FailureNeedsFault
  <2> QED
    BY <2>1, <2>2
<1>3. faults' \in Nat
  BY <1>1, <1>2 DEF Stored
<1>4. changed \subseteq {"clock", "cpufpu", "blitter"}
  BY <1>1 DEF ClockParam
<1>5. \A f \in DOMAIN upd \cap (FLASH \ {"clock", "sv", "tlv"}) : upd[f] \in FlashField(f)
  <2>1. FlashField("cpufpu") = 0 .. 1 /\ FlashField("blitter") = 0 .. 1
    BY FlashFieldIs DEF SWITCHES, Popups
  <2>2. now.cpufpu \in 0 .. 1 /\ now.blitter \in 0 .. 1
    BY DEF IsCpu
  <2> HIDE DEF now
  <2> QED
    BY <1>4, <2>1, <2>2
<1> HIDE DEF upd
<1>6. IsFlash(WriteParams(upd, failed))
  BY <1>5, FlashWritten DEF Stored
<1> QED
  BY <1>1, <1>3, <1>6 DEF upd

\* So does the save of the BOOT form, of which the order of the devices is
\* three bits.
LEMMA BootSaved ==
  ASSUME Stored, NEW b, IsBoot(b), saveToBoot(b)
  PROVE  IsFlash(flash') /\ faults' \in Nat
<1> DEFINE now == [bootorder |-> b.devs % 8, bootlog |-> b.log, tosram |-> b.tos, ctpci |-> b.pciide]
<1>1. PICK old : old = [bootorder |-> b.load.devs, bootlog |-> b.load.log,
                        tosram |-> b.load.tos, ctpci |-> b.load.pciide]
  OBVIOUS
<1> DEFINE upd == [f \in {p \in DOMAIN now : now[p] # old[p]} |-> now[f]]
<1>2. PICK failed \in Failures(DOMAIN upd) :
        flash' = WriteParams(upd, failed) /\ Spent(failed)
  BY <1>1, Zenon DEF saveToBoot
<1>3. failed # "none" => faults > 0
  BY <1>2, FailureNeedsFault
<1>4. faults' \in Nat
  BY <1>2, <1>3 DEF Stored, Spent
<1>5. \A f \in DOMAIN upd \cap (FLASH \ {"clock", "sv", "tlv"}) : upd[f] \in FlashField(f)
  <2>1. FlashField("bootorder") = 0 .. 7 /\ FlashField("bootlog") = 0 .. 1
        /\ FlashField("tosram") = 0 .. 1 /\ FlashField("ctpci") = 0 .. 1
    BY FlashFieldIs DEF SWITCHES, Popups
  <2>2. /\ DOMAIN now = {"bootorder", "bootlog", "tosram", "ctpci"}
        /\ now.bootorder \in 0 .. 7 /\ now.bootlog \in 0 .. 1 /\ now.tosram \in 0 .. 1
        /\ now.ctpci \in 0 .. 1
    BY DEF IsBoot
  <2> HIDE DEF now
  <2>3. \A f \in DOMAIN upd : f \in {"bootorder", "bootlog", "tosram", "ctpci"} /\ upd[f] = now[f]
    BY <2>2
  <2> HIDE DEF upd
  <2> QED
    BY <2>1, <2>2, <2>3
<1> HIDE DEF upd
<1>6. IsFlash(WriteParams(upd, failed))
  BY <1>5, FlashWritten DEF Stored
<1> QED
  BY <1>2, <1>4, <1>6

\* The save of a form.
LEMMA SaveKept ==
  ASSUME Stored, machine \in Machine, IsSetup(su), su.st = "FORM_SELECT", SaveForm
  PROVE  SetupDone
<1> DEFINE x == [su EXCEPT !.fresh = FALSE]
<1>1. /\ Edited(su) /\ DOMAIN su = SETUP_FIELDS /\ su.nv \in Nvram /\ IsCpu(su.cpu) /\ IsBoot(su.boot)
  BY DEF IsSetup, Edited
<1>2. /\ DOMAIN x = SETUP_FIELDS /\ x.open = su.open /\ x.st = su.st /\ x.row = su.row
      /\ x.sel = su.sel /\ x.list = su.list /\ x.nv = su.nv /\ x.cpu = su.cpu /\ x.boot = su.boot
  BY <1>1 DEF SETUP_FIELDS
<1>3. su' = x
  BY DEF SaveForm
<1> HIDE DEF x
<1>4. IsSetup(x)
  <2>1. Edited(x)
    BY <1>1, <1>2, EditedSame DEF Edited
  <2> QED
    BY <1>2, <2>1 DEF IsSetup, InForms
<1>5. nvram' \in Nvram /\ IsFlash(flash') /\ faults' \in Nat
  BY <1>1, CpuSaved, BootSaved DEF SaveForm, Stored
<1> QED
  BY <1>3, <1>4, <1>5 DEF SetupDone

\* Enter on a setting.
LEMMA EnterKept ==
  ASSUME Stored, machine \in Machine, IsSetup(su), NEW s, Enter(s)
  PROVE  SetupDone
<1>1. /\ su.st = "FORM_SELECT" /\ s = Setting(su) /\ Edited(su) /\ DOMAIN su = SETUP_FIELDS
      /\ su.list = 0 /\ su.row \in 1 .. NUM_MENU_ENTRIES /\ su.sel \in 1 .. Len(FormOf(su.row))
  BY DEF Enter, InForm, IsSetup, Edited, InForms
<1>2. CASE Kind(s) \in {"INPUT", "BOOL"} /\ \E v : NewValue(s, v)
  BY <1>1, <1>2, ValueKept
<1>3. CASE Kind(s) = "LIST" /\ At([su EXCEPT !.st = "FORM_LIST"])
  <2> DEFINE x == [su EXCEPT !.st = "FORM_LIST"]
  <2>1. /\ DOMAIN x = SETUP_FIELDS /\ x.row = su.row /\ x.st = "FORM_LIST" /\ x.list = 0
        /\ x.open = su.open /\ x.nv = su.nv /\ x.cpu = su.cpu /\ x.boot = su.boot /\ x.sel = su.sel
    BY <1>1 DEF SETUP_FIELDS
  <2>2. At(x)
    BY <1>3
  <2> HIDE DEF x
  <2>3. Edited(x)
    BY <1>1, <2>1, EditedSame DEF Edited
  <2>4. Setting(x) = Setting(su)
    BY <2>1, SettingSame
  <2>5. 0 \in 0 .. ListLen(Setting(su)) - 1
    BY ListLenIs
  <2>6. IsSetup(x)
    BY <1>1, <1>3, <2>1, <2>3, <2>4, <2>5 DEF IsSetup, InForms
  <2> QED
    BY <2>2, <2>6, AtKept
<1>4. CASE Kind(s) = "UPDOWN" /\ At([su EXCEPT !.st = "FORM_UPDOWN", !.cpu.freq = Limited(su.cpu.freq)])
  <2> DEFINE f == Limited(su.cpu.freq)
             x == [su EXCEPT !.st = "FORM_UPDOWN", !.cpu.freq = f]
  <2>1. At(x)
    BY <1>4
  <2> HIDE DEF f
  <2>2. /\ DOMAIN x = SETUP_FIELDS /\ x.row = su.row /\ x.st = "FORM_UPDOWN" /\ x.list = su.list
        /\ x.open = su.open /\ x.nv = su.nv /\ x.boot = su.boot /\ x.sel = su.sel
        /\ x.cpu = [su.cpu EXCEPT !.freq = f]
    BY <1>1 DEF SETUP_FIELDS
  <2> HIDE DEF x
  <2>6. Edited(x)
    BY <1>1, <2>2, CpuPut
  <2>3. Setting(x) = Setting(su)
    BY <2>2, SettingSame
  <2>4. Setting(su) = "freq"
    BY <1>1, <1>4, UpDownIs
  <2>5. IsSetup(x)
    BY <1>1, <2>2, <2>3, <2>4, <2>6 DEF IsSetup, InForms
  <2> QED
    BY <2>1, <2>5, AtKept
<1>5. CASE ReloadForm
  BY <1>1, <1>5, ReloadKept
<1>6. CASE SaveForm
  BY <1>1, <1>6, SaveKept
<1> QED
  BY <1>2, <1>3, <1>4, <1>5, <1>6, Zenon DEF Enter

-----------------------------------------------------------------------------
(* The steps of a session keep what is stored, and the program that is     *)
(* open as it must be.                                                     *)
PanelDone ==
  /\ nvram' \in Nvram /\ IsFlash(flash') /\ IsHeader(disk') /\ faults' \in Nat
  /\ IsHeader(head') \/ (head' = << >> /\ pn' = Closed)
  /\ sv_top' \in 0 .. SV_ROWS - SV_VISIBLE
  /\ pn' = Closed \/ IsPanel(pn', sv_top')

\* A page selected: the cursor goes to a field of it.
LEMMA PageKept ==
  ASSUME IsPanel(pn, sv_top), NEW page, SelectPage(page)
  PROVE  IsPanel(pn', sv_top)
<1>1. /\ page \in Pages /\ pn' = [pn EXCEPT !.page = page, !.edit = EditOn(page, pn)]
      /\ DOMAIN pn = FIELDS
  BY DEF SelectPage, IsPanel
<1>2. /\ DOMAIN pn' = FIELDS /\ pn'.page = page /\ pn'.edit = EditOn(page, pn)
      /\ \A f \in FIELDS \ {"page", "edit"} : pn'[f] = pn[f]
  <2>1. {"page", "edit"} \subseteq FIELDS
    BY FieldIs
  <2> QED
    BY <1>1, <2>1
<1>3. \A f \in TYPED : pn'[f] \in Field(f)
  <2>1. pn'.page \in Field("page")
    BY <1>1, <1>2, FieldIs
  <2>2. \A f \in TYPED \ {"page"} : f \in FIELDS \ {"page", "edit"}
    BY DEF TYPED
  <2> QED
    BY <1>2, <2>1, <2>2 DEF IsPanel
<1>4. pn'.open = TRUE /\ pn'.text = pn.text /\ pn'.vmode = pn.vmode /\ pn'.sven = pn.sven
  BY <1>2, FieldIs DEF IsPanel
<1>5. InPage(pn', sv_top)
  <2>1. CASE page = "SV"
    BY <1>2, <1>4, <2>1 DEF InPage, EditOn, sv_first_edit, PageOf
  <2>2. CASE page # "SV"
    <3>1. EditOn(page, pn) # "none" => PageOf(EditOn(page, pn)) = page /\ EditOn(page, pn) # "svboot"
      BY <2>2 DEF EditOn, PageOf
    <3> QED
      BY <1>2, <3>1 DEF InPage
  <2> QED
    BY <2>1, <2>2
<1> QED
  BY <1>2, <1>3, <1>4, <1>5 DEF IsPanel

\* The panel opened.
LEMMA OpenedKept ==
  ASSUME machine \in Machine, Stored, OpenPanel
  PROVE  PanelDone
<1>1. NvmRead \in Nvram /\ IsPanel(Opened, sv_top)
  BY NvmReadIs, Opening DEF Stored
<1>2. IsHeader(fix_header)
  BY DEF fix_header, Stored
<1> QED
  BY <1>1, <1>2 DEF OpenPanel, Stored, PanelDone

\* The offset of the temperature written.
LEMMA Calibrated ==
  ASSUME Stored, Calibrate
  PROVE  IsFlash(flash') /\ faults' \in Nat
<1>1. PICK failed \in Failures({"tlv"}), n \in {-99, 0, 99} :
        flash' = WriteParams([tlv |-> n], failed) /\ Spent(failed)
  BY Zenon DEF Calibrate
<1>2. failed # "none" => faults > 0
  BY FailureNeedsFault
<1>3. faults' \in Nat
  BY <1>1, <1>2 DEF Stored, Spent
<1>4. DOMAIN [tlv |-> n] \cap (FLASH \ {"clock", "sv", "tlv"}) = {}
  OBVIOUS
<1>5. IsFlash(WriteParams([tlv |-> n], failed))
  BY <1>4, FlashWritten DEF Stored
<1> QED
  BY <1>1, <1>3, <1>5

\* Every step of a session of the panel.
LEMMA PanelKept ==
  ASSUME machine \in Machine, Stored, pn = Closed \/ IsPanel(pn, sv_top), PanelSession
  PROVE  PanelDone
<1>1. CASE OpenPanel
  BY <1>1, OpenedKept
<1>2. CASE ~OpenPanel
  <2>1. pn.open /\ (\/ SelectPage(Present.page) \/ Control \/ cpx_key \/ Scroll \/ Load
                     \/ Calibrate \/ Save(1) \/ Save(2) \/ Ok \/ Cancel)
    BY <1>2, Zenon DEF PanelSession, SelectPage, Control, cpx_key, Scroll, Load, Calibrate, Save, Ok,
                       Cancel
  <2>2. pn # Closed
    BY <2>1 DEF Closed
  <2>3. IsPanel(pn, sv_top) /\ IsHeader(head)
    BY <2>2 DEF Stored
  <2>4. CASE SelectPage(Present.page)
    <3>1. IsPanel(pn', sv_top)
      BY <2>3, <2>4, PageKept
    <3> QED
      BY <2>3, <2>4, <3>1 DEF SelectPage, Stored, PanelDone
  <2>5. CASE Control
    <3>1. IsPanel(pn', sv_top)
      BY <2>3, <2>5, ControlKept
    <3> QED
      BY <2>3, <2>5, <3>1 DEF Control, Stored, PanelDone
  <2>6. CASE cpx_key
    <3>1. IsPanel(pn', sv_top)
      BY <2>3, <2>6, KeyKept
    <3> QED
      BY <2>3, <2>6, <3>1 DEF cpx_key, Stored, PanelDone
  <2>7. CASE Scroll
    <3>1. IsPanel(pn', sv_top') /\ sv_top' \in 0 .. SV_ROWS - SV_VISIBLE
      BY <2>3, <2>7, ScrollKept DEF Stored
    <3> QED
      BY <2>3, <2>7, <3>1 DEF Scroll, Stored, PanelDone
  <2>8. CASE Load
    <3>1. IsPanel(pn', sv_top)
      BY <2>3, <2>8, Loading DEF Load
    <3> QED
      BY <2>3, <2>8, <3>1 DEF Load, Stored, PanelDone
  <2>9. CASE Calibrate
    <3>1. IsFlash(flash') /\ faults' \in Nat
      BY <2>9, Calibrated
    <3> QED
      BY <2>3, <2>9, <3>1 DEF Calibrate, Stored, PanelDone
  <2>10. CASE Save(1) \/ Save(2)
    <3>1. PICK clicks \in {1, 2} : Save(clicks)
      BY <2>10
    <3>2. /\ nvram' \in Nvram /\ IsFlash(flash') /\ faults' \in Nat
          /\ IsHeader(disk') /\ IsHeader(head') /\ UNCHANGED sv_top
          /\ pn' = Closed \/ IsPanel(pn', sv_top)
      BY <2>3, <3>1, Saved
    <3> QED
      BY <3>2 DEF Stored, PanelDone
  <2>11. CASE Ok
    <3>1. nvram' \in Nvram /\ IsFlash(flash') /\ faults' \in Nat /\ pn' = Closed
      BY <2>3, <2>11, Accepted DEF Ok
    <3> QED
      BY <2>3, <2>11, <3>1 DEF Ok, Stored, PanelDone
  <2>12. CASE Cancel
    BY <2>3, <2>12 DEF Cancel, Stored, PanelDone
  <2> QED
    BY <2>1, <2>4, <2>5, <2>6, <2>7, <2>8, <2>9, <2>10, <2>11, <2>12
<1> QED
  BY <1>1, <1>2

\* Every step of a session of the setup.
LEMMA SetupKept ==
  ASSUME machine \in Machine, Stored, su = Off \/ IsSetup(su), SetupSession
  PROVE  SetupDone
<1>1. CASE StartSetup
  BY <1>1, Started
<1>2. CASE ~StartSetup
  <2>1. su.open /\ (\/ MenuKey \/ FormKey \/ ListKey \/ UpDownKey \/ (\E d : StepKey(d))
                    \/ (\E s : Enter(s)) \/ (\E how : Exit(how)))
    BY <1>2, Zenon DEF SetupSession, MenuKey, FormKey, ListKey, UpDownKey, StepKey, Enter, Exit, InForm
  <2>2. IsSetup(su)
    BY <2>1 DEF Off
  <2> QED
    BY <2>1, <2>2, MenuKept, FormKept, ListKept, UpDownKept, StepKept, EnterKept, ExitKept
<1> QED
  BY <1>1, <1>2

-----------------------------------------------------------------------------
(* The computer does not change, so that what is true of the next state's  *)
(* panel and setup on it is true in the next state.                        *)
LEMMA PanelPrimed ==
  ASSUME UNCHANGED machine, IsPanel(pn', sv_top')
  PROVE  IsPanel(pn, sv_top)'
<1>1. Pages' = Pages
  BY DEF Pages, On060
<1>2. ASSUME NEW f \in TYPED PROVE Field(f)' = Field(f)
  <2>1. f \in DOMAIN Popups \/ f \in {"vmode", "sep", "nvm", "sven", "flagf", "delay", "trigger",
                                     "time", "freq", "min", "max", "step", "page"}
    BY DEF TYPED, FIELDS, SHOWN, NV_FIELDS, SWITCHES, KEPT, CLOCK, SV, Popups
  <2>2. CASE f \in DOMAIN Popups
    BY <2>2 DEF Field, Popups
  <2>3. CASE f \in {"vmode", "sep", "nvm", "sven", "flagf", "delay", "trigger", "time", "freq",
                    "min", "max", "step"}
    BY <2>3 DEF Field, Popups
  <2>4. CASE f = "page"
    BY <1>1, <2>4 DEF Field, Popups
  <2> QED
    BY <2>1, <2>2, <2>3, <2>4
<1>3. (\A f \in TYPED : pn[f] \in Field(f))'
  BY <1>2 DEF IsPanel
<1>4. InPage(pn, sv_top)'
  BY DEF IsPanel, InPage
<1> QED
  BY <1>3, <1>4 DEF IsPanel

\* The same of the setup.
LEMMA SetupPrimed ==
  ASSUME UNCHANGED machine, IsSetup(su')
  PROVE  IsSetup(su)'
BY DEF IsSetup, Edited, InForms, Setting, FormOf, Kind

\* The invariant holds wherever a script may begin.
LEMMA Initially == Init => Inv
<1> SUFFICES ASSUME Init PROVE Inv
  OBVIOUS
<1>1. PICK s \in Starts :
        /\ machine = s.machine /\ nvram = s.nvram /\ flash = s.flash
        /\ disk = s.disk /\ head = Header(s.disk) /\ faults = s.faults
        /\ pn = Closed /\ sv_top = 0 /\ su = Off
        /\ script = s.sessions /\ begun = FALSE /\ left = 0
  BY DEF Init
<1>2. Stored
  BY <1>1, SettingsAssumption DEF Stored, Header, SV_ROWS, SV_VISIBLE
<1> QED
  BY <1>1, <1>2, SettingsAssumption DEF Inv, Scripted

\* The script's bookkeeping.
LEMMA ScriptKept ==
  ASSUME Scripted, UNCHANGED script, NEW who, Begin(who) \/ Free \/ Click \/ Close
  PROVE  Scripted'
<1>1. CASE Begin(who)
  <2>1. script \in Seq(Session) /\ script # << >> /\ left' = Head(script).clicks
    BY <1>1 DEF Scripted, Begin, Present
  <2>2. Head(script) \in Session
    BY <2>1
  <2>3. Head(script).clicks \in Nat
    BY <2>2 DEF Session
  <2> QED
    BY <2>1, <2>3 DEF Scripted
<1>2. CASE Free \/ Click \/ Close
  BY <1>2 DEF Free, Click, Close, Scripted
<1> QED
  BY <1>1, <1>2

\* A session of the panel keeps the invariant.
LEMMA PanelStep ==
  ASSUME Inv, PanelSession
  PROVE  Inv'
<1>1. UNCHANGED <<machine, su, script>>
  BY DEF PanelSession
<1>2. PanelDone
  BY PanelKept DEF Inv
<1>3. Stored'
  BY <1>2 DEF PanelDone, Stored
<1>4. Scripted'
  <2>1. Begin("panel") \/ Free \/ Click \/ Close
    BY Zenon DEF PanelSession
  <2> QED
    BY <1>1, <2>1, ScriptKept DEF Inv
<1>5. (pn = Closed \/ IsPanel(pn, sv_top))'
  BY <1>1, <1>2, PanelPrimed DEF PanelDone, Closed
<1>6. (su = Off \/ IsSetup(su))'
  BY <1>1, SetupPrimed DEF Inv, Off
<1> QED
  BY <1>1, <1>3, <1>4, <1>5, <1>6 DEF Inv

\* So does one of the setup.
LEMMA SetupStep ==
  ASSUME Inv, SetupSession
  PROVE  Inv'
<1>1. UNCHANGED <<machine, pn, disk, head, sv_top, script>>
  BY DEF SetupSession
<1>2. SetupDone
  BY SetupKept DEF Inv
<1>3. Stored'
  BY <1>1, <1>2 DEF SetupDone, Stored, Inv
<1>4. Scripted'
  <2>1. Begin("setup") \/ Free \/ Click \/ Close
    BY Zenon DEF SetupSession
  <2> QED
    BY <1>1, <2>1, ScriptKept DEF Inv
<1>5. (pn = Closed \/ IsPanel(pn, sv_top))'
  BY <1>1, PanelPrimed DEF Inv, Closed
<1>6. (su = Off \/ IsSetup(su))'
  BY <1>1, <1>2, SetupPrimed DEF SetupDone, Off
<1> QED
  BY <1>1, <1>3, <1>4, <1>5, <1>6 DEF Inv

\* So does what is between two: an open panel never outlives its header.
LEMMA BetweenStep ==
  ASSUME Inv, NEW how, Between(how)
  PROVE  Inv'
<1>1. /\ UNCHANGED <<machine, nvram, flash, disk, faults, pn, su>>
      /\ head' = Header(IF how = "none" THEN head ELSE disk)
      /\ sv_top' = IF how = "none" THEN sv_top ELSE 0
      /\ script' = Tail(script) /\ begun /\ begun' = FALSE /\ left' = 0 /\ ~pn.open
  BY DEF Between
<1>2. pn = Closed
  BY <1>1 DEF Inv, IsPanel
<1>3. Stored'
  <2>1. sv_top' \in 0 .. SV_ROWS - SV_VISIBLE
    BY <1>1 DEF Inv, Stored, SV_ROWS, SV_VISIBLE
  <2>2. IsHeader(head') \/ head' = << >>
    BY <1>1 DEF Inv, Stored, Header
  <2> QED
    BY <1>1, <1>2, <2>1, <2>2 DEF Inv, Stored, Closed
<1>4. Scripted'
  BY <1>1 DEF Inv, Scripted
<1>5. (su = Off \/ IsSetup(su))'
  BY <1>1, SetupPrimed DEF Inv, Off
<1> QED
  BY <1>1, <1>2, <1>3, <1>4, <1>5 DEF Inv, Closed

\* So does a step of neither.
LEMMA StutterStep ==
  ASSUME Inv, UNCHANGED vars
  PROVE  Inv'
<1>1. Stored' /\ Scripted' /\ machine' \in Machine
  BY DEF vars, Inv, Stored, Scripted, Closed
<1>2. (pn = Closed \/ IsPanel(pn, sv_top))'
  BY PanelPrimed DEF vars, Inv, Closed
<1>3. (su = Off \/ IsSetup(su))'
  BY SetupPrimed DEF vars, Inv, Off
<1> QED
  BY <1>1, <1>2, <1>3 DEF Inv

\* The invariant: for every computer, every content of NVRAM, flash and file
\* the programs can have stored, every script and every text typed.
THEOREM Invariant == Spec => []Inv
<1>1. Inv /\ [Next]_vars => Inv'
  BY PanelStep, SetupStep, BetweenStep, StutterStep DEF Next
<1> QED
  BY Initially, <1>1, PTL DEF Spec

\* Types: whatever one program stored, the other's indexes and texts stay
\* inside their tables and fields (cpx_call and cpx_button; readNvram and
\* confirm).
THEOREM SettingsTyped == Spec => []SettingsTypeOK
<1>1. Inv => SettingsTypeOK
  <2> SUFFICES ASSUME Inv PROVE SettingsTypeOK
    OBVIOUS
  <2>1. nvram \in Nvram /\ faults \in Nat /\ left \in Nat /\ sv_top \in 0 .. SV_ROWS - SV_VISIBLE
    BY DEF Inv, Stored, Scripted
  <2>2. \A f \in SWITCHES : flash[f] \in Popups[f]
    BY FlashFieldIs DEF Inv, Stored, IsFlash
  <2>3. ASSUME pn.open
        PROVE  /\ \A f \in DOMAIN Popups : pn[f] \in Popups[f]
               /\ pn.vmode \in VMode /\ pn.delay \in 0 .. 99 /\ pn.freq \in Nat
               /\ pn.trigger \in 0 .. 99 /\ pn.time \in Times /\ pn.page \in Pages
    <3>1. \A f \in TYPED : pn[f] \in Field(f)
      BY <2>3 DEF Inv, Closed, IsPanel
    <3> QED
      BY <3>1, FieldIs
  <2>4. ASSUME su.open
        PROVE  /\ su.nv \in Nvram /\ su.row \in 1 .. NUM_MENU_ENTRIES
               /\ su.boot.devs \in 0 .. 7
    BY <2>4 DEF Inv, Off, IsSetup, Edited, IsBoot
  <2> QED
    BY <2>1, <2>2, <2>3, <2>4 DEF SettingsTypeOK
<1> QED
  BY Invariant, <1>1, PTL

\* The texts and check marks of the video page are those of the mode OK will
\* store, after any clicks, loads and pages (cpx_button, display of MENUB*).
THEOREM PanelShows == Spec => []PanelShowsMode
<1>1. Inv => PanelShowsMode
  BY DEF Inv, Closed, IsPanel, PanelShowsMode
<1> QED
  BY Invariant, <1>1, PTL

\* The setup's selection never leaves its form nor its list, and the panel's
\* cursor is in a field of its page that can be seen (vt_setting_*,
\* sv_first_edit).
THEOREM CursorStays == Spec => []CursorInForm
<1>1. Inv => CursorInForm
  <2> SUFFICES ASSUME Inv PROVE CursorInForm
    OBVIOUS
  <2>1. ASSUME su.open PROVE InForms(su)
    BY <2>1 DEF Inv, Off, IsSetup
  <2>2. ASSUME pn.open PROVE InPage(pn, sv_top)
    BY <2>2 DEF Inv, Closed, IsPanel
  <2> QED
    BY <2>1, <2>2 DEF CursorInForm, InForms, InPage
<1> QED
  BY Invariant, <1>1, PTL

\* A step of the panel keeps a legal mode legal.
LEMMA ModeKept ==
  ASSUME machine \in Machine, Stored, IsPanel(pn, sv_top), PanelSession, pn'.open,
         LegalMode(pn.vmode), ev'.op = "load" => LegalMode(head.vmode)
  PROVE  LegalMode(pn'.vmode)
<1>1. pn.open /\ (\/ SelectPage(Present.page) \/ Control \/ cpx_key \/ Scroll \/ Load
                   \/ Calibrate \/ Save(1) \/ Save(2) \/ Ok \/ Cancel)
  BY Zenon DEF PanelSession, OpenPanel, SelectPage, Control, cpx_key, Scroll, Load, Calibrate, Save, Ok,
               Cancel, IsPanel
<1>2. DOMAIN pn = FIELDS /\ "vmode" \in FIELDS
  BY FieldIs DEF IsPanel
<1>3. ASSUME NEW f, f # "vmode", NEW v, pn' = [pn EXCEPT ![f] = v]
      PROVE  pn'.vmode = pn.vmode
  BY <1>2, <1>3
<1>4. CASE SelectPage(Present.page)
  BY <1>2, <1>4 DEF SelectPage
<1>5. CASE Control
  <2>1. CASE pn' \in Clicks(pn) /\ pn.page = "VIDEO"
    <3>1. ModeSet(pn, pn') \/ pn' = [pn EXCEPT !.nvm = ~pn.nvm]
      BY <2>1, VideoPage, PanelIsVideo DEF Clicks
    <3>2. CASE ModeSet(pn, pn')
      BY <3>2 DEF ModeSet
    <3>3. CASE pn' = [pn EXCEPT !.nvm = ~pn.nvm]
      BY <1>3, <3>3, Zenon
    <3> QED
      BY <3>1, <3>2, <3>3
  <2>2. CASE pn' \in Clicks(pn) /\ pn.page = "MEMORY"
    BY <2>2, FreqClick DEF Clicks
  <2>3. CASE pn' \in Clicks(pn) /\ pn.page = "SV"
    <3>1. \/ \E v : pn' = [pn EXCEPT !.svdvi = v]
          \/ \E v : pn' = [pn EXCEPT !.svchk = v]
          \/ \E v, e : pn' = [pn EXCEPT !.sven = v, !.edit = e]
      BY <2>3, Zenon DEF Clicks, SvClicks
    <3> QED
      BY <1>2, <3>1
  <2>4. CASE \E f \in DOMAIN Popups : \E i \in Popups[f] : pn' = [pn EXCEPT ![f] = i]
    <3>1. "vmode" \notin DOMAIN Popups
      BY DEF Popups
    <3> QED
      BY <1>3, <2>4, <3>1
  <2> QED
    BY <1>5, <2>1, <2>2, <2>3, <2>4 DEF Control, Clicks
<1>6. CASE cpx_key
  <2>1. "vmode" \notin DOMAIN Edits
    BY SettingsAssumption
  <2>2. PICK f \in DOMAIN Edits : \E v : pn' = [pn EXCEPT ![f] = v]
    BY <1>6, Zenon DEF cpx_key
  <2> QED
    BY <1>3, <2>1, <2>2
<1>7. CASE Scroll
  BY <1>2, <1>7 DEF Scroll, SvScroll
<1>8. CASE Load
  <2>1. ev'.op = "load" /\ pn' = Loaded(pn, head)
    BY <1>8 DEF Load
  <2>2. IsHeader(head)
    BY DEF Stored, IsPanel, Closed
  <2>3. pn'.vmode = VideoOpened(head.vmode)
    BY <2>1, <2>2, Loading
  <2>4. head.vmode \in VMode
    BY <2>2, NvFieldsOf
  <2> QED
    BY <2>1, <2>3, <2>4, ModeOpened
<1>9. CASE Calibrate
  BY <1>9 DEF Calibrate
<1>10. CASE Save(1) \/ Save(2)
  <2>1. PICK clicks \in {1, 2} : Save(clicks)
    BY <1>10
  <2>2. pn' = Closed \/ pn'.vmode = pn.vmode
    BY <2>1, Saved
  <2> QED
    BY <2>2 DEF Closed
<1>11. CASE Ok \/ Cancel
  <2>1. pn' = Closed
    BY <1>11, Accepted DEF Ok, Cancel
  <2> QED
    BY <2>1 DEF Closed
<1> QED
  BY <1>1, <1>4, <1>5, <1>6, <1>7, <1>8, <1>9, <1>10, <1>11

\* A click on the video page keeps a legal mode legal, in whatever order
\* popups and buttons are used, and so does LOAD when the header holds one
\* (cpx_button).
THEOREM ModesStayLegal == Spec => ModeStaysLegal
<1> DEFINE Step == pn.open /\ pn'.open /\ LegalMode(pn.vmode)
                     /\ (ev'.op = "load" => LegalMode(head.vmode)) => LegalMode(pn'.vmode)
<1>1. Inv /\ [Next]_vars => [Step]_vars
  <2> SUFFICES ASSUME Inv, Next, pn.open, pn'.open, LegalMode(pn.vmode),
                      ev'.op = "load" => LegalMode(head.vmode)
               PROVE  LegalMode(pn'.vmode)
    OBVIOUS
  <2>1. CASE PanelSession
    BY <2>1, ModeKept DEF Inv, Closed
  <2>2. CASE SetupSession
    BY <2>2 DEF SetupSession
  <2>3. CASE \E how \in {"none", "restart", "power"} : Between(how)
    BY <2>3 DEF Between
  <2> QED
    BY <2>1, <2>2, <2>3 DEF Next
<1> QED
  BY Invariant, <1>1, PTL DEF Spec, ModeStaysLegal

-----------------------------------------------------------------------------
\* What is confirmed in the setup's forms is what the form then shows
\* (ShowsChoice).

\* the fields of the clock chip's date and time
RTC == {"year", "month", "day", "hour", "minute"}
DATE == {"date1", "date2", "year", "hour", "minute"}

\* The texts of the NVRAM form that depend on one field each.
LEMMA NvTexts ==
  ASSUME NEW nv
  PROVE  /\ DOMAIN NvShown(nv) = NV_SETTINGS
         /\ NvShown(nv).language = IF nv.language > 6 THEN 0 ELSE nv.language
         /\ NvShown(nv).keyboard = IF nv.keyboard >= 19 THEN 0 ELSE nv.keyboard
         /\ NvShown(nv).tf = nv.tf /\ NvShown(nv).delay = nv.delay
         /\ NvShown(nv).arb = nv.arb /\ NvShown(nv).id = nv.id
         /\ NvShown(nv).dfmt = nv.df + (CASE nv.sep = "." -> 0 [] nv.sep = "-" -> 8 [] OTHER -> 4)
         /\ NvShown(nv).res = ResShown(nv.vmode)
         /\ NvShown(nv).planes = IF nv.vmode.planes > 4 THEN 0 ELSE nv.vmode.planes
         /\ NvShown(nv).hz = IF nv.vmode.pal THEN 0 ELSE 1
         /\ NvShown(nv).st = IF nv.vmode.st THEN 0 ELSE 1
         /\ NvShown(nv).bootpref =
              IF nv.bootpref \in Range(code_boot_pref)
              THEN (CHOOSE i \in DOMAIN code_boot_pref : code_boot_pref[i] = nv.bootpref) - 1
              ELSE 0
<1>1. DOMAIN NvShown(nv) = NV_SETTINGS
  BY Zenon DEF NvShown, NV_SETTINGS
<1> QED
  BY <1>1, Zenon DEF NvShown

\* The resolution chosen in the list is the one the form shows.
LEMMA ResChosen ==
  ASSUME NEW vm, NEW v \in 0 .. 11, vm.c80 = VMODES_RES[v].c80, vm.vga = VMODES_RES[v].vga,
         vm.ovr = VMODES_RES[v].ovr, vm.vert = VMODES_RES[v].vert
  PROVE  ResShown(vm) = v
<1> DEFINE m == VMODES_RES[v]
           c80 == v % 4 < 2
           vga == v < 4
           ovr == v >= 8
           odd == v % 2 = 1
           vert == odd = vga
<1>1. m = [c80 |-> c80, vga |-> vga, ovr |-> ovr, vert |-> vert]
  BY Zenon DEF VMODES_RES
<1>2. (vm.c80 <=> c80) /\ (vm.vga <=> vga) /\ (vm.ovr <=> ovr) /\ (vm.vert <=> vert)
  <2> HIDE DEF c80, vga, ovr, vert
  <2>1. m.c80 = c80 /\ m.vga = vga /\ m.ovr = ovr /\ m.vert = vert
    BY <1>1
  <2> HIDE DEF m
  <2> QED
    BY <2>1, Zenon DEF m
<1>3. vert <=> (odd <=> vga)
  <2>1. odd \in BOOLEAN /\ vga \in BOOLEAN
    OBVIOUS
  <2> HIDE DEF odd, vga
  <2> QED
    BY <2>1, Zenon
<1>4. (vm.c80 <=> v % 4 < 2) /\ (vm.vga <=> v < 4) /\ (vm.ovr <=> v >= 8)
      /\ (vm.vert <=> (v % 2 = 1 <=> v < 4))
  <2> HIDE DEF vert
  <2> QED
    BY <1>2, <1>3
<1> DEFINE i == (IF vm.c80 THEN 0 ELSE 2) + (IF vm.vert THEN 0 ELSE 1)
<1>5. ResShown(vm) = IF vm.vga THEN (IF vm.vert THEN i + 1 ELSE i - 1)
                     ELSE i + 4 + (IF vm.ovr THEN 4 ELSE 0)
  BY Zenon DEF ResShown
<1>6. v \in {0, 1, 2, 3, 4, 5, 6, 7, 8, 9, 10, 11}
  OBVIOUS
<1> HIDE DEF m, c80, vga, ovr, odd, vert
<1> QED
  BY <1>4, <1>5, <1>6

\* The system chosen in the list is the one the form shows.
LEMMA BootPrefChosen ==
  ASSUME NEW nv, NEW v \in 0 .. 5, nv.bootpref = code_boot_pref[v + 1]
  PROVE  NvShown(nv).bootpref = v
<1>1. DOMAIN code_boot_pref = 1 .. 6
  BY DEF code_boot_pref
<1>2. \A i, j \in 1 .. 6 : code_boot_pref[i] = code_boot_pref[j] => i = j
  BY DEF code_boot_pref
<1>3. nv.bootpref \in Range(code_boot_pref)
  <2>1. v + 1 \in DOMAIN code_boot_pref
    BY <1>1
  <2> QED
    BY <2>1, Zenon DEF Range
<1> DEFINE P(i) == code_boot_pref[i] = nv.bootpref
           k == CHOOSE i \in 1 .. 6 : P(i)
<1>4. v + 1 \in 1 .. 6 /\ P(v + 1)
  OBVIOUS
<1>5. k \in 1 .. 6 /\ P(k)
  BY <1>4
<1>6. k = v + 1
  BY <1>2, <1>4, <1>5
<1>7. NvShown(nv).bootpref = k - 1
  BY <1>1, <1>3, NvTexts, Zenon
<1> HIDE DEF k
<1> QED
  BY <1>6, <1>7

\* What is shown of an NVRAM whose fields but one are the same.
LEMMA SameNvTexts ==
  ASSUME NEW nv, NEW q
  PROVE  /\ q.language = nv.language => NvShown(q).language = NvShown(nv).language
         /\ q.keyboard = nv.keyboard => NvShown(q).keyboard = NvShown(nv).keyboard
         /\ q.tf = nv.tf => NvShown(q).tf = NvShown(nv).tf
         /\ q.delay = nv.delay => NvShown(q).delay = NvShown(nv).delay
         /\ q.arb = nv.arb => NvShown(q).arb = NvShown(nv).arb
         /\ q.id = nv.id => NvShown(q).id = NvShown(nv).id
         /\ q.df = nv.df /\ q.sep = nv.sep => NvShown(q).dfmt = NvShown(nv).dfmt
         /\ q.bootpref = nv.bootpref => NvShown(q).bootpref = NvShown(nv).bootpref
         /\ q.vmode.planes = nv.vmode.planes => NvShown(q).planes = NvShown(nv).planes
         /\ q.vmode.pal = nv.vmode.pal => NvShown(q).hz = NvShown(nv).hz
         /\ q.vmode.st = nv.vmode.st => NvShown(q).st = NvShown(nv).st
         /\ q.vmode.c80 = nv.vmode.c80 /\ q.vmode.vert = nv.vmode.vert
            /\ q.vmode.vga = nv.vmode.vga /\ q.vmode.ovr = nv.vmode.ovr
              => NvShown(q).res = NvShown(nv).res
<1>1. q.bootpref = nv.bootpref => NvShown(q).bootpref = NvShown(nv).bootpref
  <2> DEFINE Place(b) == IF b \in Range(code_boot_pref)
                      THEN (CHOOSE i \in DOMAIN code_boot_pref : code_boot_pref[i] = b) - 1
                      ELSE 0
  <2>1. NvShown(q).bootpref = Place(q.bootpref)
    BY NvTexts, Zenon
  <2>2. NvShown(nv).bootpref = Place(nv.bootpref)
    BY NvTexts, Zenon
  <2> HIDE DEF Place
  <2> QED
    BY <2>1, <2>2, Zenon
<1>2. q.vmode.c80 = nv.vmode.c80 /\ q.vmode.vert = nv.vmode.vert
      /\ q.vmode.vga = nv.vmode.vga /\ q.vmode.ovr = nv.vmode.ovr
        => NvShown(q).res = NvShown(nv).res
  <2>1. q.vmode.c80 = nv.vmode.c80 /\ q.vmode.vert = nv.vmode.vert
        /\ q.vmode.vga = nv.vmode.vga /\ q.vmode.ovr = nv.vmode.ovr
          => ResShown(q.vmode) = ResShown(nv.vmode)
    BY Zenon DEF ResShown
  <2> QED
    BY <2>1, NvTexts, Zenon
<1>3. /\ q.language = nv.language => NvShown(q).language = NvShown(nv).language
      /\ q.keyboard = nv.keyboard => NvShown(q).keyboard = NvShown(nv).keyboard
      /\ q.tf = nv.tf => NvShown(q).tf = NvShown(nv).tf
      /\ q.delay = nv.delay => NvShown(q).delay = NvShown(nv).delay
  <2>1. q.language = nv.language => NvShown(q).language = NvShown(nv).language
    BY NvTexts, Zenon
  <2>2. q.keyboard = nv.keyboard => NvShown(q).keyboard = NvShown(nv).keyboard
    BY NvTexts, Zenon
  <2>3. /\ q.tf = nv.tf => NvShown(q).tf = NvShown(nv).tf
        /\ q.delay = nv.delay => NvShown(q).delay = NvShown(nv).delay
    BY NvTexts, Zenon
  <2> QED
    BY <2>1, <2>2, <2>3
<1>4. /\ q.arb = nv.arb => NvShown(q).arb = NvShown(nv).arb
      /\ q.id = nv.id => NvShown(q).id = NvShown(nv).id
      /\ q.df = nv.df /\ q.sep = nv.sep => NvShown(q).dfmt = NvShown(nv).dfmt
  <2>1. /\ q.arb = nv.arb => NvShown(q).arb = NvShown(nv).arb
        /\ q.id = nv.id => NvShown(q).id = NvShown(nv).id
    BY NvTexts, Zenon
  <2>2. q.df = nv.df /\ q.sep = nv.sep => NvShown(q).dfmt = NvShown(nv).dfmt
    <3> DEFINE Format(d, e) == d + (CASE e = "." -> 0 [] e = "-" -> 8 [] OTHER -> 4)
    <3>1. NvShown(q).dfmt = Format(q.df, q.sep) /\ NvShown(nv).dfmt = Format(nv.df, nv.sep)
      BY NvTexts, Zenon
    <3> HIDE DEF Format
    <3> QED
      BY <3>1, Zenon
  <2> QED
    BY <2>1, <2>2, Zenon
<1>5. /\ q.vmode.planes = nv.vmode.planes => NvShown(q).planes = NvShown(nv).planes
      /\ q.vmode.pal = nv.vmode.pal => NvShown(q).hz = NvShown(nv).hz
      /\ q.vmode.st = nv.vmode.st => NvShown(q).st = NvShown(nv).st
  <2>1. q.vmode.planes = nv.vmode.planes => NvShown(q).planes = NvShown(nv).planes
    BY NvTexts, Zenon
  <2>2. q.vmode.pal = nv.vmode.pal => NvShown(q).hz = NvShown(nv).hz
    BY NvTexts, Zenon
  <2>3. q.vmode.st = nv.vmode.st => NvShown(q).st = NvShown(nv).st
    BY NvTexts, Zenon
  <2> QED
    BY <2>1, <2>2, <2>3, Zenon
<1> QED
  BY <1>1, <1>2, <1>3, <1>4, <1>5, Zenon

\* What is chosen in the NVRAM form is shown, and nothing else changes; the
\* numbers are those the keys can give (confirm).
LEMMA NvChoiceShown ==
  ASSUME NEW nv \in Nvram, NEW s \in NV_SETTINGS, NEW v,
         IF s = "arb" THEN v = 1 - nv.arb ELSE v \in NvValues(s), s = "language" => v \in 0 .. 6
  PROVE  /\ NvShown(NvChosen(nv, s, v))[s] = v
         /\ \A f \in NV_SETTINGS \ {s} : NvShown(NvChosen(nv, s, v))[f] = NvShown(nv)[f]
         /\ s # "dfmt" => NvChosen(nv, s, v).df = nv.df
<1> DEFINE q == NvChosen(nv, s, v)
<1>0. DOMAIN nv = NV_FIELDS
  BY NvIs
<1>1. CASE s \in {"language", "keyboard", "tf", "delay", "id"}
  <2>1. q = [nv EXCEPT ![s] = v]
    BY <1>1 DEF NvChosen
  <2>2. s \in NV_FIELDS
    BY <1>1 DEF NV_FIELDS
  <2> HIDE DEF q
  <2>3. q[s] = v /\ \A f \in NV_FIELDS \ {s} : q[f] = nv[f]
    BY <1>0, <2>1, <2>2
  <2>4. q.vmode = nv.vmode /\ q.arb = nv.arb /\ q.df = nv.df /\ q.sep = nv.sep
        /\ q.bootpref = nv.bootpref
    BY <1>1, <2>3 DEF NV_FIELDS
  <2>5. NvShown(q)[s] = v
    <3>1. CASE s = "language"
      BY <2>3, <3>1, NvTexts
    <3>2. CASE s = "keyboard"
      BY <2>3, <3>2, NvTexts DEF NvValues
    <3>3. CASE s \in {"tf", "delay", "id"}
      BY <2>3, <3>3, NvTexts
    <3> QED
      BY <1>1, <3>1, <3>2, <3>3
  <2>6. \A f \in NV_SETTINGS \ {s} : NvShown(q)[f] = NvShown(nv)[f]
    <3>1. \A f \in {"language", "keyboard", "tf", "delay", "id"} \ {s} : q[f] = nv[f]
      BY <2>3 DEF NV_FIELDS
    <3>2. \A f \in {"dfmt", "res", "planes", "hz", "st", "bootpref", "arb"} :
            NvShown(q)[f] = NvShown(nv)[f]
      BY <2>4, SameNvTexts
    <3>3. \A f \in {"language", "keyboard", "tf", "delay", "id"} \ {s} :
            NvShown(q)[f] = NvShown(nv)[f]
      BY <3>1, SameNvTexts
    <3> QED
      BY <3>2, <3>3 DEF NV_SETTINGS
  <2> QED
    BY <2>4, <2>5, <2>6 DEF q
<1>2. CASE s = "dfmt"
  <2>1. v \in 0 .. 11
    BY <1>2 DEF NvValues
  <2>2. q = [nv EXCEPT !.df = v % 4, !.sep = DFMT_SEP[v]]
    BY <1>2 DEF NvChosen
  <2> HIDE DEF q
  <2>3. q.df = v % 4 /\ q.sep = DFMT_SEP[v] /\ \A f \in NV_FIELDS \ {"df", "sep"} : q[f] = nv[f]
    BY <1>0, <2>2 DEF NV_FIELDS
  <2>4. q.sep = IF v < 4 THEN "." ELSE IF v < 8 THEN "/" ELSE "-"
    BY <2>1, <2>3 DEF DFMT_SEP
  <2>5. NvShown(q).dfmt = (v % 4) + (IF v < 4 THEN 0 ELSE IF v < 8 THEN 4 ELSE 8)
    BY <2>3, <2>4, NvTexts
  <2>6. NvShown(q).dfmt = v
    BY <2>1, <2>5
  <2>7. /\ q.vmode = nv.vmode /\ q.arb = nv.arb /\ q.bootpref = nv.bootpref
        /\ q.language = nv.language /\ q.keyboard = nv.keyboard /\ q.tf = nv.tf
        /\ q.delay = nv.delay /\ q.id = nv.id
    BY <2>3 DEF NV_FIELDS
  <2>8. \A f \in NV_SETTINGS \ {"dfmt"} : NvShown(q)[f] = NvShown(nv)[f]
    BY <2>7, SameNvTexts DEF NV_SETTINGS
  <2> QED
    BY <1>2, <2>6, <2>8 DEF q
<1>3. CASE s \in {"res", "planes", "hz", "st"}
  <2>0. DOMAIN nv.vmode = {"planes", "c80", "vga", "pal", "ovr", "st", "vert"}
    BY NvIs, ModeFields
  <2>1. /\ \A f \in NV_FIELDS \ {"vmode"} : q[f] = nv[f]
        /\ IF s = "res"
           THEN /\ q.vmode.c80 = VMODES_RES[v].c80 /\ q.vmode.vga = VMODES_RES[v].vga
                /\ q.vmode.ovr = VMODES_RES[v].ovr /\ q.vmode.vert = VMODES_RES[v].vert
           ELSE /\ q.vmode.c80 = nv.vmode.c80 /\ q.vmode.vga = nv.vmode.vga
                /\ q.vmode.ovr = nv.vmode.ovr /\ q.vmode.vert = nv.vmode.vert
        /\ q.vmode.planes = IF s = "planes" THEN v ELSE nv.vmode.planes
        /\ q.vmode.pal = IF s = "hz" THEN v = 0 ELSE nv.vmode.pal
        /\ q.vmode.st = IF s = "st" THEN v = 0 ELSE nv.vmode.st
    <3>2. CASE s = "res"
      <4> DEFINE m == VMODES_RES[v]
                 vm == [nv.vmode EXCEPT !.c80 = m.c80, !.vga = m.vga, !.ovr = m.ovr, !.vert = m.vert]
      <4>1. q = [nv EXCEPT !.vmode = [@ EXCEPT !.c80 = m.c80, !.vga = m.vga,
                                               !.ovr = m.ovr, !.vert = m.vert]]
        BY <3>2, Zenon DEF NvChosen
      <4>2. q = [nv EXCEPT !.vmode = vm]
        BY <4>1, Zenon
      <4> HIDE DEF q, m
      <4>3. /\ vm.c80 = m.c80 /\ vm.vga = m.vga /\ vm.ovr = m.ovr /\ vm.vert = m.vert
            /\ vm.planes = nv.vmode.planes /\ vm.pal = nv.vmode.pal /\ vm.st = nv.vmode.st
        BY <2>0
      <4> HIDE DEF vm
      <4>4. q.vmode = vm /\ \A f \in NV_FIELDS \ {"vmode"} : q[f] = nv[f]
        BY <1>0, <4>2 DEF NV_FIELDS
      <4> QED
        BY <3>2, <4>3, <4>4 DEF m
    <3>3. CASE s = "planes"
      <4>1. q = [nv EXCEPT !.vmode.planes = v]
        BY <3>3, Zenon DEF NvChosen
      <4> HIDE DEF q
      <4> QED
        BY <1>0, <2>0, <3>3, <4>1 DEF NV_FIELDS
    <3>4. CASE s = "hz"
      <4> DEFINE on == v = 0
      <4>1. q = [nv EXCEPT !.vmode.pal = on]
        BY <3>4, Zenon DEF NvChosen
      <4> HIDE DEF q, on
      <4>2. /\ \A f \in NV_FIELDS \ {"vmode"} : q[f] = nv[f]
            /\ q.vmode.c80 = nv.vmode.c80 /\ q.vmode.vga = nv.vmode.vga
            /\ q.vmode.ovr = nv.vmode.ovr /\ q.vmode.vert = nv.vmode.vert
            /\ q.vmode.planes = nv.vmode.planes /\ q.vmode.pal = on /\ q.vmode.st = nv.vmode.st
        BY <1>0, <2>0, <4>1 DEF NV_FIELDS
      <4> QED
        BY <3>4, <4>2, Zenon DEF on
    <3>5. CASE s = "st"
      <4> DEFINE on == v = 0
      <4>1. q = [nv EXCEPT !.vmode.st = on]
        BY <3>5, Zenon DEF NvChosen
      <4> HIDE DEF q, on
      <4>2. /\ \A f \in NV_FIELDS \ {"vmode"} : q[f] = nv[f]
            /\ q.vmode.c80 = nv.vmode.c80 /\ q.vmode.vga = nv.vmode.vga
            /\ q.vmode.ovr = nv.vmode.ovr /\ q.vmode.vert = nv.vmode.vert
            /\ q.vmode.planes = nv.vmode.planes /\ q.vmode.pal = nv.vmode.pal /\ q.vmode.st = on
        BY <1>0, <2>0, <4>1 DEF NV_FIELDS
      <4> QED
        BY <3>5, <4>2, Zenon DEF on
    <3> QED
      BY <1>3, <3>2, <3>3, <3>4, <3>5
  <2> HIDE DEF q
  <2>2. /\ q.arb = nv.arb /\ q.bootpref = nv.bootpref /\ q.df = nv.df /\ q.sep = nv.sep
        /\ q.language = nv.language /\ q.keyboard = nv.keyboard /\ q.tf = nv.tf
        /\ q.delay = nv.delay /\ q.id = nv.id
    BY <2>1 DEF NV_FIELDS
  <2>3. NvShown(q)[s] = v
    <3>1. CASE s = "res"
      <4>1. v \in 0 .. 11
        BY <1>0, <3>1 DEF NvValues
      <4>2. ResShown(q.vmode) = v
        BY <2>1, <3>1, <4>1, ResChosen
      <4>3. NvShown(q).res = ResShown(q.vmode)
        BY NvTexts
      <4> QED
        BY <3>1, <4>2, <4>3
    <3>2. CASE s = "planes"
      BY <2>1, <3>2, NvTexts DEF NvValues
    <3>3. CASE s = "hz"
      <4>1. q.vmode.pal <=> v = 0
        BY <2>1, <3>3, Zenon
      <4>2. v \in 0 .. 1
        BY <3>3 DEF NvValues
      <4>3. NvShown(q).hz = IF v = 0 THEN 0 ELSE 1
        BY <4>1, NvTexts, Zenon
      <4> QED
        BY <3>3, <4>2, <4>3
    <3>4. CASE s = "st"
      <4>1. q.vmode.st <=> v = 0
        BY <2>1, <3>4, Zenon
      <4>2. v \in 0 .. 1
        BY <3>4 DEF NvValues
      <4>3. NvShown(q).st = IF v = 0 THEN 0 ELSE 1
        BY <4>1, NvTexts, Zenon
      <4> QED
        BY <3>4, <4>2, <4>3
    <3> QED
      BY <1>3, <3>1, <3>2, <3>3, <3>4
  <2>4. \A f \in NV_SETTINGS \ {s} : NvShown(q)[f] = NvShown(nv)[f]
    <3>1. \A f \in NV_SETTINGS \ {"res", "planes", "hz", "st"} : NvShown(q)[f] = NvShown(nv)[f]
      BY <2>2, SameNvTexts DEF NV_SETTINGS
    <3>2. s # "res" => NvShown(q).res = NvShown(nv).res
      BY <2>1, SameNvTexts, Zenon
    <3>3. s # "planes" => NvShown(q).planes = NvShown(nv).planes
      BY <2>1, SameNvTexts, Zenon
    <3>4. s # "hz" => NvShown(q).hz = NvShown(nv).hz
      BY <2>1, SameNvTexts, Zenon
    <3>5. s # "st" => NvShown(q).st = NvShown(nv).st
      BY <2>1, SameNvTexts, Zenon
    <3> QED
      BY <3>1, <3>2, <3>3, <3>4, <3>5
  <2> QED
    BY <2>2, <2>3, <2>4 DEF q
<1>4. CASE s = "bootpref"
  <2>1. v \in 0 .. 5
    BY <1>4 DEF NvValues
  <2>2. q = [nv EXCEPT !.bootpref = code_boot_pref[v + 1]]
    BY <1>4, Zenon DEF NvChosen
  <2> HIDE DEF q
  <2>3. q.bootpref = code_boot_pref[v + 1] /\ \A f \in NV_FIELDS \ {"bootpref"} : q[f] = nv[f]
    BY <1>0, <2>2 DEF NV_FIELDS
  <2>4. /\ q.vmode = nv.vmode /\ q.arb = nv.arb /\ q.df = nv.df /\ q.sep = nv.sep
        /\ q.language = nv.language /\ q.keyboard = nv.keyboard /\ q.tf = nv.tf
        /\ q.delay = nv.delay /\ q.id = nv.id
    BY <2>3 DEF NV_FIELDS
  <2>5. NvShown(q).bootpref = v
    BY <2>1, <2>3, BootPrefChosen
  <2>6. \A f \in NV_SETTINGS \ {"bootpref"} : NvShown(q)[f] = NvShown(nv)[f]
    BY <2>4, SameNvTexts DEF NV_SETTINGS
  <2> QED
    BY <1>4, <2>4, <2>5, <2>6 DEF q
<1>5. CASE s = "arb"
  <2>1. q = [nv EXCEPT !.arb = 1 - nv.arb]
    BY <1>5, Zenon DEF NvChosen
  <2> HIDE DEF q
  <2>2. q.arb = 1 - nv.arb /\ \A f \in NV_FIELDS \ {"arb"} : q[f] = nv[f]
    BY <1>0, <2>1 DEF NV_FIELDS
  <2>3. /\ q.vmode = nv.vmode /\ q.bootpref = nv.bootpref /\ q.df = nv.df /\ q.sep = nv.sep
        /\ q.language = nv.language /\ q.keyboard = nv.keyboard /\ q.tf = nv.tf
        /\ q.delay = nv.delay /\ q.id = nv.id
    BY <2>2 DEF NV_FIELDS
  <2>4. NvShown(q).arb = v
    BY <1>5, <2>2, NvTexts
  <2>5. \A f \in NV_SETTINGS \ {"arb"} : NvShown(q)[f] = NvShown(nv)[f]
    BY <2>3, SameNvTexts DEF NV_SETTINGS
  <2> QED
    BY <1>5, <2>3, <2>4, <2>5 DEF q
<1> QED
  BY <1>1, <1>2, <1>3, <1>4, <1>5 DEF NV_SETTINGS

\* What is chosen in the CPU form is shown, and nothing else changes.
LEMMA CpuChoiceShown ==
  ASSUME NEW c, IsCpu(c), NEW s \in {"fpu", "blit"}, NEW v \in 0 .. 1
  PROVE  /\ CpuShown(CpuChosen(c, s, v))[s] = v
         /\ \A f \in {"fpu", "blit", "freq"} \ {s} :
              CpuShown(CpuChosen(c, s, v))[f] = CpuShown(c)[f]
<1>1. CASE s = "fpu"
  <2>1. CpuChosen(c, s, v) = [c EXCEPT !.fpu = 1 - v]
    BY <1>1 DEF CpuChosen
  <2> QED
    BY <1>1, <2>1 DEF IsCpu, CpuShown
<1>2. CASE s = "blit"
  <2>1. CpuChosen(c, s, v) = [c EXCEPT !.blit = v]
    BY <1>2 DEF CpuChosen
  <2> QED
    BY <1>2, <2>1 DEF IsCpu, CpuShown
<1> QED
  BY <1>1, <1>2

\* So it is in the BOOT form.
LEMMA BootChoiceShown ==
  ASSUME NEW b, IsBoot(b), NEW s \in {"newboot", "order", "log", "tos", "pciide"}, NEW v,
         IF s = "order" THEN v \in 0 .. 3 ELSE v = 1 - BootShown(b)[s]
  PROVE  /\ BootShown(BootChosen(b, s, v))[s] = v
         /\ \A f \in {"newboot", "order", "log", "tos", "pciide"} \ {s} :
              BootShown(BootChosen(b, s, v))[f] = BootShown(b)[f]
<1> DEFINE q == BootChosen(b, s, v)
<1>1. CASE s = "newboot"
  <2> DEFINE d == IF b.devs >= 4 THEN b.devs - 4 ELSE b.devs + 4
  <2>1. (d >= 4 <=> b.devs < 4) /\ d % 4 = b.devs % 4
    <3>1. b.devs \in {0, 1, 2, 3, 4, 5, 6, 7}
      BY DEF IsBoot
    <3> QED
      BY <3>1
  <2>2. q = [b EXCEPT !.devs = d]
    BY <1>1 DEF BootChosen
  <2> HIDE DEF d, q
  <2>3. q.devs = d /\ q.log = b.log /\ q.tos = b.tos /\ q.pciide = b.pciide
    BY <2>2 DEF IsBoot
  <2>4. b.devs \in 0 .. 7
    BY DEF IsBoot
  <2> QED
    BY <1>1, <2>1, <2>3, <2>4 DEF BootShown, q
<1>2. CASE s = "order"
  <2> DEFINE d == 4 * (b.devs \div 4) + v
  <2>1. (d >= 4 <=> b.devs >= 4) /\ d % 4 = v
    BY <1>2 DEF IsBoot
  <2>2. q = [b EXCEPT !.devs = d]
    BY <1>2 DEF BootChosen
  <2> HIDE DEF d, q
  <2>3. q.devs = d /\ q.log = b.log /\ q.tos = b.tos /\ q.pciide = b.pciide
    BY <2>2 DEF IsBoot
  <2> QED
    BY <1>2, <2>1, <2>3 DEF BootShown, q
<1>3. CASE s \in {"log", "tos", "pciide"}
  <2>1. q = [b EXCEPT ![s] = 1 - b[s]]
    BY <1>3 DEF BootChosen
  <2> HIDE DEF q
  <2>2. q[s] = 1 - b[s] /\ q.devs = b.devs /\ \A f \in {"log", "tos", "pciide"} \ {s} : q[f] = b[f]
    BY <1>3, <2>1 DEF IsBoot
  <2>3. b.log \in 0 .. 1 /\ b.tos \in 0 .. 1 /\ b.pciide \in 0 .. 1
    BY DEF IsBoot
  <2> QED
    BY <1>3, <2>2, <2>3 DEF BootShown, q
<1> QED
  BY <1>1, <1>2, <1>3

\* The date the clock takes differs from the one it had in the field that was
\* set, or not at all; GEMDOS takes no date that is none.
LEMMA ClockSet ==
  ASSUME NEW t, DOMAIN t = RTC, NEW f \in RTC, NEW v
  PROVE  LET new == [t EXCEPT ![f] = v]
         IN  /\ DOMAIN new = RTC /\ new[f] = v /\ \A g \in RTC \ {f} : new[g] = t[g]
             /\ Tsetdate(t, new) \in {t, new}
BY DEF Tsetdate

\* What is chosen for the date and the time is shown, if it can be taken, and
\* nothing else changes.
LEMMA DateChoiceShown ==
  ASSUME DOMAIN rtc = RTC, NEW x, NEW s \in DATE, NEW v
  PROVE  LET now == DateShown(x.nv, rtc)
             new == DateShown(x.nv, NewClock(x, s, v))
         IN  /\ new[s] \in (IF InRange(FieldOf(x.nv, s), v) THEN {v} ELSE {now[s]})
                              \cup (IF s \in {"date1", "date2", "year"} THEN {now[s]} ELSE {})
             /\ \A f \in DATE \ {s} : new[f] = now[f]
             /\ DOMAIN NewClock(x, s, v) = RTC
<1> DEFINE f == FieldOf(x.nv, s)
           c == NewClock(x, s, v)
           set == [rtc EXCEPT ![f] = v]
<1>1. /\ FieldOf(x.nv, "date1") \in {"day", "month"} /\ FieldOf(x.nv, "date2") \in {"day", "month"}
      /\ FieldOf(x.nv, "date1") # FieldOf(x.nv, "date2")
      /\ FieldOf(x.nv, "year") = "year" /\ FieldOf(x.nv, "hour") = "hour"
      /\ FieldOf(x.nv, "minute") = "minute"
  BY DEF FieldOf
<1>2. \A g, h \in DATE : g # h => FieldOf(x.nv, g) # FieldOf(x.nv, h)
  BY <1>1 DEF DATE
<1>3. \A g \in DATE : FieldOf(x.nv, g) \in RTC
  BY <1>1 DEF DATE, RTC
<1>4. \A t : DOMAIN DateShown(x.nv, t) = DATE
             /\ \A g \in DATE : DateShown(x.nv, t)[g] = t[FieldOf(x.nv, g)]
  BY <1>1 DEF DateShown, DATE
<1>5. /\ ~InRange(f, v) => c = rtc
      /\ InRange(f, v) /\ f \in {"hour", "minute"} => c = set
      /\ f \notin {"hour", "minute"} => c \in {rtc, set}
  <2>1. s \in DOMAIN DateShown(x.nv, rtc)
    BY <1>4
  <2>2. c = IF ~InRange(f, v) THEN rtc
            ELSE IF f \in {"hour", "minute"} THEN set ELSE Tsetdate(rtc, set)
    BY <2>1, Zenon DEF NewClock
  <2>3. Tsetdate(rtc, set) \in {rtc, set}
    BY <1>3, ClockSet
  <2> HIDE DEF c, set, f
  <2> QED
    BY <2>2, <2>3, Zenon
<1>6. DOMAIN set = RTC /\ set[f] = v /\ \A g \in RTC \ {f} : set[g] = rtc[g]
  BY <1>3, ClockSet
<1>7. s \notin {"date1", "date2", "year"} => f \in {"hour", "minute"}
  BY <1>1 DEF DATE
<1> HIDE DEF c, set
<1>8. c \in {rtc, set} /\ DOMAIN c = RTC
  BY <1>5, <1>6, Zenon
<1>9. \A g \in DATE \ {s} : c[FieldOf(x.nv, g)] = rtc[FieldOf(x.nv, g)]
  <2> SUFFICES ASSUME NEW g \in DATE \ {s} PROVE c[FieldOf(x.nv, g)] = rtc[FieldOf(x.nv, g)]
    OBVIOUS
  <2>1. FieldOf(x.nv, g) \in RTC \ {f}
    BY <1>2, <1>3
  <2> HIDE DEF f
  <2> QED
    BY <1>6, <1>8, <2>1
<1>10. \/ c[f] = v /\ InRange(f, v)
       \/ c[f] = rtc[f] /\ (~InRange(f, v) \/ s \in {"date1", "date2", "year"})
  <2> HIDE DEF f
  <2> QED
    BY <1>5, <1>6, <1>7
<1>11. /\ DateShown(x.nv, c)[s] = c[f] /\ DateShown(x.nv, rtc)[s] = rtc[f]
       /\ \A g \in DATE \ {s} : DateShown(x.nv, c)[g] = DateShown(x.nv, rtc)[g]
  BY <1>4, <1>9
<1> HIDE DEF f
<1>12. DateShown(x.nv, c)[s] \in (IF InRange(f, v) THEN {v} ELSE {DateShown(x.nv, rtc)[s]})
         \cup (IF s \in {"date1", "date2", "year"} THEN {DateShown(x.nv, rtc)[s]} ELSE {})
  BY <1>10, <1>11
<1> QED
  BY <1>8, <1>11, <1>12, Zenon DEF c, f

\* what ShowsChoice says of a value v chosen for the setting s
Showing(s, v, now, new) ==
  /\ new[s] \in (IF Kind(s) = "INPUT" => InRange(FieldOf(su.nv, s), v) THEN {v} ELSE {now[s]})
                  \cup (IF s \in {"date1", "date2", "year"} THEN {now[s]} ELSE {})
  /\ \A f \in DOMAIN now \ {s} : new[f] = now[f] \/ (s = "dfmt" /\ f \in {"date1", "date2"})

\* The texts of the NVRAM form are those of the copy and those of the clock.
LEMMA NvramTexts ==
  ASSUME NEW x, x.row = 1, NEW t
  PROVE  /\ DOMAIN TextsOf(x, t) = NV_SETTINGS \cup DATE
         /\ \A f \in NV_SETTINGS : TextsOf(x, t)[f] = NvShown(x.nv)[f]
         /\ \A f \in DATE : TextsOf(x, t)[f] = DateShown(x.nv, t)[f]
<1>1. DOMAIN NvShown(x.nv) = NV_SETTINGS /\ DOMAIN DateShown(x.nv, t) = DATE
  BY NvTexts DEF DateShown, DATE
<1>2. TextsOf(x, t) = [f \in DOMAIN NvShown(x.nv) \cup DOMAIN DateShown(x.nv, t) |->
                         IF f \in DOMAIN NvShown(x.nv) THEN NvShown(x.nv)[f]
                         ELSE DateShown(x.nv, t)[f]]
  BY SMTT(30) DEF TextsOf
<1>3. DATE \cap NV_SETTINGS = {}
  BY DEF DATE, NV_SETTINGS
<1> QED
  BY <1>1, <1>2, <1>3

\* The date and the time depend on the format of the date and on nothing else
\* of the NVRAM.
LEMMA DateTexts ==
  ASSUME NEW nv, NEW q, NEW t
  PROVE  /\ q.df = nv.df => DateShown(q, t) = DateShown(nv, t)
         /\ \A f \in {"year", "hour", "minute"} : DateShown(q, t)[f] = DateShown(nv, t)[f]
BY DEF DateShown, FieldOf, DayFirst

\* A value chosen in the NVRAM form.
LEMMA NvramValueShown ==
  ASSUME machine \in Machine, IsSetup(su), DOMAIN rtc = RTC, su.row = 1, NEW v,
         NEW s \in NV_SETTINGS \cup DATE, NewValue(s, v),
         Kind(s) = "LIST" => v \in 0 .. ListLen(s) - 1,
         Kind(s) = "BOOL" => v = 1 - TextsOf(su, rtc)[s]
  PROVE  Showing(s, v, TextsOf(su, rtc), TextsOf(su', rtc')) /\ DOMAIN rtc' = RTC
<1> DEFINE now == TextsOf(su, rtc)
           new == TextsOf(su', rtc')
           c == Confirmed(su, s, v)
<1>1. DOMAIN su = SETUP_FIELDS /\ su.nv \in Nvram
  BY DEF IsSetup, Edited
<1>2. su' = [c EXCEPT !.st = "FORM_SELECT", !.list = 0] /\ rtc' = NewClock(su, s, v)
  BY DEF NewValue
<1>3. DOMAIN DateShown(su.nv, rtc) = DATE
  BY DEF DateShown, DATE
<1>4. c = IF s \in DATE \/ (Kind(s) = "INPUT" /\ ~InRange(s, v)) THEN su
          ELSE [su EXCEPT !.nv = NvChosen(su.nv, s, v)]
  BY <1>3, SMTT(30) DEF Confirmed
<1>5. /\ su'.row = 1
      /\ su'.nv = IF s \in DATE \/ (Kind(s) = "INPUT" /\ ~InRange(s, v)) THEN su.nv
                  ELSE NvChosen(su.nv, s, v)
  <2> HIDE DEF c
  <2>1. DOMAIN c = SETUP_FIELDS /\ c.row = su.row
        /\ c.nv = IF s \in DATE \/ (Kind(s) = "INPUT" /\ ~InRange(s, v)) THEN su.nv
                  ELSE NvChosen(su.nv, s, v)
    BY <1>1, <1>4 DEF SETUP_FIELDS
  <2> QED
    BY <1>2, <2>1 DEF SETUP_FIELDS
<1>6. /\ DOMAIN now = NV_SETTINGS \cup DATE
      /\ \A f \in NV_SETTINGS : now[f] = NvShown(su.nv)[f] /\ new[f] = NvShown(su'.nv)[f]
      /\ \A f \in DATE : now[f] = DateShown(su.nv, rtc)[f] /\ new[f] = DateShown(su'.nv, rtc')[f]
  BY <1>5, NvramTexts
<1>7. NV_SETTINGS \cap DATE = {} /\ {"date1", "date2", "year"} \subseteq DATE
  BY DEF NV_SETTINGS, DATE
<1> HIDE DEF now, new, c
<1>8. CASE s \in DATE
  <2>1. su'.nv = su.nv /\ rtc' = NewClock(su, s, v)
    BY <1>2, <1>5, <1>8
  <2>2. Kind(s) = "INPUT"
    BY <1>8, KindIs DEF DATE
  <2>3. /\ new[s] \in (IF InRange(FieldOf(su.nv, s), v) THEN {v} ELSE {now[s]})
                        \cup (IF s \in {"date1", "date2", "year"} THEN {now[s]} ELSE {})
        /\ \A f \in DATE \ {s} : new[f] = now[f]
        /\ DOMAIN rtc' = RTC
    <3>1. LET old == DateShown(su.nv, rtc)
              young == DateShown(su.nv, NewClock(su, s, v))
          IN  /\ young[s] \in (IF InRange(FieldOf(su.nv, s), v) THEN {v} ELSE {old[s]})
                                \cup (IF s \in {"date1", "date2", "year"} THEN {old[s]} ELSE {})
              /\ \A f \in DATE \ {s} : young[f] = old[f]
              /\ DOMAIN NewClock(su, s, v) = RTC
      BY <1>8, DateChoiceShown, Zenon
    <3> QED
      BY <1>6, <1>8, <2>1, <3>1
  <2>4. \A f \in NV_SETTINGS : new[f] = now[f]
    BY <1>6, <2>1
  <2> QED
    BY <1>6, <2>2, <2>3, <2>4 DEF Showing, now, new
<1>9. CASE s \in NV_SETTINGS
  <2>1. rtc' = rtc
    BY <1>2, <1>3, <1>7, <1>9, Zenon DEF NewClock
  <2>2. FieldOf(su.nv, s) = s
    BY <1>9 DEF FieldOf, NV_SETTINGS
  <2>3. CASE Kind(s) = "INPUT" /\ ~InRange(s, v)
    <3>1. su'.nv = su.nv
      BY <1>5, <2>3
    <3>2. \A f \in NV_SETTINGS \cup DATE : new[f] = now[f]
      BY <1>6, <2>1, <3>1
    <3> QED
      BY <1>6, <1>9, <2>1, <2>2, <2>3, <3>2 DEF Showing, now, new
  <2>4. CASE ~(Kind(s) = "INPUT" /\ ~InRange(s, v))
    <3>1. su'.nv = NvChosen(su.nv, s, v)
      BY <1>5, <1>7, <1>9, <2>4
    <3>2. s # "arb" => v \in NvValues(s)
      <4>1. CASE s \in {"delay", "id"}
        BY <2>4, <4>1, KindIs DEF InRange, NvValues
      <4>2. CASE s \in NV_SETTINGS \ {"delay", "id", "arb"}
        <5>1. Kind(s) = "LIST"
          BY <4>2, KindIs DEF NV_SETTINGS
        <5> QED
          BY <4>2, <5>1 DEF ListLen, NvValues, NV_SETTINGS
      <4> QED
        BY <1>9, <4>1, <4>2
    <3>3. s = "arb" => v = 1 - su.nv.arb
      <4>1. s = "arb" => v = 1 - now.arb
        BY KindIs DEF now
      <4>2. s = "arb" => now.arb = su.nv.arb
        BY <1>6, <1>9, NvTexts
      <4> QED
        BY <4>1, <4>2
    <3>4. s = "language" => v \in 0 .. 6
      <4>1. Kind("language") = "LIST" /\ ListLen("language") = 6
        BY KindIs DEF ListLen
      <4> QED
        BY <4>1
    <3>5. /\ NvShown(su'.nv)[s] = v
          /\ \A f \in NV_SETTINGS \ {s} : NvShown(su'.nv)[f] = NvShown(su.nv)[f]
          /\ s # "dfmt" => su'.nv.df = su.nv.df
      BY <1>1, <1>9, <3>1, <3>2, <3>3, <3>4, NvChoiceShown
    <3>6. new[s] = v /\ \A f \in NV_SETTINGS \ {s} : new[f] = now[f]
      BY <1>6, <1>9, <3>5
    <3>7. \A f \in DATE : new[f] = now[f] \/ (s = "dfmt" /\ f \in {"date1", "date2"})
      <4>1. \A f \in DATE : /\ now[f] = DateShown(su.nv, rtc)[f]
                            /\ new[f] = DateShown(su'.nv, rtc)[f]
        BY <1>6, <2>1
      <4>2. s # "dfmt" => DateShown(su'.nv, rtc) = DateShown(su.nv, rtc)
        BY <3>5, DateTexts
      <4>3. \A f \in {"year", "hour", "minute"} :
              DateShown(su'.nv, rtc)[f] = DateShown(su.nv, rtc)[f]
        BY DateTexts
      <4> QED
        BY <4>1, <4>2, <4>3 DEF DATE
    <3> QED
      BY <1>6, <2>1, <2>2, <2>4, <3>6, <3>7 DEF Showing, now, new
  <2> QED
    BY <2>3, <2>4
<1> QED
  BY <1>8, <1>9

\* A value chosen in any form.
LEMMA ValueShown ==
  ASSUME machine \in Machine, IsSetup(su), su.st # "MENU", DOMAIN rtc = RTC, NEW v, NEW s,
         s = Setting(su), Kind(s) # "FUNC", NewValue(s, v),
         Kind(s) = "LIST" => v \in 0 .. ListLen(s) - 1,
         Kind(s) = "BOOL" => v = 1 - TextsOf(su, rtc)[s],
         Kind(s) = "UPDOWN" => v = su.cpu.freq
  PROVE  Showing(s, v, TextsOf(su, rtc), TextsOf(su', rtc')) /\ DOMAIN rtc' = RTC
<1> DEFINE c == Confirmed(su, s, v)
<1>1. /\ DOMAIN su = SETUP_FIELDS /\ su.nv \in Nvram /\ IsCpu(su.cpu) /\ IsBoot(su.boot)
      /\ su.row \in 1 .. NUM_MENU_ENTRIES /\ su.sel \in 1 .. Len(FormOf(su.row))
  BY DEF IsSetup, Edited, InForms
<1>2. s \notin {"reload", "save"} \cup Range(machine.exits)
  BY KindIs
<1>3. su' = [c EXCEPT !.st = "FORM_SELECT", !.list = 0] /\ rtc' = NewClock(su, s, v)
  BY DEF NewValue
<1>4. /\ su.row = 1 => s \in NV_SETTINGS \cup DATE
      /\ su.row = 4 => s \in {"fpu", "blit", "freq"}
      /\ su.row = 7 => s \in {"newboot", "order", "log", "tos", "pciide"}
      /\ su.row \in {1, 4, 7}
  BY <1>1, <1>2, SettingIs DEF FORMS, DATE
<1>5. CASE su.row = 1
  BY <1>4, <1>5, NvramValueShown
<1>6. CASE su.row = 4
  <2>1. rtc' = rtc
    <3>1. s \notin DOMAIN DateShown(su.nv, rtc)
      BY <1>4, <1>6 DEF DateShown
    <3> QED
      BY <1>3, <3>1, Zenon DEF NewClock
  <2>2. TextsOf(su, rtc) = CpuShown(su.cpu)
    BY <1>6 DEF TextsOf
  <2>3. c = IF s = "freq" THEN [su EXCEPT !.cpu.text = su.cpu.freq]
            ELSE [su EXCEPT !.cpu = CpuChosen(su.cpu, s, v)]
    BY <1>6 DEF Confirmed
  <2> HIDE DEF c
  <2>4. DOMAIN c = SETUP_FIELDS /\ c.row = 4
        /\ c.cpu = IF s = "freq" THEN [su.cpu EXCEPT !.text = su.cpu.freq]
                   ELSE CpuChosen(su.cpu, s, v)
    BY <1>1, <1>6, <2>3 DEF SETUP_FIELDS
  <2>5. su'.row = 4 /\ su'.cpu = c.cpu
    BY <1>3, <2>4 DEF SETUP_FIELDS
  <2>6. TextsOf(su', rtc') = CpuShown(su'.cpu)
    BY <2>5 DEF TextsOf
  <2>7. DOMAIN CpuShown(su.cpu) = {"fpu", "blit", "freq"}
    BY DEF CpuShown
  <2>8. Kind(s) # "INPUT" /\ s # "dfmt" /\ s \notin {"date1", "date2", "year"}
    BY <1>4, <1>6, KindIs
  <2>9. /\ CpuShown(su'.cpu)[s] = v
        /\ \A f \in {"fpu", "blit", "freq"} \ {s} : CpuShown(su'.cpu)[f] = CpuShown(su.cpu)[f]
    <3>1. CASE s = "freq"
      <4>1. v = su.cpu.freq
        BY <3>1, KindIs
      <4> QED
        BY <1>1, <2>4, <2>5, <3>1, <4>1 DEF CpuShown, IsCpu
    <3>2. CASE s \in {"fpu", "blit"}
      <4>1. v \in 0 .. 1
        <5>1. Kind(s) = "LIST" /\ ListLen(s) = 2
          BY <3>2, KindIs DEF ListLen
        <5> QED
          BY <5>1
      <4>2. su'.cpu = CpuChosen(su.cpu, s, v)
        BY <2>4, <2>5, <3>2
      <4> QED
        BY <1>1, <3>2, <4>1, <4>2, CpuChoiceShown
    <3> QED
      BY <1>4, <1>6, <3>1, <3>2
  <2> QED
    BY <2>1, <2>2, <2>6, <2>7, <2>8, <2>9 DEF Showing
<1>7. CASE su.row = 7
  <2>1. rtc' = rtc
    <3>1. s \notin DOMAIN DateShown(su.nv, rtc)
      BY <1>4, <1>7 DEF DateShown
    <3> QED
      BY <1>3, <3>1, Zenon DEF NewClock
  <2>2. TextsOf(su, rtc) = BootShown(su.boot)
    BY <1>7 DEF TextsOf
  <2>3. c = [su EXCEPT !.boot = BootChosen(su.boot, s, v)]
    BY <1>7 DEF Confirmed
  <2> HIDE DEF c
  <2>4. DOMAIN c = SETUP_FIELDS /\ c.row = 7 /\ c.boot = BootChosen(su.boot, s, v)
    BY <1>1, <1>7, <2>3 DEF SETUP_FIELDS
  <2>5. su'.row = 7 /\ su'.boot = c.boot
    BY <1>3, <2>4 DEF SETUP_FIELDS
  <2>6. TextsOf(su', rtc') = BootShown(su'.boot)
    BY <2>5 DEF TextsOf
  <2>7. DOMAIN BootShown(su.boot) = {"newboot", "order", "log", "tos", "pciide"}
    BY DEF BootShown
  <2>8. Kind(s) # "INPUT" /\ s # "dfmt" /\ s \notin {"date1", "date2", "year"}
    BY <1>4, <1>7, KindIs
  <2>9. IF s = "order" THEN v \in 0 .. 3 ELSE v = 1 - BootShown(su.boot)[s]
    <3>1. CASE s = "order"
      <4>1. Kind("order") = "LIST" /\ ListLen("order") = 4
        BY KindIs DEF ListLen
      <4> QED
        BY <3>1, <4>1
    <3>2. CASE s # "order"
      <4>1. Kind(s) = "BOOL"
        BY <1>4, <1>7, <3>2, KindIs
      <4> QED
        BY <2>2, <3>2, <4>1
    <3> QED
      BY <3>1, <3>2
  <2>10. /\ BootShown(su'.boot)[s] = v
         /\ \A f \in {"newboot", "order", "log", "tos", "pciide"} \ {s} :
              BootShown(su'.boot)[f] = BootShown(su.boot)[f]
    BY <1>1, <1>4, <1>7, <2>4, <2>5, <2>9, BootChoiceShown
  <2> QED
    BY <2>1, <2>2, <2>6, <2>7, <2>8, <2>10 DEF Showing
<1> QED
  BY <1>4, <1>5, <1>6, <1>7

\* No step of the panel confirms a value in a form.
LEMMA PanelConfirmsNothing ==
  ASSUME PanelSession
  PROVE  ev'.op # "confirm" /\ rtc' = rtc
<1>1. rtc' = rtc
  BY DEF PanelSession
<1>2. \/ OpenPanel \/ SelectPage(Present.page) \/ Control \/ cpx_key \/ Scroll \/ Load
      \/ Calibrate \/ (\E clicks \in {1, 2} : Save(clicks)) \/ Ok \/ Cancel
  BY Zenon DEF PanelSession
<1>3. ASSUME NEW p, Accept(p) PROVE ev'.op # "confirm"
  <2>1. PICK failed, err, alert :
          ev' = [op |-> "ok", freq |-> p.freq, failed |-> failed, clock |-> err, alert |-> alert]
    BY <1>3, Zenon DEF Accept
  <2> QED
    BY <2>1
<1>4. CASE \E clicks \in {1, 2} : Save(clicks)
  <2>1. \/ \E clock : ev' = [op |-> "save", clock |-> clock]
        \/ Accept(Raised(pn))
        \/ \E err, f : ev' = [op |-> "eeprom", clock |-> err, freq |-> f]
    BY <1>4, Zenon DEF Save, SaveClock, SaveNoClock, NotProgrammed
  <2> QED
    BY <1>1, <1>3, <2>1
<1>5. CASE OpenPanel \/ SelectPage(Present.page) \/ Control \/ cpx_key \/ Scroll
  <2>1. \E op \in {"open", "page", "control", "scroll"} : ev' = [op |-> op]
    BY <1>5, Zenon DEF OpenPanel, SelectPage, Control, cpx_key, Scroll
  <2> QED
    BY <1>1, <2>1
<1>6. CASE Load \/ Cancel \/ Calibrate
  <2>1. \E op \in {"load", "cancel", "calibrate"} : ev' = [op |-> op]
    BY <1>6, Zenon DEF Load, Cancel, Calibrate
  <2> QED
    BY <1>1, <2>1
<1>7. CASE Ok
  BY <1>1, <1>3, <1>7, Zenon DEF Ok
<1> QED
  BY <1>1, <1>2, <1>4, <1>5, <1>6, <1>7

\* Every step of the setup that confirms a value shows it.
LEMMA SetupShowsChoice ==
  ASSUME Inv, DOMAIN rtc = RTC, SetupSession
  PROVE  /\ DOMAIN rtc' = RTC
         /\ ev'.op = "confirm" => Showing(ev'.s, ev'.v, TextsOf(su, rtc), TextsOf(su', rtc'))
<1> DEFINE Done == /\ DOMAIN rtc' = RTC
                   /\ ev'.op = "confirm"
                        => Showing(ev'.s, ev'.v, TextsOf(su, rtc), TextsOf(su', rtc'))
<1>1. ASSUME NEW op, op # "confirm", ev'.op = op, rtc' = rtc PROVE Done
  BY <1>1
<1>2. ASSUME NEW x, GoTo(x) \/ At(x) PROVE Done
  BY <1>2 DEF GoTo, At
<1>3. CASE StartSetup
  BY <1>2, <1>3 DEF StartSetup
<1>4. CASE ~StartSetup
  <2>1. su.open /\ (\/ MenuKey \/ FormKey \/ ListKey \/ UpDownKey \/ (\E d : StepKey(d))
                    \/ (\E s : Enter(s)) \/ (\E how : Exit(how)))
    BY <1>4, Zenon DEF SetupSession, MenuKey, FormKey, ListKey, UpDownKey, StepKey, Enter, Exit, InForm
  <2>2. IsSetup(su) /\ machine \in Machine
    BY <2>1 DEF Inv, Off
  <2>3. ASSUME NEW s, NEW v, s = Setting(su), su.st # "MENU", Kind(s) # "FUNC", NewValue(s, v),
               Kind(s) = "LIST" => v \in 0 .. ListLen(s) - 1,
               Kind(s) = "BOOL" => v = 1 - TextsOf(su, rtc)[s],
               Kind(s) = "UPDOWN" => v = su.cpu.freq
        PROVE  Done
    <3>1. Showing(s, v, TextsOf(su, rtc), TextsOf(su', rtc')) /\ DOMAIN rtc' = RTC
      BY <2>2, <2>3, ValueShown
    <3>2. ev' = [op |-> "confirm", s |-> s, v |-> v]
      BY <2>3 DEF NewValue
    <3>3. ev'.s = s /\ ev'.v = v
      BY <3>2
    <3> QED
      BY <3>1, <3>3, Zenon
  <2>4. CASE MenuKey
    BY <1>2, <2>4, Zenon DEF MenuKey
  <2>5. CASE FormKey
    BY <1>2, <2>5, Zenon DEF FormKey
  <2>6. CASE ListKey
    <3>1. CASE NewValue(Setting(su), su.list)
      <4>1. su.st = "FORM_LIST"
        BY <2>6 DEF ListKey, InForm
      <4>2. Kind(Setting(su)) = "LIST" /\ su.list \in 0 .. ListLen(Setting(su)) - 1
        BY <2>2, <4>1 DEF IsSetup, InForms
      <4> QED
        BY <2>3, <3>1, <4>1, <4>2
    <3> QED
      BY <1>2, <2>6, <3>1, Zenon DEF ListKey
  <2>7. CASE UpDownKey
    <3>1. CASE NewValue("freq", su.cpu.freq)
      <4>1. su.st = "FORM_UPDOWN"
        BY <2>7 DEF UpDownKey, InForm
      <4>2. Setting(su) = "freq"
        BY <2>2, <4>1 DEF IsSetup, InForms
      <4>3. Kind("freq") = "UPDOWN"
        BY <2>2, KindIs
      <4> QED
        BY <2>3, <3>1, <4>1, <4>2, <4>3
    <3> QED
      BY <1>2, <2>7, <3>1, Zenon DEF UpDownKey
  <2>8. CASE \E d : StepKey(d)
    BY <1>2, <2>8, Zenon DEF StepKey
  <2>9. CASE \E how : Exit(how)
    BY <1>1, <2>9 DEF Exit
  <2>10. CASE \E s : Enter(s)
    <3>1. PICK s : Enter(s)
      BY <2>10
    <3>2. s = Setting(su) /\ su.st # "MENU"
      BY <3>1 DEF Enter, InForm
    <3>3. CASE Kind(s) = "INPUT" /\ \E v \in Typed[s] : NewValue(s, v)
      BY <2>3, <3>2, <3>3
    <3>4. CASE Kind(s) = "BOOL" /\ NewValue(s, 1 - TextsOf(su, rtc)[s])
      BY <2>3, <3>2, <3>4
    <3>5. CASE ReloadForm
      BY <3>5 DEF ReloadForm
    <3>6. CASE SaveForm
      <4>1. rtc' = rtc
        BY <3>6 DEF SaveForm
      <4>2. \/ ev' = [op |-> "nvsave"] \/ ev' = [op |-> "nosave"]
            \/ \E err, failed : ev' = [op |-> "cpusave", err |-> err, failed |-> failed]
            \/ \E failed : ev' = [op |-> "bootsave", failed |-> failed]
        BY <3>6, Zenon DEF SaveForm, saveFormCpu, saveToBoot
      <4> QED
        BY <4>1, <4>2
    <3> QED
      BY <1>2, <3>1, <3>3, <3>4, <3>5, <3>6, Zenon DEF Enter
  <2> QED
    BY <2>1, <2>4, <2>5, <2>6, <2>7, <2>8, <2>9, <2>10
<1> QED
  BY <1>3, <1>4

\* What is chosen in a form of the setup is what it then shows, and nothing
\* else in it changes, for every form, number typed and entry of a list, in
\* any session (confirm, GEMDOS Tsetdate and Tsettime).
THEOREM ChoicesAreShown == Spec => ShowsChoice
<1> DEFINE Dated == DOMAIN rtc = RTC
           Step == ev'.op = "confirm"
                     => Showing(ev'.s, ev'.v, TextsOf(su, rtc), TextsOf(su', rtc'))
<1>1. Init => Dated
  BY DEF Init, Clock, RTC
<1>2. Inv /\ Dated /\ [Next]_vars => Dated' /\ [Step]_vars
  <2> SUFFICES ASSUME Inv, Dated, [Next]_vars PROVE Dated' /\ [Step]_vars
    OBVIOUS
  <2>1. CASE PanelSession
    BY <2>1, PanelConfirmsNothing
  <2>2. CASE SetupSession
    BY <2>2, SetupShowsChoice
  <2>3. CASE \E how \in {"none", "restart", "power"} : Between(how)
    BY <2>3 DEF Between
  <2>4. CASE UNCHANGED vars
    BY <2>4 DEF vars
  <2> QED
    BY <2>1, <2>2, <2>3, <2>4 DEF Next
<1>3. [Step]_vars => [ev'.op = "confirm"
       => LET now == TextsOf(su, rtc)
              new == TextsOf(su', rtc')
              s   == ev'.s
              Taken == Kind(s) = "INPUT" => InRange(FieldOf(su.nv, s), ev'.v)
          IN  /\ new[s] \in (IF Taken THEN {ev'.v} ELSE {now[s]})
                              \cup (IF s \in {"date1", "date2", "year"} THEN {now[s]} ELSE {})
              /\ \A f \in DOMAIN now \ {s} :
                   new[f] = now[f] \/ (s = "dfmt" /\ f \in {"date1", "date2"})]_vars
  BY Zenon DEF Showing
<1> QED
  BY Invariant, <1>1, <1>2, <1>3, PTL DEF Spec, ShowsChoice

-----------------------------------------------------------------------------
(* Texts and the words they stand for: read_number is a recursion over the *)
(* digits, followed here digit by digit.                                   *)
\* Numbers of sixteen bits.
LEMMA WordIs ==
  /\ WORD \in Nat \ {0} /\ 0 \in WORDS
  /\ \A n \in WORDS : n \in Nat
  /\ \A a \in Nat : a % WORD \in WORDS
<1>1. WORD \in Nat \ {0}
  BY SMT DEF WORD
<1>2. 0 \in WORDS
  BY <1>1, SMT DEF WORDS
<1>3. \A n \in WORDS : n \in Nat
  BY <1>1, SMT DEF WORDS
<1>4. \A a \in Nat : a % WORD \in WORDS
  BY <1>1, SMT DEF WORDS
<1> QED
  BY <1>1, <1>2, <1>3, <1>4, Zenon

\* The largest of them, which are left as they are.
LEMMA WordMost ==
  /\ \A n \in WORDS : n <= 65535
  /\ \A a \in Nat : a <= 65535 => a % WORD = a
<1>1. \A n \in WORDS : n <= 65535
  BY SMT DEF WORDS, WORD
<1>2. \A a \in Nat : a <= 65535 => a % WORD = a
  BY SMT DEF WORD
<1> QED
  BY <1>1, <1>2, SMT

\* The number of each part of a text's digits.
LEMMA ValueIs ==
  ASSUME NEW text \in SvText
  PROVE  \E v : LET base == IF text.hex THEN 16 ELSE 10
                IN  /\ v[0] = 0
                    /\ \A n \in 1 .. Len(text.digits) :
                         v[n] = (v[n - 1] * base + text.digits[n]) % WORD
                    /\ read_number(text) = IF \E i \in DOMAIN text.digits : text.digits[i] >= base
                                           THEN 0 ELSE v[Len(text.digits)]
<1> DEFINE ds == text.digits
           L == Len(text.digits)
           base == IF text.hex THEN 16 ELSE 10
           Next_(x, n) == (x * base + ds[n]) % WORD
           Loop(f) == [n \in 0 .. L |-> IF n = 0 THEN 0 ELSE Next_(f[n - 1], n)]
           value == CHOOSE f : f = Loop(f)
           Upto(n, f) == f[0] = 0 /\ \A k \in 1 .. n : f[k] = Next_(f[k - 1], k)
           S == {n \in Nat : n <= L => \E f : Upto(n, f)}
<1>0. L \in Nat
  BY DEF SvText
<1>7. read_number(text) = IF \E i \in DOMAIN text.digits : text.digits[i] >= base
                          THEN 0 ELSE value[L]
  BY Zenon DEF read_number
<1> HIDE DEF L, Next_
<1>1. 0 \in S
  <2> DEFINE f == [n \in {0} |-> 0]
  <2>1. Upto(0, f)
    OBVIOUS
  <2> QED
    BY <2>1
<1>2. \A n \in Nat : n \in S => n + 1 \in S
  <2> SUFFICES ASSUME NEW n \in Nat, n \in S, n + 1 <= L
               PROVE  \E f : Upto(n + 1, f)
    OBVIOUS
  <2>0. n <= L
    BY <1>0
  <2>1. PICK f : Upto(n, f)
    BY <2>0
  <2> DEFINE w == Next_(f[n], n + 1)
             g == [k \in 0 .. n + 1 |-> IF k <= n THEN f[k] ELSE w]
  <2>2. g[0] = 0 /\ g[n + 1] = w /\ \A k \in 1 .. n : g[k] = f[k] /\ g[k - 1] = f[k - 1]
    <3> HIDE DEF w
    <3> QED
      BY <2>1
  <2>3. g[n] = f[n]
    OBVIOUS
  <2> HIDE DEF g
  <2>4. \A k \in 1 .. n + 1 : g[k] = Next_(g[k - 1], k)
    <3> SUFFICES ASSUME NEW k \in 1 .. n + 1 PROVE g[k] = Next_(g[k - 1], k)
      OBVIOUS
    <3>1. CASE k = n + 1
      BY <2>2, <2>3, <3>1
    <3>2. CASE k # n + 1
      <4>1. k \in 1 .. n
        BY <3>2
      <4>2. f[k] = Next_(f[k - 1], k)
        BY <2>1, <4>1
      <4> QED
        BY <2>2, <4>1, <4>2
    <3> QED
      BY <3>1, <3>2
  <2>5. Upto(n + 1, g)
    BY <2>2, <2>4
  <2> QED
    BY <2>5
<1>3. \E f : Upto(L, f)
  <2> HIDE DEF S
  <2>1. Nat \subseteq S
    BY <1>1, <1>2, Induct
  <2> QED
    BY <1>0, <2>1 DEF S
<1>4. \E f : f = Loop(f)
  <2>1. PICK f : Upto(L, f)
    BY <1>3
  <2> DEFINE g == [n \in 0 .. L |-> f[n]]
  <2>2. \A n \in 0 .. L : g[n] = IF n = 0 THEN 0 ELSE Next_(g[n - 1], n)
    <3> SUFFICES ASSUME NEW n \in 0 .. L, n # 0 PROVE g[n] = Next_(g[n - 1], n)
      BY <2>1
    <3>1. n \in 1 .. L /\ n - 1 \in 0 .. L
      BY <1>0
    <3>2. f[n] = Next_(f[n - 1], n)
      BY <2>1, <3>1
    <3> QED
      BY <3>1, <3>2
  <2>3. g = Loop(g)
    <3>1. g = [n \in 0 .. L |-> g[n]]
      OBVIOUS
    <3> HIDE DEF g
    <3> QED
      BY <2>2, <3>1
  <2> QED
    BY <2>3
<1>5. value = Loop(value)
  <2> HIDE DEF Loop
  <2> QED
    BY <1>4, Zenon
<1> HIDE DEF value
<1>6. value[0] = 0 /\ \A n \in 1 .. L : value[n] = Next_(value[n - 1], n)
  <2>1. \A n \in 0 .. L : value[n] = IF n = 0 THEN 0 ELSE Next_(value[n - 1], n)
    BY <1>5
  <2> QED
    BY <1>0, <2>1
<1> QED
  BY <1>6, <1>7, Zenon DEF L, Next_

\* A text is a number of sixteen bits.
LEMMA NumberIs ==
  ASSUME NEW text \in SvText
  PROVE  read_number(text) \in WORDS
<1> DEFINE ds == text.digits
           L == Len(ds)
           base == IF text.hex THEN 16 ELSE 10
<1>0. L \in Nat /\ base \in Nat /\ DOMAIN ds = 1 .. L /\ \A i \in 1 .. L : ds[i] \in Nat
  BY DEF SvText
<1>1. PICK v : /\ v[0] = 0
               /\ \A n \in 1 .. L : v[n] = (v[n - 1] * base + ds[n]) % WORD
               /\ read_number(text) = IF \E i \in DOMAIN ds : ds[i] >= base THEN 0 ELSE v[L]
  BY ValueIs, Zenon
<1> HIDE DEF ds, L, base
<1> DEFINE S == {n \in Nat : n <= L => v[n] \in WORDS}
<1>2. 0 \in S
  BY <1>1, WordIs
<1>3. \A n \in Nat : n \in S => n + 1 \in S
  <2> SUFFICES ASSUME NEW n \in Nat, n \in S, n + 1 <= L PROVE v[n + 1] \in WORDS
    OBVIOUS
  <2>4. L \in Nat
    BY <1>0
  <2>5. v[n] \in WORDS
    <3>1. n <= L => v[n] \in WORDS
      OBVIOUS
    <3> HIDE DEF S
    <3> QED
      BY <2>4, <3>1, SMT
  <2>0. v[n] \in Nat
    BY <2>5, WordIs
  <2>1. v[n] \in Nat /\ ds[n + 1] \in Nat /\ v[n + 1] = (v[n] * base + ds[n + 1]) % WORD
    BY <1>0, <1>1, <2>0
  <2> DEFINE a == v[n] * base + ds[n + 1]
  <2>2. a \in Nat
    <3>1. \A x, y, z \in Nat : x * y + z \in Nat
      OBVIOUS
    <3> QED
      BY <1>0, <2>1, <3>1, Zenon
  <2> HIDE DEF a
  <2>3. a % WORD \in WORDS
    BY <2>2, WordIs
  <2> QED
    BY <2>1, <2>3 DEF a
<1>4. L \in S
  <2> HIDE DEF S
  <2> QED
    BY <1>0, <1>2, <1>3, Induct
<1> QED
  BY <1>0, <1>1, <1>4, WordIs

\* The text of a word is four digits that stand for it.
LEMMA HexIs ==
  ASSUME NEW n \in WORDS
  PROVE  Hex(n) \in SvText /\ read_number(Hex(n)) = n
<1> DEFINE a == n \div 4096
           b == (n \div 256) % 16
           c == (n \div 16) % 16
           d == n % 16
<1>1. /\ a \in 0 .. 15 /\ b \in 0 .. 15 /\ c \in 0 .. 15 /\ d \in 0 .. 15
      /\ n = 4096 * a + 256 * b + 16 * c + d
  <2>1. n \in Nat /\ n <= 65535
    BY WordIs, WordMost, SMT
  <2> QED
    BY <2>1, SMT
<1>2. Hex(n) = [hex |-> TRUE, digits |-> <<a, b, c, d>>]
  BY DEF Hex
<1> HIDE DEF a, b, c, d
<1> DEFINE t == Hex(n)
<1>3. t \in SvText
  <2>1. <<a, b, c, d>> \in Seq(Nat)
    BY <1>1
  <2> QED
    BY <1>2, <2>1 DEF SvText
<1>4. /\ t.hex = TRUE /\ Len(t.digits) = 4 /\ DOMAIN t.digits = 1 .. 4
      /\ t.digits[1] = a /\ t.digits[2] = b /\ t.digits[3] = c /\ t.digits[4] = d
  BY <1>2
<1> HIDE DEF t
<1>5. PICK v : /\ v[0] = 0
               /\ \A k \in 1 .. Len(t.digits) : v[k] = (v[k - 1] * 16 + t.digits[k]) % WORD
               /\ read_number(t) = IF \E i \in DOMAIN t.digits : t.digits[i] >= 16
                                   THEN 0 ELSE v[Len(t.digits)]
  <2>1. (IF t.hex THEN 16 ELSE 10) = 16
    BY <1>4
  <2> QED
    BY <1>3, <2>1, ValueIs
<1>6. v[1] = (v[0] * 16 + a) % WORD /\ v[2] = (v[1] * 16 + b) % WORD
      /\ v[3] = (v[2] * 16 + c) % WORD /\ v[4] = (v[3] * 16 + d) % WORD
  <2>1. \A k \in 1 .. 4 : v[k] = (v[k - 1] * 16 + t.digits[k]) % WORD
    BY <1>4, <1>5
  <2> QED
    BY <1>4, <2>1
<1>7. ASSUME NEW k \in {0, 1, 2, 3}, NEW x \in Nat, NEW y \in Nat, v[k] = x,
             v[k + 1] = (v[k] * 16 + y) % WORD, x * 16 + y <= 65535
      PROVE  v[k + 1] = x * 16 + y
  <2>1. x * 16 + y \in Nat
    OBVIOUS
  <2> QED
    BY <1>7, <2>1, WordIs, WordMost, SMT
<1>11. v[1] = a
  BY <1>1, <1>5, <1>6, <1>7, SMT
<1>12. v[2] = a * 16 + b
  BY <1>1, <1>6, <1>7, <1>11, SMT
<1>8. v[3] = (a * 16 + b) * 16 + c
  BY <1>1, <1>6, <1>7, <1>12, SMT
<1>9. v[4] = n
  BY <1>1, <1>6, <1>7, <1>8, SMT
<1>10. ~ \E i \in DOMAIN t.digits : t.digits[i] >= 16
  BY <1>1, <1>4
<1> QED
  BY <1>3, <1>4, <1>5, <1>9, <1>10 DEF t
-----------------------------------------------------------------------------
(* The second invariant, about numbers.  What the bus and the flash let     *)
(* happen leaves a generator its driver can program and a word of sixteen   *)
(* bits; panel and setup are never open at once; an open panel has the      *)
(* limits of its computer, no frequency where no generator can be read and  *)
(* a text of digits for the SuperVidel's start mode; and what the setup     *)
(* compares a form with when it saves is what the flash holds, until it is  *)
(* saved.                                                                   *)
Alone == (pn = Closed \/ su = Off) /\ (~begun => pn = Closed /\ su = Off)

\* a generator that does not answer, and the limits of the frequency
Below == On060 /\ ct60_read_clock(chip) < 0
Least == IF Halved THEN 33300 ELSE IF On060 /\ chip.kind = "dallas" THEN 66600 ELSE 65000
Most  == IF Halved THEN 66000 ELSE MaxFreq

\* of a panel that is open
Rules(p, below, least, most) ==
  /\ below => p.freq = 0
  /\ p.max = most /\ p.min >= least /\ p.svboot \in SvText

\* of a setup that is open, with the flash fl
ReadIn(x, fl) ==
  /\ x.cpu.freq \in Int
  /\ x.fresh /\ HasCT60 /\ x.row = 4
       => x.cpu.fpu_load = fl.cpufpu /\ x.cpu.blit_load = fl.blitter
  /\ x.fresh /\ HasCT60 /\ x.row = 7
       => x.boot.load = [devs |-> fl.bootorder, log |-> fl.bootlog, tos |-> fl.tosram,
                         pciide |-> fl.ctpci]

Held ==
  /\ IsChip(chip) /\ flash.sv.boot \in WORDS /\ Alone
  /\ pn.open => Rules(pn, Below, Least, Most)
  /\ su.open => ReadIn(su, flash)

\* The rules are about four fields of the panel.
LEMMA RulesSame ==
  ASSUME NEW p, NEW q, NEW below, NEW least, NEW most, Rules(p, below, least, most),
         \A f \in {"freq", "min", "max", "svboot"} : q[f] = p[f]
  PROVE  Rules(q, below, least, most)
BY DEF Rules

\* The limits the panel opens with, and no frequency where none can be set.
LEMMA LimitsAre ==
  /\ Frequencies.min = Least /\ Frequencies.max = Most
  /\ Below => Frequencies.freq = 0
<1> DEFINE r == Frequencies
<1>0. CPX_LIMITS.min = 65000 /\ CPX_LIMITS.dallas = 66000
  BY DEF CPX_LIMITS
<1>1. r.min = Least
  BY <1>0 DEF Frequencies, Least
<1>2. r.max = Most
  BY <1>0 DEF Frequencies, Most
<1>3. Below => r.freq = 0
  BY DEF Frequencies, Below
<1> QED
  BY <1>1, <1>2, <1>3

\* What each field of the panel shows as it opens.
LEMMA OpenedIs ==
  /\ DOMAIN Opened = FIELDS /\ Opened.nvm = flash.nv1.magic
  /\ \A f \in SHOWN : Opened[f] = Shown(NvmRead)[f]
  /\ \A f \in SWITCHES : Opened[f] = flash[f]
  /\ \A f \in KEPT : Opened[f] = Kept(fix_header)[f]
  /\ \A f \in CLOCK : Opened[f] = Frequencies[f]
  /\ \A f \in SV : Opened[f] = SvObjects(IF machine.sv /\ flash.sv.version THEN flash.sv
                                         ELSE SV_DEFAULT)[f]
<1> DEFINE n == Shown(NvmRead)
           h == Kept(fix_header)
           c == Frequencies
           s == SvObjects(IF machine.sv /\ flash.sv.version THEN flash.sv ELSE SV_DEFAULT)
           o == Opened
           e == IF On060 THEN "trigger" ELSE "none"
<1>1. o = [f \in FIELDS |->
     CASE f \in SHOWN    -> n[f]
       [] f \in SWITCHES -> flash[f]
       [] f \in KEPT     -> h[f]
       [] f \in CLOCK    -> c[f]
       [] f \in SV       -> s[f]
       [] f = "nvm"      -> flash.nv1.magic
       [] f = "open"     -> TRUE
       [] f = "page"     -> FirstPage
       [] f = "edit"     -> e]
  BY Zenon DEF Opened
<1> HIDE DEF n, h, c, s, o, e
<1>2. /\ DOMAIN o = FIELDS /\ o.nvm = flash.nv1.magic
      /\ \A f \in SHOWN : o[f] = n[f]
      /\ \A f \in SWITCHES : o[f] = flash[f]
      /\ \A f \in KEPT : o[f] = h[f]
      /\ \A f \in CLOCK : o[f] = c[f]
      /\ \A f \in SV : o[f] = s[f]
  BY <1>1, FieldSets
<1> QED
  BY <1>2, Zenon DEF n, h, c, s, o

\* The word shown where the flash has none.
LEMMA SvDefault == SV_DEFAULT.boot \in WORDS
BY SMT DEF SV_DEFAULT, WORDS, WORD

\* The panel opens with its limits and a text for the word.
LEMMA OpenedRules ==
  ASSUME flash.sv.boot \in WORDS
  PROVE  Rules(Opened, Below, Least, Most)
<1> DEFINE w == IF machine.sv /\ flash.sv.version THEN flash.sv ELSE SV_DEFAULT
           o == Opened
<1>1. w.boot \in WORDS
  BY SvDefault
<1>2. o.svboot = Hex(w.boot)
  BY OpenedIs DEF SvObjects, SV
<1>3. o.freq = Frequencies.freq /\ o.min = Frequencies.min /\ o.max = Frequencies.max
  BY OpenedIs DEF CLOCK
<1>4. Least \in Int
  BY DEF Least
<1>5. o.svboot \in SvText
  <2> HIDE DEF w, o
  <2> QED
    BY <1>1, <1>2, HexIs
<1> HIDE DEF w, o
<1>6. Rules(o, Below, Least, Most)
  BY <1>3, <1>4, <1>5, LimitsAre DEF Rules
<1> QED
  BY <1>6 DEF o

\* A click on the SuperVidel's page leaves the text of the start mode.
LEMMA SvClickIs ==
  ASSUME NEW p, DOMAIN p = FIELDS, NEW q \in SvClicks(p)
  PROVE  \A f \in FIELDS \ {"svdvi", "svchk", "sven", "edit"} : q[f] = p[f]
BY DEF SvClicks

\* A click on the frequency is one on a frequency there is.
LEMMA FreqClickIs ==
  ASSUME NEW p, DOMAIN p = FIELDS, NEW q \in FreqClicks(p)
  PROVE  p.freq # 0 /\ \A f \in FIELDS \ {"freq", "flagf"} : q[f] = p[f]
<1>1. p.freq # 0
  BY DEF FreqClicks
<1> DEFINE S == (IF p.freq > p.min THEN {AtLeast(p.freq - p.step, p.min)} ELSE {})
                  \cup (IF p.freq < p.max THEN {AtMost(p.freq + p.step, p.max)} ELSE {})
                  \cup {AtMost(AtLeast(p.freq + d, p.min), p.max) : d \in {1000, -1000}}
                  \cup {Slider(p.min, p.max, p.step, ret) : ret \in {0, 500, 1000}}
<1>2. FreqClicks(p) = IF p.freq = 0 THEN {} ELSE {[p EXCEPT !.freq = f, !.flagf = TRUE] : f \in S}
  BY DEF FreqClicks, Slider
<1> HIDE DEF S
<1>3. PICK f \in S : q = [p EXCEPT !.freq = f, !.flagf = TRUE]
  BY <1>1, <1>2
<1> QED
  BY <1>1, <1>3

\* No control but the frequency's own changes it, and none the limits and the
\* word's text.
LEMMA ControlRules ==
  ASSUME IsPanel(pn, sv_top), Control, NEW below, NEW least, NEW most,
         Rules(pn, below, least, most)
  PROVE  Rules(pn', below, least, most)
<1>0. DOMAIN pn = FIELDS /\ {"freq", "min", "max", "svboot"} \subseteq FIELDS
  BY FieldIs DEF IsPanel, TYPED
<1>1. CASE pn' \in Clicks(pn)
  <2>1. CASE pn.page = "VIDEO"
    <3>1. pn' \in VideoClicks(pn)
      BY <1>1, <2>1 DEF Clicks
    <3>2. ModeSet(pn, pn') \/ pn' = [pn EXCEPT !.nvm = ~pn.nvm]
      BY <3>1, VideoPage, PanelIsVideo
    <3>3. \A f \in {"freq", "min", "max", "svboot"} : pn'[f] = pn[f]
      BY <1>0, <3>2 DEF ModeSet
    <3> QED
      BY <3>3, RulesSame
  <2>2. CASE pn.page = "MEMORY"
    <3>1. pn' \in FreqClicks(pn)
      BY <1>1, <2>2 DEF Clicks
    <3>2. pn.freq # 0 /\ \A f \in FIELDS \ {"freq", "flagf"} : pn'[f] = pn[f]
      BY <1>0, <3>1, FreqClickIs
    <3>3. \A f \in {"min", "max", "svboot"} : pn'[f] = pn[f]
      BY <1>0, <3>2
    <3> QED
      BY <3>2, <3>3 DEF Rules
  <2>3. CASE pn.page = "SV"
    <3>1. pn' \in SvClicks(pn)
      BY <1>1, <2>3 DEF Clicks
    <3>2. \A f \in FIELDS \ {"svdvi", "svchk", "sven", "edit"} : pn'[f] = pn[f]
      BY <1>0, <3>1, SvClickIs
    <3> QED
      BY <1>0, <3>2, RulesSame
  <2> QED
    BY <1>1, <2>1, <2>2, <2>3 DEF Clicks
<1>2. CASE \E f \in DOMAIN Popups : \E i \in Popups[f] : pn' = [pn EXCEPT ![f] = i]
  <2>1. PICK f \in DOMAIN Popups : \E i \in Popups[f] : pn' = [pn EXCEPT ![f] = i]
    BY <1>2
  <2>2. f \notin {"freq", "min", "max", "svboot"}
    BY DEF Popups
  <2>3. \A g \in {"freq", "min", "max", "svboot"} : pn'[g] = pn[g]
    BY <1>0, <2>1, <2>2
  <2> QED
    BY <2>3, RulesSame
<1> QED
  BY <1>1, <1>2, Zenon DEF Control

\* A text typed for the start mode is one.
LEMMA KeyRules ==
  ASSUME IsPanel(pn, sv_top), cpx_key, NEW below, NEW least, NEW most,
         Rules(pn, below, least, most)
  PROVE  Rules(pn', below, least, most)
<1>0. DOMAIN pn = FIELDS /\ {"freq", "min", "max", "svboot"} \subseteq FIELDS
  BY FieldIs DEF IsPanel, TYPED
<1>1. PICK f \in DOMAIN Edits : \E v \in Edits[f] : pn' = [pn EXCEPT ![f] = v]
  BY Zenon DEF cpx_key
<1>2. PICK v \in Edits[f] : pn' = [pn EXCEPT ![f] = v]
  BY <1>1
<1>3. f \in {"trigger", "delay", "time", "sep", "svboot"} /\ (f = "svboot" => v \in SvText)
  BY SettingsAssumption
<1>4. \A g \in {"freq", "min", "max"} : pn'[g] = pn[g]
  BY <1>0, <1>2, <1>3
<1>5. pn'.svboot = IF f = "svboot" THEN v ELSE pn.svboot
  BY <1>0, <1>2
<1> QED
  BY <1>3, <1>4, <1>5 DEF Rules

\* So is a header's frequency none where none can be set.
LEMMA LoadRules ==
  ASSUME NEW h, NEW p, DOMAIN p = FIELDS, NEW least, NEW most, Rules(p, Below, least, most)
  PROVE  Rules(Loaded(p, h), Below, least, most)
<1> DEFINE freq == IF On060 /\ ct60_read_clock(chip) < 0 THEN 0 ELSE Clamp(h.frequency, p.min, p.max)
           q == Loaded(p, h)
<1>1. q = [f \in FIELDS |->
     CASE f \in SHOWN    -> Shown(h)[f]
       [] f \in SWITCHES -> h[f]
       [] f \in KEPT     -> Kept(h)[f]
       [] f = "freq"     -> freq
       [] f = "page"     -> FirstPage
       [] f = "edit"     -> EditOn(FirstPage, p)
       [] OTHER          -> p[f]]
  BY Zenon DEF Loaded
<1>2. Below => freq = 0
  BY DEF Below
<1> HIDE DEF freq, q
<1>3. {"freq", "min", "max"} \subseteq CLOCK /\ "svboot" \in SV
  BY DEF CLOCK, SV
<1>4. q.freq = freq /\ q.min = p.min /\ q.max = p.max /\ q.svboot = p.svboot
  BY <1>1, <1>3, FieldSets
<1>5. Rules(q, Below, least, most)
  BY <1>2, <1>4 DEF Rules
<1> QED
  BY <1>5 DEF q
-----------------------------------------------------------------------------
(* What OK and SAVE leave.                                                  *)
\* when OK gives the generator another frequency
Tunes(p) == On060 /\ p.freq # 0 /\ ct60_read_clock(chip) > 0 /\ ct60_read_clock(chip) # p.freq

\* what OK leaves in NVRAM, flash and generator, with what failed
Accepts(p, failed, err) ==
  /\ nvram' = Coded(p) /\ flash' = WriteParams(Parameters(p), failed) /\ pn' = Closed
  /\ ev'.op = "ok" /\ ev'.freq = p.freq /\ ev'.failed = failed /\ ev'.clock = err
  /\ IsChip(chip') /\ chip'.kind = chip.kind /\ chip'.rom = chip.rom
  /\ ~Tunes(p) => chip' = chip
  /\ Tunes(p) /\ err = "none" => Given(ct60_read_clock(chip'), p.freq, chip.kind, CPX_LIMITS)

\* What OK leaves in the generator.
LEMMA RunIs ==
  ASSUME IsChip(chip), NEW p, p.freq \in Nat, NEW faulty, NEW r \in RunClock(p, faulty)
  PROVE  /\ IsChip(r.chip) /\ r.chip.kind = chip.kind /\ r.chip.rom = chip.rom
         /\ ~Tunes(p) => r.chip = chip
         /\ Tunes(p) /\ r.err = "none"
              => Given(ct60_read_clock(r.chip), p.freq, chip.kind, CPX_LIMITS)
<1>1. CASE Tunes(p)
  <2>1. r \in ct60_configure_clock(chip, p.freq, "ram", CPX_LIMITS, faulty)
    BY <1>1, Zenon DEF RunClock, Tunes
  <2>2. Configures(chip, p.freq, "ram", CPX_LIMITS, r)
    BY <2>1, Configured
  <2> QED
    BY <1>1, <2>2 DEF Configures, ct60_read_clock
<1>2. CASE ~Tunes(p)
  <2>1. r = [chip |-> chip, err |-> "none"]
    BY <1>2 DEF RunClock, Tunes
  <2> QED
    BY <1>2, <2>1
<1> QED
  BY <1>1, <1>2

\* What OK leaves.
LEMMA AcceptIs ==
  ASSUME IsChip(chip), NEW p, p.freq \in Nat, Accept(p)
  PROVE  \E failed, err : Accepts(p, failed, err)
<1>1. PICK failed \in Failures(DOMAIN Parameters(p)) :
        \E r \in RunClock(p, failed = "none" /\ faults > 0) :
          /\ nvram' = Coded(p) /\ flash' = WriteParams(Parameters(p), failed)
          /\ chip' = r.chip /\ pn' = Closed
          /\ ev' = [op |-> "ok", freq |-> p.freq, failed |-> failed, clock |-> r.err,
                    alert |-> failed \in SWITCHES \cup {"sv"} \/ r.err # "none"]
  BY Zenon DEF Accept
<1> DEFINE faulty == failed = "none" /\ faults > 0
<1>2. PICK r \in RunClock(p, faulty) :
          /\ nvram' = Coded(p) /\ flash' = WriteParams(Parameters(p), failed)
          /\ chip' = r.chip /\ pn' = Closed
          /\ ev' = [op |-> "ok", freq |-> p.freq, failed |-> failed, clock |-> r.err,
                    alert |-> failed \in SWITCHES \cup {"sv"} \/ r.err # "none"]
  BY <1>1, Zenon
<1> HIDE DEF faulty
<1>3. ev'.op = "ok" /\ ev'.freq = p.freq /\ ev'.failed = failed /\ ev'.clock = r.err
  BY <1>2
<1>4. /\ IsChip(r.chip) /\ r.chip.kind = chip.kind /\ r.chip.rom = chip.rom
      /\ ~Tunes(p) => r.chip = chip
      /\ Tunes(p) /\ r.err = "none"
           => Given(ct60_read_clock(r.chip), p.freq, chip.kind, CPX_LIMITS)
  BY RunIs
<1>5. ct60_read_clock(chip') = ct60_read_clock(r.chip)
  BY <1>2
<1>6. Accepts(p, failed, r.err)
  BY <1>2, <1>3, <1>4, <1>5 DEF Accepts
<1> QED
  BY <1>6

\* The word OK writes is one.
LEMMA WordKept ==
  ASSUME IsFlash(flash), flash.sv.boot \in WORDS, NEW p, p.svboot \in SvText, NEW failed
  PROVE  WriteParams(Parameters(p), failed).sv.boot \in WORDS
<1> DEFINE c == Coded(p)
           u == Parameters(p)
           w == SvWord(p)
           names == SWITCHES \cup {"clock", "nv1", "nv2", "nv3"}
                      \cup (IF machine.sv THEN {"sv"} ELSE {})
<1>1. u = [name \in names |->
         CASE name \in SWITCHES -> p[name]
           [] name = "clock"    -> p.freq
           [] name = "nv1"      -> [magic |-> p.nvm, bootpref |-> c.bootpref]
           [] name = "sv"       -> w
           [] OTHER             -> [f \in DOMAIN flash[name] |-> c[f]]]
  BY Zenon DEF Parameters
<1>2. w.boot \in WORDS
  <2> DEFINE n == read_number(p.svboot)
  <2>1. n \in WORDS /\ 0 \in WORDS
    BY NumberIs, WordIs
  <2> HIDE DEF n
  <2>2. w.boot = IF p.sven THEN n ELSE 0
    BY DEF SvWord, n
  <2> QED
    BY <2>1, <2>2
<1>3. "sv" \notin SWITCHES /\ "sv" \in FLASH
  BY DEF SWITCHES, FLASH
<1>4. WriteParams(u, failed).sv = IF "sv" \in DOMAIN u /\ "sv" # failed THEN u.sv ELSE flash.sv
  BY <1>3 DEF WriteParams, IsFlash
<1> HIDE DEF c, u, w
<1>5. "sv" \in DOMAIN u => u.sv = w
  BY <1>1, <1>3
<1> QED
  BY <1>2, <1>4, <1>5 DEF u

\* what a step of the panel leaves, but the panel itself when it is closed
Runs ==
  /\ IsChip(chip') /\ chip'.kind = chip.kind /\ flash'.sv.boot \in WORDS
  /\ pn' # Closed => (Below' => Below) /\ Rules(pn', Below, Least, Most)

\* OK leaves generator and word as they are found.
LEMMA AcceptRuns ==
  ASSUME IsFlash(flash), IsChip(chip), flash.sv.boot \in WORDS, NEW p, p.freq \in Nat,
         p.svboot \in SvText, Accept(p)
  PROVE  Runs
<1>1. PICK failed, err : Accepts(p, failed, err)
  BY AcceptIs
<1>2. WriteParams(Parameters(p), failed).sv.boot \in WORDS
  BY WordKept
<1>3. /\ flash' = WriteParams(Parameters(p), failed) /\ pn' = Closed
      /\ IsChip(chip') /\ chip'.kind = chip.kind
  BY <1>1 DEF Accepts
<1>4. flash'.sv.boot \in WORDS
  BY <1>2, <1>3
<1> QED
  BY <1>3, <1>4 DEF Runs

\* SAVE's lower limit is none below the panel's.
LEMMA RaisedRules ==
  ASSUME NEW p, DOMAIN p = FIELDS, ~Below, Rules(p, Below, Least, Most), p.freq \in Nat
  PROVE  /\ Rules(Raised(p), Below, Least, Most)
         /\ Raised(p).freq \in Nat /\ Raised(p).freq >= Raised(p).min
         /\ chip.kind = "dallas" => Raised(p).min = 66600
         /\ chip.kind # "dallas" => Raised(p).min = 65000
<1> DEFINE min == IF chip.kind = "dallas" THEN CPX_LIMITS.dallas + 600 ELSE CPX_LIMITS.min
           freq == AtLeast(p.freq, min)
           step == StepOf(chip)
           q == Raised(p)
<1>1. min = (IF chip.kind = "dallas" THEN 66600 ELSE 65000)
  BY DEF CPX_LIMITS
<1>2. min \in Nat /\ min >= Least
  BY <1>1 DEF Least, Halved
<1>3. q = [p EXCEPT !.min = min, !.step = step, !.freq = freq]
  BY Zenon DEF Raised
<1>4. freq \in Nat /\ freq >= min
  <2> HIDE DEF min
  <2> QED
    BY <1>2 DEF AtLeast
<1> HIDE DEF q, min, step, freq
<1>5. {"min", "step", "freq", "max", "svboot"} \subseteq FIELDS
  BY FieldIs DEF TYPED
<1>6. q.min = min /\ q.freq = freq /\ q.max = p.max /\ q.svboot = p.svboot
  BY <1>3, <1>5
<1>7. Rules(q, Below, Least, Most)
  BY <1>2, <1>6 DEF Rules
<1>8. q.min = IF chip.kind = "dallas" THEN 66600 ELSE 65000
  BY <1>1, <1>6
<1> QED
  BY <1>4, <1>6, <1>7, <1>8 DEF q

\* So does SAVE.
LEMMA SaveRuns ==
  ASSUME IsFlash(flash), IsChip(chip), flash.sv.boot \in WORDS, IsPanel(pn, sv_top),
         Rules(pn, Below, Least, Most), NEW clicks, Save(clicks), UNCHANGED machine
  PROVE  Runs
<1>0. DOMAIN pn = FIELDS /\ pn.freq \in Nat
  BY FieldIs DEF IsPanel
<1>1. IF WantsClock(clicks) THEN SaveClock(Raised(pn)) ELSE SaveNoClock
  BY DEF Save
<1>2. CASE ~WantsClock(clicks)
  BY <1>1, <1>2 DEF SaveNoClock, Runs, Below, On060
<1>3. CASE WantsClock(clicks)
  <2> DEFINE p == Raised(pn)
  <2>1. ct60_read_clock(chip) > 0
    BY <1>3 DEF WantsClock
  <2>2. ~Below
    BY <2>1, ClockRead DEF Below
  <2>3. Rules(p, Below, Least, Most) /\ p.freq \in Nat /\ DOMAIN p = FIELDS
    <3>1. DOMAIN p = FIELDS
      BY RaisedIs DEF IsPanel
    <3> QED
      BY <1>0, <2>2, <3>1, RaisedRules
  <2>4. SaveClock(p)
    BY <1>1, <1>3, Zenon
  <2> HIDE DEF p
  <2>5. CASE NotProgrammed(p)
    BY <2>3, <2>5 DEF NotProgrammed, Runs, Below, On060
  <2>6. CASE Accept(p)
    BY <2>3, <2>6, AcceptRuns DEF Rules
  <2>7. CASE /\ \E r \in ct60_configure_clock(chip, p.freq, "rom", CPX_LIMITS, faults > 0) :
                   /\ chip' = r.chip
                   /\ pn' = [p EXCEPT !.flagf = IF r.err = "none" THEN FALSE ELSE @]
             /\ UNCHANGED <<nvram, flash>>
    <3> DEFINE faulty == faults > 0
    <3>1. PICK r \in ct60_configure_clock(chip, p.freq, "rom", CPX_LIMITS, faulty) :
                   /\ chip' = r.chip
                   /\ pn' = [p EXCEPT !.flagf = IF r.err = "none" THEN FALSE ELSE @]
      BY <2>7
    <3> HIDE DEF faulty
    <3>2. Configures(chip, p.freq, "rom", CPX_LIMITS, r)
      BY <2>3, Configured
    <3>3. IsChip(chip') /\ chip'.kind = chip.kind /\ ct60_read_clock(chip') > 0
      BY <2>1, <3>1, <3>2 DEF Configures
    <3>4. ~Below'
      <4>1. ct60_read_clock(chip') \in Int
        BY <3>3, ClockRead
      <4>2. ~(ct60_read_clock(chip') < 0)
        BY <3>3, <4>1
      <4> QED
        BY <4>2 DEF Below
    <3>5. \A f \in {"freq", "min", "max", "svboot"} : pn'[f] = p[f]
      <4>1. {"freq", "min", "max", "svboot"} \subseteq FIELDS
        BY FieldIs DEF TYPED
      <4> QED
        BY <2>3, <3>1, <4>1
    <3>6. Rules(pn', Below, Least, Most)
      BY <2>3, <3>5, RulesSame
    <3> QED
      BY <2>7, <3>3, <3>4, <3>6 DEF Runs
  <2> QED
    BY <2>4, <2>5, <2>6, <2>7, Zenon DEF SaveClock
<1> QED
  BY <1>2, <1>3
-----------------------------------------------------------------------------
\* Panel and setup are never open at once, nor before their session begins.
LEMMA PanelAlone ==
  ASSUME Inv, Alone, PanelSession
  PROVE  su = Off /\ (pn = Closed => OpenPanel)
<1>1. CASE Begin("panel") /\ OpenPanel
  BY <1>1 DEF Begin, Alone
<1>2. CASE ~(Begin("panel") /\ OpenPanel)
  <2>1. pn.open
    BY <1>2, Zenon DEF PanelSession, SelectPage, Control, cpx_key, Scroll, Load, Calibrate, Save, Ok,
                       Cancel
  <2> QED
    BY <2>1 DEF Alone, Closed
<1> QED
  BY <1>1, <1>2

\* Every step of the panel keeps what it shows within its rules.
LEMMA PanelRuns ==
  ASSUME Inv, Held, PanelSession
  PROVE  Runs
<1>0. /\ IsFlash(flash) /\ IsChip(chip) /\ flash.sv.boot \in WORDS /\ UNCHANGED machine
      /\ machine \in Machine
  BY DEF Inv, Stored, Held, PanelSession
<1>1. CASE OpenPanel
  <2>1. pn' = Opened /\ UNCHANGED <<flash, chip>>
    BY <1>1 DEF OpenPanel
  <2>2. Below' = Below
    BY <1>0, <2>1 DEF Below, On060
  <2>3. Rules(Opened, Below, Least, Most)
    BY <1>0, OpenedRules
  <2> QED
    BY <1>0, <2>1, <2>2, <2>3 DEF Runs
<1>2. CASE ~OpenPanel
  <2>1. pn # Closed /\ pn.open
    <3>1. pn # Closed
      BY <1>2, PanelAlone DEF Held
    <3> QED
      BY <3>1 DEF Inv, IsPanel
  <2>2. IsPanel(pn, sv_top) /\ Rules(pn, Below, Least, Most)
    BY <2>1 DEF Inv, Held
  <2>3. DOMAIN pn = FIELDS /\ pn.freq \in Nat /\ {"freq", "min", "max", "svboot"} \subseteq FIELDS
    BY <2>2, FieldIs DEF IsPanel, TYPED
  <2>4. ASSUME UNCHANGED <<flash, chip>>, pn' = Closed \/ Rules(pn', Below, Least, Most)
        PROVE  Runs
    <3>1. Below' = Below
      BY <1>0, <2>4 DEF Below, On060
    <3> QED
      BY <1>0, <2>4, <3>1 DEF Runs
  <2>5. CASE SelectPage(Present.page)
    <3>1. \A f \in {"freq", "min", "max", "svboot"} : pn'[f] = pn[f]
      BY <2>3, <2>5 DEF SelectPage
    <3>2. UNCHANGED <<flash, chip>>
      BY <2>5 DEF SelectPage
    <3>3. Rules(pn', Below, Least, Most)
      BY <2>2, <3>1, RulesSame
    <3> QED
      BY <2>4, <3>2, <3>3
  <2>6. CASE Control
    BY <2>2, <2>4, <2>6, ControlRules DEF Control
  <2>7. CASE cpx_key
    BY <2>2, <2>4, <2>7, KeyRules DEF cpx_key
  <2>8. CASE Scroll
    <3>1. PICK edit : pn' = [pn EXCEPT !.edit = edit]
      BY <2>8, Zenon DEF Scroll, SvScroll
    <3>2. \A f \in {"freq", "min", "max", "svboot"} : pn'[f] = pn[f]
      BY <2>3, <3>1
    <3> QED
      BY <2>2, <2>4, <2>8, <3>2, RulesSame DEF Scroll
  <2>9. CASE Load
    BY <2>2, <2>3, <2>4, <2>9, LoadRules DEF Load
  <2>10. CASE Calibrate
    <3>1. PICK failed, n : flash' = WriteParams([tlv |-> n], failed)
      BY <2>10, Zenon DEF Calibrate
    <3>2. flash'.sv = flash.sv
      BY <1>0, <3>1 DEF WriteParams, IsFlash, FLASH
    <3>3. Below' = Below /\ UNCHANGED <<chip, pn>>
      BY <1>0, <2>10 DEF Below, On060, Calibrate
    <3> QED
      BY <1>0, <2>2, <3>2, <3>3 DEF Runs
  <2>11. CASE \E clicks \in {1, 2} : Save(clicks)
    BY <1>0, <2>2, <2>11, SaveRuns
  <2>12. CASE Ok
    BY <1>0, <2>2, <2>3, <2>12, AcceptRuns DEF Ok, Rules
  <2>13. CASE Cancel
    BY <2>4, <2>13 DEF Cancel
  <2> QED
    BY <1>2, <2>5, <2>6, <2>7, <2>8, <2>9, <2>10, <2>11, <2>12, <2>13, Zenon DEF PanelSession
<1> QED
  BY <1>1, <1>2

\* The limits are those of the computer and the kind of its generator.
LEMMA LimitsKept ==
  ASSUME UNCHANGED <<machine, started>>, chip'.kind = chip.kind
  PROVE  Least' = Least /\ Most' = Most /\ Halved' = Halved
<1>1. On060' = On060 /\ Halved' = Halved
  BY DEF On060, Halved
<1>2. MaxFreq' = MaxFreq
  BY <1>1 DEF MaxFreq
<1> QED
  BY <1>1, <1>2 DEF Least, Most

\* A session of the panel keeps the second invariant.
LEMMA PanelHeld ==
  ASSUME Inv, Held, PanelSession
  PROVE  Held'
<1>1. Runs
  BY PanelRuns
<1>2. su = Off /\ UNCHANGED <<su, machine, started>>
  BY PanelAlone DEF Held, PanelSession
<1>3. begun' = TRUE
  BY Zenon DEF PanelSession, Begin, Free, Click, Close, Held
<1>4. Alone'
  BY <1>2, <1>3 DEF Alone, Off
<1>5. Least' = Least /\ Most' = Most
  BY <1>1, <1>2, LimitsKept DEF Runs
<1>6. pn'.open => Rules(pn', Below', Least', Most')
  <2>1. pn'.open => pn' # Closed
    BY DEF Closed
  <2> QED
    BY <1>1, <1>5, <2>1 DEF Runs, Rules
<1> QED
  BY <1>1, <1>2, <1>4, <1>6 DEF Held, Runs, Off, Rules
-----------------------------------------------------------------------------
(* What a step of the setup leaves of the form it read.                     *)
\* What a form read is about some of the setup's fields.
LEMMA ReadSame ==
  ASSUME NEW x, NEW y, NEW fl, ReadIn(x, fl), y.row = x.row, y.fresh = x.fresh,
         y.boot.load = x.boot.load, y.cpu.freq \in Int, y.cpu.fpu_load = x.cpu.fpu_load,
         y.cpu.blit_load = x.cpu.blit_load
  PROVE  ReadIn(y, fl)
BY DEF ReadIn

\* what a step of the setup leaves
SetupRuns ==
  /\ IsChip(chip') /\ chip'.kind = chip.kind /\ flash'.sv.boot \in WORDS
  /\ su' # Off => ReadIn(su', flash')

\* A move within the form.
LEMMA AtRead ==
  ASSUME Held, IsSetup(su), NEW x, At(x), ReadIn(x, flash)
  PROVE  SetupRuns
BY DEF At, Held, SetupRuns

\* The move changes the place, or the frequency to another number.
LEMMA PlaceRead ==
  ASSUME Held, IsSetup(su), NEW x, At(x), x.row = su.row, x.fresh = su.fresh, x.boot = su.boot,
         x.cpu = su.cpu
  PROVE  SetupRuns
<1>1. ReadIn(su, flash)
  BY DEF Held, IsSetup, Edited
<1>2. ReadIn(x, flash)
  BY <1>1, ReadSame DEF ReadIn
<1> QED
  BY <1>2, AtRead

\* The frequency is a number: read from the generator, or within the limits.
LEMMA LimitedIs ==
  ASSUME machine \in Machine, NEW f \in Int
  PROVE  Limited(f) \in Int
<1>1. CpuLimits.min \in Int /\ CpuLimits.max \in Int
  BY DEF CpuLimits, SETUP_LIMITS, MAX_FREQ_DALLAS, MAX_FREQ_REV6
<1> HIDE DEF CpuLimits
<1> QED
  BY <1>1 DEF Limited

\* A move to another frequency.
LEMMA FreqRead ==
  ASSUME Held, machine \in Machine, IsSetup(su), NEW f \in Int, NEW x, At(x), x.row = su.row,
         x.fresh = su.fresh, x.boot = su.boot, x.cpu = [su.cpu EXCEPT !.freq = Limited(f)]
  PROVE  SetupRuns
<1>1. ReadIn(su, flash) /\ IsCpu(su.cpu)
  BY DEF Held, IsSetup, Edited
<1>2. Limited(f) \in Int
  BY LimitedIs
<1>3. /\ x.cpu.freq \in Int /\ x.cpu.fpu_load = su.cpu.fpu_load
      /\ x.cpu.blit_load = su.cpu.blit_load
  BY <1>1, <1>2 DEF IsCpu
<1>4. ReadIn(x, flash)
  BY <1>1, <1>3, ReadSame
<1> QED
  BY <1>4, AtRead

\* A form read: the copies that are compared are those in the flash.
LEMMA CopiesRead ==
  ASSUME IsChip(chip), NEW c, IsCpu(c), c.freq \in Int
  PROVE  /\ HasCT60 => \A r \in {initFormCpu(c), reloadFormCpu(c)} :
                         /\ r.freq \in Int /\ r.fpu_load = flash.cpufpu
                         /\ r.blit_load = flash.blitter
         /\ ~HasCT60 => initFormCpu(c) = c /\ reloadFormCpu(c) = c
<1>1. setup_read_clock(chip) \in Int
  <2>1. ct60_read_clock(chip) \in Int
    BY ClockRead
  <2>2. (REF * 8) \div 2 \in Int
    BY DEF REF
  <2> QED
    BY <2>1, <2>2 DEF setup_read_clock
<1>2. ~HasCT60 => initFormCpu(c) = c /\ reloadFormCpu(c) = c
  BY DEF initFormCpu, reloadFormCpu
<1>3. \A r : /\ readCT60Settings(r).freq = r.freq
             /\ readCT60Settings(r).fpu_load = flash.cpufpu
             /\ readCT60Settings(r).blit_load = flash.blitter
  BY DEF readCT60Settings
<1> DEFINE s == readCT60Freq(c)
           t == [s EXCEPT !.text = s.freq]
<1>4. HasCT60 => /\ initFormCpu(c) \in {readCT60Settings(s), readCT60Settings(c)}
                 /\ reloadFormCpu(c) = readCT60Settings(t)
  BY DEF initFormCpu, reloadFormCpu
<1>5. s.freq \in Int /\ t.freq \in Int
  <2>1. DOMAIN s = DOMAIN c /\ s.freq \in Int
    BY <1>1 DEF readCT60Freq, IsCpu
  <2> QED
    BY <2>1
<1> HIDE DEF s, t
<1>6. ASSUME HasCT60, NEW r \in {initFormCpu(c), reloadFormCpu(c)}
      PROVE  r.freq \in Int /\ r.fpu_load = flash.cpufpu /\ r.blit_load = flash.blitter
  <2>1. r \in {readCT60Settings(s), readCT60Settings(t), readCT60Settings(c)}
    BY <1>4, <1>6
  <2> QED
    BY <1>3, <1>5, <2>1
<1> QED
  BY <1>2, <1>6

\* What the flash holds of the BOOT form.
LEMMA BootRead ==
  ASSUME HasCT60, NEW b
  PROVE  reloadFromBoot(b).load = [devs |-> flash.bootorder, log |-> flash.bootlog,
                                   tos |-> flash.tosram, pciide |-> flash.ctpci]
BY DEF reloadFromBoot

\* A form entered is read.
LEMMA RefreshedRead ==
  ASSUME Held, NEW x, DOMAIN x = SETUP_FIELDS, IsCpu(x.cpu), x.cpu.freq \in Int
  PROVE  ReadIn(Refreshed(x), flash)
<1> DEFINE at == [x EXCEPT !.sel = 1, !.fresh = TRUE]
           y == Refreshed(x)
<1>0. IsChip(chip)
  BY DEF Held
<1>1. DOMAIN at = SETUP_FIELDS /\ at.row = x.row /\ at.cpu = x.cpu /\ at.boot = x.boot
  BY DEF SETUP_FIELDS
<1> HIDE DEF at
<1>2. CASE x.row = 4
  <2>1. y = [at EXCEPT !.cpu = initFormCpu(at.cpu)]
    BY <1>2 DEF Refreshed, at
  <2> HIDE DEF y
  <2>2. y.row = 4 /\ y.cpu = initFormCpu(x.cpu)
    BY <1>1, <1>2, <2>1 DEF SETUP_FIELDS
  <2>3. ReadIn(y, flash)
    BY <1>0, <2>2, CopiesRead DEF ReadIn
  <2> QED
    BY <2>3 DEF y
<1>3. CASE x.row = 7
  <2>1. y = [at EXCEPT !.boot = reloadFromBoot(at.boot)]
    BY <1>3 DEF Refreshed, at
  <2> HIDE DEF y
  <2>2. y.row = 7 /\ y.cpu = x.cpu /\ y.boot = reloadFromBoot(x.boot)
    BY <1>1, <1>3, <2>1 DEF SETUP_FIELDS
  <2>3. ReadIn(y, flash)
    BY <2>2, BootRead DEF ReadIn
  <2> QED
    BY <2>3 DEF y
<1>4. CASE x.row \notin {4, 7}
  <2>1. y = at \/ y = [at EXCEPT !.nv = NvmRead]
    BY <1>4 DEF Refreshed, at
  <2> HIDE DEF y
  <2>2. y.row = x.row /\ y.cpu = x.cpu
    BY <1>1, <2>1 DEF SETUP_FIELDS
  <2>3. ReadIn(y, flash)
    BY <1>4, <2>2 DEF ReadIn
  <2> QED
    BY <2>3 DEF y
<1> QED
  BY <1>2, <1>3, <1>4

\* So is one moved to.
LEMMA GoToRead ==
  ASSUME Held, NEW x, DOMAIN x = SETUP_FIELDS, IsCpu(x.cpu), x.cpu.freq \in Int, GoTo(x)
  PROVE  SetupRuns
<1>1. su' = Refreshed(x) /\ UNCHANGED <<flash, chip>>
  BY DEF GoTo
<1> QED
  BY <1>1, RefreshedRead DEF Held, SetupRuns

\* A value confirmed changes no copy that is compared.
LEMMA ValueRead ==
  ASSUME Held, machine \in Machine, IsSetup(su), su.st # "MENU", NEW s, s = Setting(su),
         NEW v, Kind(s) # "FUNC", NewValue(s, v)
  PROVE  SetupRuns
<1> DEFINE c == Confirmed(su, s, v)
           x == [c EXCEPT !.st = "FORM_SELECT", !.list = 0]
<1>0. ReadIn(su, flash) /\ Edited(su) /\ DOMAIN su = SETUP_FIELDS /\ IsCpu(su.cpu) /\ IsBoot(su.boot)
  BY DEF Held, IsSetup, Edited
<1>1. su' = x /\ UNCHANGED <<flash, chip>>
  BY DEF NewValue
<1>2. /\ DOMAIN c = SETUP_FIELDS /\ c.row = su.row /\ c.fresh = su.fresh
      /\ c.cpu.freq = su.cpu.freq /\ c.cpu.fpu_load = su.cpu.fpu_load
      /\ c.cpu.blit_load = su.cpu.blit_load
      /\ su.row = 7 => c.boot.load = su.boot.load
  <2>1. CASE su.row = 1
    <3>1. c = su \/ \E nv : c = [su EXCEPT !.nv = nv]
      BY <2>1 DEF Confirmed
    <3> HIDE DEF c
    <3> QED
      BY <1>0, <2>1, <3>1 DEF SETUP_FIELDS
  <2>2. CASE su.row = 4
    <3>1. \E f \in {"text", "fpu", "blit"} : \E w : c = [su EXCEPT !.cpu = [su.cpu EXCEPT ![f] = w]]
      <4>1. CASE s = "freq"
        <5>1. c = [su EXCEPT !.cpu = [su.cpu EXCEPT !["text"] = su.cpu.freq]]
          BY <1>0, <2>2, <4>1 DEF Confirmed, SETUP_FIELDS
        <5> HIDE DEF c
        <5> QED
          BY <5>1
      <4>2. CASE s # "freq"
        <5>1. c = [su EXCEPT !.cpu = CpuChosen(su.cpu, s, v)]
          BY <2>2, <4>2 DEF Confirmed
        <5>2. \E f \in {"fpu", "blit"} : \E w : CpuChosen(su.cpu, s, v) = [su.cpu EXCEPT ![f] = w]
          BY DEF CpuChosen
        <5> HIDE DEF c
        <5> QED
          BY <5>1, <5>2, Zenon
      <4> QED
        BY <4>1, <4>2
    <3> HIDE DEF c
    <3>2. PICK f \in {"text", "fpu", "blit"} : \E w : c = [su EXCEPT !.cpu = [su.cpu EXCEPT ![f] = w]]
      BY <3>1, Zenon
    <3>4. PICK w : c = [su EXCEPT !.cpu = [su.cpu EXCEPT ![f] = w]]
      BY <3>2, Zenon
    <3>3. /\ DOMAIN c = SETUP_FIELDS /\ c.row = su.row /\ c.fresh = su.fresh
          /\ c.cpu = [su.cpu EXCEPT ![f] = w]
      BY <1>0, <3>4 DEF SETUP_FIELDS
    <3> QED
      BY <1>0, <2>2, <3>3 DEF IsCpu
  <2>3. CASE su.row \notin {1, 4}
    <3>1. c = [su EXCEPT !.boot = BootChosen(su.boot, s, v)]
      BY <2>3 DEF Confirmed
    <3> HIDE DEF c
    <3>2. /\ DOMAIN c = SETUP_FIELDS /\ c.row = su.row /\ c.fresh = su.fresh /\ c.cpu = su.cpu
          /\ c.boot = BootChosen(su.boot, s, v)
      BY <1>0, <3>1 DEF SETUP_FIELDS
    <3>3. su.row = 7 => s \in {"newboot", "order", "log", "tos", "pciide"}
      <4>1. su.row = 7 => s \in {"newboot", "order", "log", "tos", "pciide", "reload", "save"}
        BY SettingIs DEF IsSetup, Edited, InForms
      <4> QED
        BY <4>1, KindIs
    <3>4. su.row = 7 => BootChosen(su.boot, s, v).load = su.boot.load
      BY <1>0, <3>3 DEF BootChosen, IsBoot
    <3> QED
      BY <3>2, <3>4
  <2> QED
    BY <2>1, <2>2, <2>3
<1> HIDE DEF c
<1>3. x.row = c.row /\ x.fresh = c.fresh /\ x.cpu = c.cpu /\ x.boot = c.boot
  BY <1>2 DEF SETUP_FIELDS
<1> HIDE DEF x
<1>4. ReadIn(x, flash)
  BY <1>0, <1>2, <1>3 DEF ReadIn
<1> QED
  BY <1>1, <1>4 DEF Held, SetupRuns
\* A form read again, by its own entry.
LEMMA ReloadRead ==
  ASSUME Held, IsSetup(su), ReloadForm
  PROVE  SetupRuns
<1>0. /\ ReadIn(su, flash) /\ DOMAIN su = SETUP_FIELDS /\ IsCpu(su.cpu) /\ su.cpu.freq \in Int
      /\ IsChip(chip)
  BY DEF Held, IsSetup, Edited, ReadIn
<1>1. UNCHANGED <<flash, chip>>
  BY DEF ReloadForm
<1>2. CASE su.row = 4
  <2>1. su' = [su EXCEPT !.cpu = reloadFormCpu(su.cpu), !.fresh = TRUE]
    BY <1>2 DEF ReloadForm
  <2>2. su'.row = 4 /\ su'.cpu = reloadFormCpu(su.cpu)
    BY <1>0, <1>2, <2>1 DEF SETUP_FIELDS
  <2>3. ReadIn(su', flash)
    BY <1>0, <2>2, CopiesRead DEF ReadIn
  <2> QED
    BY <1>1, <2>3 DEF Held, SetupRuns
<1>3. CASE su.row # 4
  <2>1. \/ su.row = 1 /\ su' = [su EXCEPT !.nv = NvmRead, !.fresh = TRUE]
        \/ su.row # 1 /\ su' = [su EXCEPT !.boot = reloadFromBoot(su.boot), !.fresh = TRUE]
    BY <1>3, Zenon DEF ReloadForm
  <2>2. /\ su'.row = su.row /\ su'.cpu = su.cpu
        /\ su.row = 7 => su'.boot = reloadFromBoot(su.boot)
    <3>1. CASE su.row = 1
      <4> DEFINE b == NvmRead
      <4>1. su' = [su EXCEPT !.nv = b, !.fresh = TRUE]
        BY <2>1, <3>1
      <4> HIDE DEF b
      <4>2. su'.row = su.row /\ su'.cpu = su.cpu
        BY <1>0, <4>1 DEF SETUP_FIELDS
      <4> QED
        BY <3>1, <4>2
    <3>2. CASE su' = [su EXCEPT !.boot = reloadFromBoot(su.boot), !.fresh = TRUE]
      <4> DEFINE b == reloadFromBoot(su.boot)
      <4>1. su' = [su EXCEPT !.boot = b, !.fresh = TRUE]
        BY <3>2
      <4> HIDE DEF b
      <4>2. su'.row = su.row /\ su'.cpu = su.cpu /\ su'.boot = b
        BY <1>0, <4>1 DEF SETUP_FIELDS
      <4> QED
        BY <4>2 DEF b
    <3> QED
      BY <2>1, <3>1, <3>2
  <2>3. ReadIn(su', flash)
    BY <1>0, <1>3, <2>2, BootRead DEF ReadIn
  <2> QED
    BY <1>1, <2>3 DEF Held, SetupRuns
<1> QED
  BY <1>2, <1>3

\* what the save of the CPU form writes
CpuNow(c) == [clock |-> c.freq, cpufpu |-> c.fpu, blitter |-> c.blit]
CpuWrites(c, err) ==
  ClockParam(err) \cup (IF c.fpu # c.fpu_load THEN {"cpufpu"} ELSE {})
                  \cup (IF c.blit # c.blit_load THEN {"blitter"} ELSE {})
CpuSaves(c, err, failed) ==
  /\ flash' = WriteParams([f \in CpuWrites(c, err) |-> CpuNow(c)[f]], failed)
  /\ IsChip(chip') /\ chip'.kind = chip.kind
  /\ ev' = [op |-> "cpusave", err |-> err, failed |-> failed]
  /\ err = "none" => /\ chip.kind # "none"
                     /\ Given(FrequencyOf(chip.kind, chip'.rom), c.freq, chip.kind, SETUP_LIMITS)

\* The save of the CPU form: what it writes and what it leaves in the generator.
LEMMA CpuSaveIs ==
  ASSUME IsChip(chip), NEW c, c.freq \in Int, saveFormCpu(c)
  PROVE  \E err, failed : CpuSaves(c, err, failed)
<1>1. PICK r \in ct60_configure_clock(chip, c.freq, "rom", SETUP_LIMITS, faults > 0) :
        \E failed :
          /\ chip' = r.chip /\ flash' = WriteParams([f \in CpuWrites(c, r.err) |-> CpuNow(c)[f]], failed)
          /\ ev' = [op |-> "cpusave", err |-> r.err, failed |-> failed]
  BY Zenon DEF saveFormCpu, CpuWrites, CpuNow
<1> DEFINE faulty == faults > 0
<1>2. r \in ct60_configure_clock(chip, c.freq, "rom", SETUP_LIMITS, faulty)
  BY <1>1
<1> HIDE DEF faulty
<1>3. Configures(chip, c.freq, "rom", SETUP_LIMITS, r)
  BY <1>2, Configured
<1>4. PICK failed :
          /\ chip' = r.chip /\ flash' = WriteParams([f \in CpuWrites(c, r.err) |-> CpuNow(c)[f]], failed)
          /\ ev' = [op |-> "cpusave", err |-> r.err, failed |-> failed]
  BY <1>1
<1>5. /\ IsChip(r.chip) /\ r.chip.kind = chip.kind
      /\ r.err = "none"
           => chip.kind # "none" /\ Given(FrequencyOf(chip.kind, r.chip.rom), c.freq, chip.kind, SETUP_LIMITS)
  BY <1>3 DEF Configures
<1>6. CpuSaves(c, r.err, failed)
  BY <1>4, <1>5 DEF CpuSaves
<1> QED
  BY <1>6

\* A form saved: what was read of it is old.
LEMMA SaveRead ==
  ASSUME Held, IsFlash(flash), IsSetup(su), SaveForm
  PROVE  SetupRuns
<1>0. /\ DOMAIN su = SETUP_FIELDS /\ su.cpu.freq \in Int /\ IsChip(chip)
      /\ "sv" \in FLASH /\ DOMAIN flash = FLASH
  BY DEF Held, IsSetup, Edited, ReadIn, FLASH, IsFlash
<1>1. su' = [su EXCEPT !.fresh = FALSE]
  BY DEF SaveForm
<1>2. su'.fresh = FALSE /\ su'.cpu = su.cpu
  BY <1>0, <1>1 DEF SETUP_FIELDS
<1>3. \A fl : ReadIn(su', fl)
  BY <1>0, <1>2 DEF ReadIn
<1>4. CASE saveFormCpu(su.cpu)
  <2>1. PICK err, failed : CpuSaves(su.cpu, err, failed)
    BY <1>0, <1>4, CpuSaveIs
  <2> DEFINE upd == [f \in CpuWrites(su.cpu, err) |-> CpuNow(su.cpu)[f]]
  <2>2. "sv" \notin DOMAIN upd
    BY DEF CpuWrites, ClockParam
  <2>3. flash' = WriteParams(upd, failed)
    BY <2>1 DEF CpuSaves
  <2> HIDE DEF upd
  <2>4. flash'.sv = flash.sv
    BY <1>0, <2>2, <2>3 DEF WriteParams
  <2> QED
    BY <1>3, <2>1, <2>4 DEF CpuSaves, Held, SetupRuns
<1>5. CASE saveToBoot(su.boot) /\ UNCHANGED chip
  <2> DEFINE now == [bootorder |-> su.boot.devs % 8, bootlog |-> su.boot.log,
                     tosram |-> su.boot.tos, ctpci |-> su.boot.pciide]
  <2>1. \E failed, upd : "sv" \notin DOMAIN upd /\ flash' = WriteParams(upd, failed)
    <3> DEFINE old == [bootorder |-> su.boot.load.devs, bootlog |-> su.boot.load.log,
                       tosram |-> su.boot.load.tos, ctpci |-> su.boot.load.pciide]
               upd == [f \in {p \in DOMAIN now : now[p] # old[p]} |-> now[f]]
    <3>1. \E failed : flash' = WriteParams(upd, failed)
      BY <1>5, Zenon DEF saveToBoot
    <3>2. "sv" \notin DOMAIN now
      OBVIOUS
    <3> HIDE DEF now, old
    <3>3. "sv" \notin DOMAIN upd
      BY <3>2
    <3> HIDE DEF upd
    <3> QED
      BY <3>1, <3>3
  <2>2. flash'.sv = flash.sv
    BY <1>0, <2>1 DEF WriteParams
  <2> QED
    BY <1>3, <1>5, <2>2 DEF Held, SetupRuns
<1>6. CASE UNCHANGED <<flash, chip>>
  BY <1>3, <1>6 DEF Held, SetupRuns
<1> QED
  BY <1>4, <1>5, <1>6 DEF SaveForm

\* Every step of the setup.
LEMMA SetupReads ==
  ASSUME Inv, Held, SetupSession, su # Off
  PROVE  SetupRuns
<1>1. /\ IsSetup(su) /\ machine \in Machine /\ IsFlash(flash) /\ DOMAIN su = SETUP_FIELDS
      /\ IsCpu(su.cpu) /\ su.cpu.freq \in Int /\ su.open
  BY DEF Inv, Stored, IsSetup, Edited, Held, ReadIn
<1>2. ASSUME NEW x, DOMAIN x = SETUP_FIELDS, x.cpu = su.cpu, GoTo(x)
      PROVE  SetupRuns
  BY <1>1, <1>2, GoToRead
<1>3. ASSUME NEW x, At(x), x.row = su.row, x.fresh = su.fresh, x.boot = su.boot, x.cpu = su.cpu
      PROVE  SetupRuns
  BY <1>1, <1>3, PlaceRead
<1>4. ASSUME NEW x, NEW f \in {"st", "sel", "list"}, NEW v, x = [su EXCEPT ![f] = v]
      PROVE  x.row = su.row /\ x.fresh = su.fresh /\ x.boot = su.boot /\ x.cpu = su.cpu
  BY <1>1, <1>4 DEF SETUP_FIELDS
<1>5. ASSUME NEW f \in {"st", "sel", "list"}, NEW v, At([su EXCEPT ![f] = v])
      PROVE  SetupRuns
  BY <1>3, <1>4, <1>5, Zenon
<1>6. CASE MenuKey
  <2>1. \/ \E row, st : GoTo([su EXCEPT !.row = row, !.st = st])
        \/ \E row : GoTo([su EXCEPT !.row = row])
        \/ At([su EXCEPT !["st"] = "FORM_SELECT"])
    BY <1>6, Zenon DEF MenuKey
  <2>2. ASSUME NEW row, NEW st, GoTo([su EXCEPT !.row = row, !.st = st])
        PROVE  SetupRuns
    <3> DEFINE x == [su EXCEPT !.row = row, !.st = st]
    <3>1. DOMAIN x = SETUP_FIELDS /\ x.cpu = su.cpu /\ GoTo(x)
      BY <1>1, <2>2 DEF SETUP_FIELDS
    <3> QED
      BY <1>2, <3>1
  <2>3. ASSUME NEW row, GoTo([su EXCEPT !.row = row])
        PROVE  SetupRuns
    <3> DEFINE x == [su EXCEPT !.row = row]
    <3>1. DOMAIN x = SETUP_FIELDS /\ x.cpu = su.cpu /\ GoTo(x)
      BY <1>1, <2>3 DEF SETUP_FIELDS
    <3> QED
      BY <1>2, <3>1
  <2> QED
    BY <1>5, <2>1, <2>2, <2>3, Zenon
<1>7. CASE FormKey
  <2>1. \/ GoTo([su EXCEPT !.st = "MENU"])
        \/ \E sel : At([su EXCEPT !["sel"] = sel])
    BY <1>7, Zenon DEF FormKey
  <2>2. CASE GoTo([su EXCEPT !.st = "MENU"])
    <3> DEFINE x == [su EXCEPT !.st = "MENU"]
    <3>1. DOMAIN x = SETUP_FIELDS /\ x.cpu = su.cpu /\ GoTo(x)
      BY <1>1, <2>2 DEF SETUP_FIELDS
    <3> QED
      BY <1>2, <3>1
  <2> QED
    BY <1>5, <2>1, <2>2, Zenon
<1>8. CASE ListKey
  <2>1. \/ At([su EXCEPT !.st = "FORM_SELECT", !.list = 0])
        \/ \E list : At([su EXCEPT !["list"] = list])
        \/ NewValue(Setting(su), su.list)
    BY <1>8, Zenon DEF ListKey
  <2>2. su.st = "FORM_LIST" /\ Kind(Setting(su)) = "LIST"
    BY <1>1, <1>8 DEF ListKey, InForm, IsSetup, InForms
  <2>3. CASE At([su EXCEPT !.st = "FORM_SELECT", !.list = 0])
    <3> DEFINE x == [su EXCEPT !.st = "FORM_SELECT", !.list = 0]
    <3>1. At(x) /\ x.row = su.row /\ x.fresh = su.fresh /\ x.boot = su.boot /\ x.cpu = su.cpu
      BY <1>1, <2>3 DEF SETUP_FIELDS
    <3> QED
      BY <1>3, <3>1
  <2>4. CASE NewValue(Setting(su), su.list)
    BY <1>1, <2>2, <2>4, ValueRead
  <2> QED
    BY <1>5, <2>1, <2>3, <2>4, Zenon
<1>9. CASE UpDownKey
  <2>1. su.st = "FORM_UPDOWN" /\ Setting(su) = "freq"
    BY <1>1, <1>9 DEF UpDownKey, InForm, IsSetup, InForms
  <2>2. Kind("freq") # "FUNC"
    BY <1>1, KindIs
  <2>3. At([su EXCEPT !["st"] = "FORM_SELECT"]) \/ NewValue("freq", su.cpu.freq)
    BY <1>9 DEF UpDownKey
  <2>4. CASE NewValue("freq", su.cpu.freq)
    BY <1>1, <2>1, <2>2, <2>4, ValueRead
  <2>5. CASE At([su EXCEPT !["st"] = "FORM_SELECT"])
    BY <1>5, <2>5
  <2> QED
    BY <2>3, <2>4, <2>5
<1>10. CASE begun /\ \E d \in Present.keys : StepKey(d)
  <2>1. PICK d \in Present.keys : StepKey(d)
    BY <1>10
  <2>2. d \in {"up", "down", "left", "right"}
    <3>1. Present \in Session
      BY <1>10 DEF Inv, Scripted, Present
    <3> QED
      BY <3>1 DEF Session
  <2>3. Steps[d] \in Int
    BY <2>2 DEF Steps, StepOf, DAC_STEP, CY_STEP, CtcmDiv
  <2> DEFINE f == su.cpu.freq + Steps[d]
             x == [su EXCEPT !.cpu.freq = Limited(f)]
  <2>4. f \in Int
    BY <1>1, <2>3
  <2>5. At(x)
    BY <2>1 DEF StepKey
  <2> HIDE DEF f
  <2>6. /\ x.row = su.row /\ x.fresh = su.fresh /\ x.boot = su.boot
        /\ x.cpu = [su.cpu EXCEPT !.freq = Limited(f)]
    BY <1>1 DEF SETUP_FIELDS
  <2> HIDE DEF x
  <2> QED
    BY <1>1, <2>4, <2>5, <2>6, FreqRead
<1>11. CASE \E s : Enter(s)
  <2>1. PICK s : Enter(s)
    BY <1>11
  <2>2. su.st # "MENU" /\ s = Setting(su)
    BY <2>1 DEF Enter, InForm
  <2>3. \/ Kind(s) \in {"INPUT", "BOOL"} /\ \E v : NewValue(s, v)
        \/ At([su EXCEPT !["st"] = "FORM_LIST"])
        \/ At([su EXCEPT !.st = "FORM_UPDOWN", !.cpu.freq = Limited(su.cpu.freq)])
        \/ ReloadForm \/ SaveForm
    BY <2>1 DEF Enter
  <2>4. CASE Kind(s) \in {"INPUT", "BOOL"} /\ \E v : NewValue(s, v)
    BY <1>1, <2>2, <2>4, ValueRead
  <2>5. CASE At([su EXCEPT !["st"] = "FORM_LIST"])
    BY <1>5, <2>5
  <2>6. CASE At([su EXCEPT !.st = "FORM_UPDOWN", !.cpu.freq = Limited(su.cpu.freq)])
    <3> DEFINE f == Limited(su.cpu.freq)
               x == [su EXCEPT !.st = "FORM_UPDOWN", !.cpu.freq = f]
    <3>1. At(x)
      BY <2>6
    <3> HIDE DEF f
    <3>2. /\ x.row = su.row /\ x.fresh = su.fresh /\ x.boot = su.boot
          /\ x.cpu = [su.cpu EXCEPT !.freq = f]
      BY <1>1 DEF SETUP_FIELDS
    <3> HIDE DEF x
    <3> QED
      BY <1>1, <3>1, <3>2, FreqRead DEF f
  <2> QED
    BY <1>1, <2>3, <2>4, <2>5, <2>6, ReloadRead, SaveRead
<1>12. CASE \E how : Exit(how)
  BY <1>12 DEF Exit, Held, SetupRuns
<1>13. ~StartSetup
  BY <1>1 DEF StartSetup
<1> QED
  BY <1>6, <1>7, <1>8, <1>9, <1>10, <1>11, <1>12, <1>13, Zenon DEF SetupSession, Click

\* A session of the setup keeps the second invariant.
LEMMA SetupHeld ==
  ASSUME Inv, Held, SetupSession
  PROVE  Held'
<1>0. UNCHANGED <<pn, machine, started>> /\ IsFlash(flash) /\ machine \in Machine
  BY DEF SetupSession, Inv, Stored
<1>1. CASE su = Off
  <2>1. Begin("setup") /\ StartSetup
    BY <1>1, Zenon DEF SetupSession, MenuKey, FormKey, ListKey, UpDownKey, StepKey, Enter, Exit, InForm,
                       Off
  <2> DEFINE x == [open |-> TRUE, st |-> "MENU", row |-> 1, sel |-> 1, list |-> 0, nv |-> nvram,
                   cpu |-> NoCpu, boot |-> NoBoot, fresh |-> TRUE]
  <2>2. GoTo(x)
    BY <2>1 DEF StartSetup
  <2>3. DOMAIN x = SETUP_FIELDS /\ IsCpu(x.cpu) /\ x.cpu.freq \in Int
    BY DEF SETUP_FIELDS, IsCpu, NoCpu
  <2> HIDE DEF x
  <2>4. SetupRuns
    BY <2>2, <2>3, GoToRead
  <2>5. pn = Closed /\ begun' = TRUE /\ UNCHANGED chip
    BY <2>1, <2>2 DEF Begin, Held, Alone, GoTo
  <2>6. Alone'
    BY <1>0, <2>5 DEF Alone, Closed
  <2> QED
    BY <1>0, <2>4, <2>5, <2>6 DEF Held, SetupRuns, Closed, Off, ReadIn, HasCT60
<1>2. CASE su # Off
  <2>1. SetupRuns
    BY <1>2, SetupReads
  <2>2. pn = Closed /\ begun
    BY <1>2 DEF Held, Alone
  <2>3. begun' = TRUE
    BY <2>2, Zenon DEF SetupSession, Begin, Free, Click, Close
  <2>4. Alone'
    BY <1>0, <2>2, <2>3 DEF Alone, Closed
  <2> QED
    BY <1>0, <2>1, <2>2, <2>4 DEF Held, SetupRuns, Closed, Off, ReadIn, HasCT60
<1> QED
  BY <1>1, <1>2
\* Between two sessions neither is open, and the power only puts the registers back
\* to what the EEPROM holds.
LEMMA BetweenHeld ==
  ASSUME Inv, Held, NEW how, Between(how)
  PROVE  Held'
<1>1. /\ ~pn.open /\ ~su.open /\ begun' = FALSE /\ UNCHANGED <<flash, machine, pn, su>>
      /\ chip' = IF how = "power" THEN [chip EXCEPT !.ram = chip.rom] ELSE chip
  BY DEF Between
<1>2. pn = Closed /\ su = Off
  <2>1. IsPanel(pn, sv_top) => pn.open
    BY DEF IsPanel
  <2>2. IsSetup(su) => su.open
    BY DEF IsSetup, Edited
  <2> QED
    BY <1>1, <2>1, <2>2 DEF Inv
<1>3. IsChip(chip')
  <2>1. CASE how = "power"
    <3>1. DOMAIN chip = {"kind", "ram", "rom"} /\ chip' = [chip EXCEPT !.ram = chip.rom]
      BY <1>1, <2>1 DEF Held, IsChip
    <3>2. /\ DOMAIN chip' = {"kind", "ram", "rom"} /\ chip'.kind = chip.kind
          /\ chip'.ram = chip.rom /\ chip'.rom = chip.rom
      BY <3>1
    <3> QED
      BY <3>2 DEF Held, IsChip
  <2>2. CASE how # "power"
    BY <1>1, <2>2 DEF Held
  <2> QED
    BY <2>1, <2>2
<1>4. pn' = Closed /\ su' = Off
  BY <1>1, <1>2
<1>5. Alone'
  BY <1>1, <1>4 DEF Alone, Closed, Off
<1>6. ~pn'.open /\ ~su'.open
  BY <1>4 DEF Closed, Off
<1> QED
  BY <1>1, <1>3, <1>5, <1>6 DEF Held

\* A step of nobody changes nothing.
LEMMA StutterHeld ==
  ASSUME Held, UNCHANGED vars
  PROVE  Held'
<1>1. UNCHANGED <<flash, chip, machine, started, pn, su, begun>>
  BY DEF vars
<1>2. Least' = Least /\ Most' = Most
  BY <1>1, LimitsKept
<1>3. Below' = Below /\ HasCT60' = HasCT60
  BY <1>1 DEF Below, On060, HasCT60
<1>4. Alone'
  BY <1>1 DEF Held, Alone, Closed, Off
<1>5. pn'.open => Rules(pn', Below', Least', Most')
  BY <1>1, <1>2, <1>3 DEF Held, Rules
<1>6. (su.open => ReadIn(su, flash))'
  BY <1>1, <1>3 DEF Held, ReadIn
<1>7. (pn.open => Rules(pn, Below, Least, Most))'
  BY <1>5 DEF Rules
<1>8. (IsChip(chip) /\ flash.sv.boot \in WORDS)'
  BY <1>1 DEF Held
<1> QED
  BY <1>4, <1>6, <1>7, <1>8 DEF Held

\* It holds where a script begins.
LEMMA InitiallyHeld == Init => Held
<1> SUFFICES ASSUME Init PROVE Held
  OBVIOUS
<1>1. PICK s \in Starts :
        chip = s.chip /\ flash = s.flash /\ pn = Closed /\ su = Off /\ begun = FALSE
  BY DEF Init
<1>2. IsChip(s.chip) /\ s.flash.sv.boot \in WORDS
  BY SettingsAssumption
<1>3. ~pn.open /\ ~su.open
  BY <1>1 DEF Closed, Off
<1> QED
  BY <1>1, <1>2, <1>3 DEF Held, Alone

\* The second invariant: whatever bus and flash errors there are, the generator
\* stays one its driver can program, panel and setup are never open at once, the
\* panel's frequency stays within the limits it opened with, and what the setup
\* compares with when it saves is what it read.
THEOREM HeldInvariant == Spec => [](Inv /\ Held)
<1>1. Init => Inv /\ Held
  BY Initially, InitiallyHeld
<1>2. Inv /\ Held /\ [Next]_vars => Inv' /\ Held'
  <2> SUFFICES ASSUME Inv, Held, [Next]_vars PROVE Inv' /\ Held'
    OBVIOUS
  <2>1. CASE PanelSession
    BY <2>1, PanelStep, PanelHeld
  <2>2. CASE SetupSession
    BY <2>2, SetupStep, SetupHeld
  <2>3. CASE \E how \in {"none", "restart", "power"} : Between(how)
    BY <2>3, BetweenStep, BetweenHeld
  <2>4. CASE UNCHANGED vars
    BY <2>4, StutterStep, StutterHeld
  <2> QED
    BY <2>1, <2>2, <2>3, <2>4 DEF Next
<1> QED
  BY <1>1, <1>2, PTL DEF Spec
-----------------------------------------------------------------------------
(* The actions the properties are about, told by what they leave in ev.    *)
\* While the panel is open there is no setup.
LEMMA PanelOnly ==
  ASSUME Held, pn.open, SetupSession
  PROVE  FALSE
<1>1. su = Off /\ begun
  BY DEF Held, Alone, Closed
<1>2. Begin("setup") /\ StartSetup
  BY <1>1, Zenon DEF SetupSession, MenuKey, FormKey, ListKey, UpDownKey, StepKey, Enter, Exit, InForm,
                     Off
<1> QED
  BY <1>1, <1>2 DEF Begin

\* A step of the panel is SAVE or OK, or leaves the generator alone.
LEMMA PanelDoes ==
  ASSUME PanelSession
  PROVE  \/ /\ ev'.op \in {"open", "page", "control", "scroll", "load", "cancel", "calibrate"}
            /\ UNCHANGED chip
         \/ \E clicks \in {1, 2} : Save(clicks)
         \/ Ok
<1>1. \/ OpenPanel \/ SelectPage(Present.page) \/ Control \/ cpx_key \/ Scroll \/ Load
      \/ Calibrate \/ (\E clicks \in {1, 2} : Save(clicks)) \/ Ok \/ Cancel
  BY Zenon DEF PanelSession
<1>2. CASE OpenPanel \/ SelectPage(Present.page) \/ Control \/ cpx_key \/ Scroll
  <2>1. UNCHANGED chip /\ \E op \in {"open", "page", "control", "scroll"} : ev' = [op |-> op]
    BY <1>2, Zenon DEF OpenPanel, SelectPage, Control, cpx_key, Scroll
  <2> QED
    BY <2>1
<1>3. CASE Load \/ Cancel \/ Calibrate
  <2>1. UNCHANGED chip /\ \E op \in {"load", "cancel", "calibrate"} : ev' = [op |-> op]
    BY <1>3, Zenon DEF Load, Cancel, Calibrate
  <2> QED
    BY <2>1
<1> QED
  BY <1>1, <1>2, <1>3

\* the panel as SAVE tries or programs its frequency
Programs(p) ==
  \E r \in ct60_configure_clock(chip, p.freq, "rom", CPX_LIMITS, faults > 0) :
     /\ chip' = r.chip
     /\ ev' = [op |-> "eeprom", clock |-> r.err, freq |-> p.freq]

\* What SAVE does about the frequency: nothing, OK, or a call of the driver.
LEMMA SaveDoes ==
  ASSUME NEW clicks, Save(clicks)
  PROVE  \/ ev'.op = "save" /\ UNCHANGED chip
         \/ /\ WantsClock(clicks) /\ MustTry(Raised(pn)) /\ Accept(Raised(pn))
         \/ /\ WantsClock(clicks) /\ ~MustTry(Raised(pn)) /\ ~TooFast(Raised(pn))
            /\ Programs(Raised(pn))
<1> DEFINE p == Raised(pn)
<1>1. IF WantsClock(clicks) THEN SaveClock(p) ELSE SaveNoClock
  BY DEF Save
<1> HIDE DEF p
<1>2. CASE ~WantsClock(clicks)
  BY <1>1, <1>2 DEF SaveNoClock
<1>3. CASE WantsClock(clicks) /\ NotProgrammed(p)
  BY <1>3 DEF NotProgrammed
<1>4. CASE WantsClock(clicks) /\ ~NotProgrammed(p)
  <2>1. \/ MustTry(p) /\ Accept(p)
        \/ ~MustTry(p) /\ ~TooFast(p) /\ Programs(p)
    BY <1>1, <1>4, Zenon DEF SaveClock, Programs
  <2> QED
    BY <1>4, <2>1 DEF p
<1> QED
  BY <1>2, <1>3, <1>4

\* What the driver gives is within a step of what it was asked for, where the strap
\* is not taken to double it.
LEMMA GivenNear ==
  ASSUME NEW lim \in {CPX_LIMITS, SETUP_LIMITS}, NEW f \in Int, NEW g,
         Given(g, f, chip.kind, lim), chip.kind \in {"dallas", "cypress"},
         chip.kind = "dallas" => Strapped(f, lim) = f
  PROVE  Near(g, f)
<1>1. g \in Int
  BY DEF Given
<1>2. CASE chip.kind = "dallas"
  <2>1. g \in f - 49 .. f + 49
    BY <1>1, <1>2 DEF Given, DEF_FREQ
  <2>2. StepOf(chip) = 50
    BY <1>2 DEF StepOf, DAC_STEP
  <2> QED
    BY <1>1, <2>1, <2>2 DEF Near
<1>3. CASE chip.kind = "cypress"
  <2>1. g \in f - 124 .. f
    BY <1>3 DEF Given
  <2>2. StepOf(chip) = 125
    BY <1>3 DEF StepOf, CY_STEP
  <2> QED
    BY <1>1, <2>1, <2>2 DEF Near
<1> QED
  BY <1>2, <1>3

\* The panel programs the generator's EEPROM only with a frequency the machine is
\* running at and may start with, and the next power-on then gives that frequency
\* but for a step, whatever bus errors there were (MENUBSAVE, ct60_configure_clock).
THEOREM FrequencyTested == Spec => EepromTested
<1> DEFINE Tested == /\ ev'.op = "eeprom"
                     /\ ct60_read_clock(chip) <= MaxBoot
                     /\ ev'.clock = "none"
                          => Near(FrequencyOf(chip.kind, chip'.rom), ct60_read_clock(chip))
           Step == On060 /\ pn.open /\ chip'.rom # chip.rom => Tested
<1>1. Inv /\ Held /\ [Next]_vars => [Step]_vars
  <2> SUFFICES ASSUME Inv, Held, Next, On060, pn.open, chip'.rom # chip.rom
               PROVE  Tested
    OBVIOUS
  <2>1. ~SetupSession
    BY PanelOnly
  <2>2. \A how : ~Between(how)
    BY DEF Between
  <2>3. PanelSession
    BY <2>1, <2>2 DEF Next
  <2>4. /\ IsChip(chip) /\ IsPanel(pn, sv_top) /\ DOMAIN pn = FIELDS /\ pn.freq \in Nat
        /\ Rules(pn, Below, Least, Most) /\ machine \in Machine
    <3>1. IsPanel(pn, sv_top)
      BY DEF Inv, Closed
    <3>2. DOMAIN pn = FIELDS /\ pn.freq \in Nat
      BY <3>1, FieldIs DEF IsPanel
    <3> QED
      BY <3>1, <3>2 DEF Inv, Held
  <2>5. ASSUME NEW p, p.freq \in Nat, Accept(p) PROVE FALSE
    <3>1. PICK failed, err : Accepts(p, failed, err)
      BY <2>4, <2>5, AcceptIs
    <3> QED
      BY <3>1 DEF Accepts
  <2>6. PICK clicks \in {1, 2} : Save(clicks)
    <3>1. ~Ok
      BY <2>4, <2>5 DEF Ok
    <3> QED
      BY <2>3, <3>1, PanelDoes
  <2> DEFINE p == Raised(pn)
  <2>7. CASE WantsClock(clicks)
    <3>1. ct60_read_clock(chip) > 0
      BY <2>7 DEF WantsClock
    <3>2. ~Below
      BY <2>4, <3>1, ClockRead DEF Below
    <3>3. /\ p.freq \in Nat /\ p.freq >= p.min
          /\ chip.kind = "dallas" => p.min = 66600
      BY <2>4, <3>2, RaisedRules
    <3>4. ~MustTry(p) /\ ~TooFast(p) /\ Programs(p)
      BY <2>5, <2>6, <3>3, SaveDoes
    <3> HIDE DEF p
    <3>5. ct60_read_clock(chip) = p.freq
      BY <3>4 DEF MustTry
    <3>6. p.freq <= MaxBoot
      <4>1. MaxBoot \in Nat
        BY DEF MaxBoot
      <4>2. ~(p.freq > MaxBoot)
        BY <3>4 DEF TooFast
      <4> HIDE DEF MaxBoot
      <4> QED
        BY <3>3, <4>1, <4>2
    <3> DEFINE faulty == faults > 0
    <3>7. PICK r \in ct60_configure_clock(chip, p.freq, "rom", CPX_LIMITS, faulty) :
             chip' = r.chip /\ ev' = [op |-> "eeprom", clock |-> r.err, freq |-> p.freq]
      BY <3>4 DEF Programs
    <3> HIDE DEF faulty
    <3>8. Configures(chip, p.freq, "rom", CPX_LIMITS, r)
      BY <2>4, <3>3, <3>7, Configured
    <3>9. ASSUME r.err = "none"
          PROVE  Near(FrequencyOf(chip.kind, chip'.rom), p.freq)
      <4> DEFINE g == FrequencyOf(chip.kind, chip'.rom)
      <4>1. chip.kind # "none" /\ Given(g, p.freq, chip.kind, CPX_LIMITS)
        BY <3>7, <3>8, <3>9 DEF Configures
      <4>2. chip.kind \in {"dallas", "cypress"}
        BY <2>4, <4>1 DEF IsChip
      <4>3. chip.kind = "dallas" => Strapped(p.freq, CPX_LIMITS) = p.freq
        BY <3>3 DEF Strapped, CPX_LIMITS
      <4> HIDE DEF g
      <4>4. Near(g, p.freq)
        BY <3>3, <4>1, <4>2, <4>3, GivenNear
      <4> QED
        BY <4>4 DEF g
    <3>10. ev'.op = "eeprom" /\ ev'.clock = r.err
      BY <3>7
    <3> QED
      BY <3>5, <3>6, <3>9, <3>10
  <2>8. CASE ~WantsClock(clicks)
    BY <2>6, <2>8, SaveDoes
  <2> QED
    BY <2>7, <2>8
<1> QED
  BY HeldInvariant, <1>1, PTL DEF Spec, EepromTested
-----------------------------------------------------------------------------
\* A step of the setup is a save of the CPU or of the BOOT form, or is told apart.
LEMMA SetupDoes ==
  ASSUME SetupSession, ev'.op \in {"cpusave", "bootsave"}
  PROVE  /\ su.open /\ su' = [su EXCEPT !.fresh = FALSE] /\ HasCT60
         /\ \/ ev'.op = "cpusave" /\ su.row = 4 /\ saveFormCpu(su.cpu)
            \/ ev'.op = "bootsave" /\ su.row = 7 /\ saveToBoot(su.boot)
<1>1. ASSUME NEW x, GoTo(x) PROVE FALSE
  BY <1>1 DEF GoTo
<1>2. ASSUME NEW x, At(x) PROVE FALSE
  BY <1>2 DEF At
<1>3. ASSUME NEW s, NEW v, NewValue(s, v) PROVE FALSE
  <2>1. ev' = [op |-> "confirm", s |-> s, v |-> v]
    BY <1>3, Zenon DEF NewValue
  <2> QED
    BY <2>1
<1>4. ~StartSetup /\ ~MenuKey /\ ~FormKey /\ ~ListKey /\ ~UpDownKey /\ \A d : ~StepKey(d)
  BY <1>1, <1>2, <1>3, Zenon DEF StartSetup, MenuKey, FormKey, ListKey, UpDownKey, StepKey
<1>5. ~ReloadForm
  BY DEF ReloadForm
<1>6. \A how : ~Exit(how)
  <2> SUFFICES ASSUME NEW how, Exit(how) PROVE FALSE
    OBVIOUS
  <2>1. ev' = [op |-> "exit", how |-> how]
    BY DEF Exit
  <2> QED
    BY <2>1
<1>7. PICK s : Enter(s)
  BY <1>4, <1>6, Zenon DEF SetupSession
<1>8. SaveForm /\ su.open
  BY <1>2, <1>3, <1>5, <1>7, Zenon DEF Enter, InForm
<1>9. su' = [su EXCEPT !.fresh = FALSE]
  BY <1>8 DEF SaveForm
<1>10. \/ su.row = 4 /\ HasCT60 /\ saveFormCpu(su.cpu)
       \/ su.row = 7 /\ HasCT60 /\ saveToBoot(su.boot)
  BY <1>8 DEF SaveForm
<1>11. ASSUME saveFormCpu(su.cpu) PROVE ev'.op = "cpusave"
  <2>1. \E err, failed : ev' = [op |-> "cpusave", err |-> err, failed |-> failed]
    BY <1>11, Zenon DEF saveFormCpu
  <2> QED
    BY <2>1
<1>12. ASSUME saveToBoot(su.boot) PROVE ev'.op = "bootsave"
  <2>1. \E failed : ev' = [op |-> "bootsave", failed |-> failed]
    BY <1>12, Zenon DEF saveToBoot
  <2> QED
    BY <2>1
<1> QED
  BY <1>8, <1>9, <1>10, <1>11, <1>12

\* The BOOT form saved without a fault: what is in the flash is what it shows.
LEMMA BootStores ==
  ASSUME NEW b, b.devs \in 0 .. 7, IsFlash(flash), saveToBoot(b), ev'.failed = "none",
         b.load = [devs |-> flash.bootorder, log |-> flash.bootlog, tos |-> flash.tosram,
                   pciide |-> flash.ctpci]
  PROVE  /\ flash'.bootorder = b.devs /\ flash'.bootlog = b.log /\ flash'.tosram = b.tos
         /\ flash'.ctpci = b.pciide
<1> DEFINE now == [bootorder |-> b.devs % 8, bootlog |-> b.log, tosram |-> b.tos, ctpci |-> b.pciide]
           old == [bootorder |-> b.load.devs, bootlog |-> b.load.log,
                   tosram |-> b.load.tos, ctpci |-> b.load.pciide]
           upd == [f \in {p \in DOMAIN now : now[p] # old[p]} |-> now[f]]
           names == {"bootorder", "bootlog", "tosram", "ctpci"}
<1>1. PICK failed : flash' = WriteParams(upd, failed) /\ ev' = [op |-> "bootsave", failed |-> failed]
  BY Zenon DEF saveToBoot
<1>2. failed = "none"
  BY <1>1
<1>3. /\ DOMAIN now = names /\ now.bootorder = b.devs /\ now.bootlog = b.log /\ now.tosram = b.tos
      /\ now.ctpci = b.pciide
  <2>1. b.devs % 8 = b.devs
    OBVIOUS
  <2> QED
    BY <2>1
<1>4. \A f \in names : old[f] = flash[f]
  OBVIOUS
<1>5. names \subseteq DOMAIN flash
  BY DEF IsFlash, FLASH, SWITCHES
<1> HIDE DEF now, old
<1>6. \A f \in names : flash'[f] = now[f]
  <2> TAKE f \in names
  <2>1. flash'[f] = IF f \in DOMAIN upd /\ f # "none" THEN upd[f] ELSE flash[f]
    BY <1>1, <1>2, <1>5 DEF WriteParams
  <2>2. f \in DOMAIN upd <=> now[f] # old[f]
    BY <1>3
  <2>3. f \in DOMAIN upd => upd[f] = now[f]
    OBVIOUS
  <2> HIDE DEF upd
  <2> QED
    BY <1>4, <2>1, <2>2, <2>3
<1> QED
  BY <1>3, <1>6

\* The CPU form saved: the switches when the write did not fail, the frequency when
\* the generator took it.
LEMMA CpuStores ==
  ASSUME NEW c, NEW err, NEW failed, IsFlash(flash), CpuSaves(c, err, failed)
  PROVE  /\ failed = "none" /\ c.fpu_load = flash.cpufpu /\ c.blit_load = flash.blitter
              => flash'.cpufpu = c.fpu /\ flash'.blitter = c.blit
         /\ flash'.clock = IF err = "none" /\ failed # "clock" THEN c.freq ELSE flash.clock
<1> DEFINE W == CpuWrites(c, err)
           upd == [f \in W |-> CpuNow(c)[f]]
<1>1. flash' = WriteParams(upd, failed)
  BY DEF CpuSaves
<1>2. {"cpufpu", "blitter", "clock"} \subseteq DOMAIN flash
  BY DEF IsFlash, FLASH, SWITCHES
<1>3. /\ "cpufpu" \in W <=> c.fpu # c.fpu_load
      /\ "blitter" \in W <=> c.blit # c.blit_load
      /\ "clock" \in W <=> err = "none"
  BY DEF CpuWrites, ClockParam
<1>4. /\ "cpufpu" \in W => upd["cpufpu"] = c.fpu
      /\ "blitter" \in W => upd["blitter"] = c.blit
      /\ "clock" \in W => upd["clock"] = c.freq
  BY DEF CpuNow
<1>5. \A f \in {"cpufpu", "blitter", "clock"} :
         flash'[f] = IF f \in W /\ f # failed THEN upd[f] ELSE flash[f]
  BY <1>1, <1>2 DEF WriteParams
<1> HIDE DEF W, upd
<1> QED
  BY <1>3, <1>4, <1>5

\* The first Save after a form was read stores what it shows, and the frequency in
\* the flash follows the generator's EEPROM and changes only when that was
\* programmed, whatever was done in between (saveFormCpu, saveToBoot).
THEOREM SavesStore == Spec => SaveStores
<1> DEFINE Boots == ev'.op = "bootsave" /\ su.fresh /\ ev'.failed = "none"
                      => BootShown(reloadFromBoot(su.boot)') = BootShown(su.boot)
           again == CpuShown(reloadFormCpu(su.cpu)')
           Cpus == ev'.op = "cpusave" /\ su.fresh /\ ev'.failed = "none"
                     => again.fpu = CpuShown(su.cpu).fpu /\ again.blit = su.cpu.blit
           Clocks == ev'.op = "cpusave"
                       => IF ev'.err # "none" THEN flash'.clock = flash.clock
                          ELSE ev'.failed = "none" =>
                                 /\ flash'.clock = su.cpu.freq
                                 /\ ~WantsDoubling(su.cpu.freq)
                                      => Near(FrequencyOf(chip.kind, chip'.rom), su.cpu.freq)
<1>1. Inv /\ Held /\ [Next]_vars => [Boots /\ Cpus /\ Clocks]_vars
  <2> SUFFICES ASSUME Inv, Held, Next, ev'.op \in {"cpusave", "bootsave"}
               PROVE  Boots /\ Cpus /\ Clocks
    OBVIOUS
  <2>1. \A how \in {"none", "restart", "power"} : ~Between(how)
    BY DEF Between
  <2>2. ASSUME NEW p, Accept(p) PROVE FALSE
    <3>1. PICK failed, err, alert :
            ev' = [op |-> "ok", freq |-> p.freq, failed |-> failed, clock |-> err, alert |-> alert]
      BY <2>2, Zenon DEF Accept
    <3> QED
      BY <3>1
  <2>3. ~PanelSession
    <3>1. \A clicks : ~Save(clicks)
      <4> SUFFICES ASSUME NEW clicks, Save(clicks) PROVE FALSE
        OBVIOUS
      <4>1. ASSUME NEW p, Programs(p) PROVE FALSE
        <5>1. \E err : ev' = [op |-> "eeprom", clock |-> err, freq |-> p.freq]
          BY <4>1, Zenon DEF Programs
        <5> QED
          BY <5>1
      <4> QED
        BY <2>2, <4>1, SaveDoes
    <3> QED
      BY <2>2, <3>1, PanelDoes DEF Ok
  <2>4. SetupSession
    BY <2>1, <2>3 DEF Next
  <2>5. /\ IsFlash(flash) /\ IsChip(chip) /\ su.open /\ IsSetup(su) /\ ReadIn(su, flash)
        /\ HasCT60 /\ su' = [su EXCEPT !.fresh = FALSE] /\ HasCT60'
        /\ \/ ev'.op = "cpusave" /\ su.row = 4 /\ saveFormCpu(su.cpu)
           \/ ev'.op = "bootsave" /\ su.row = 7 /\ saveToBoot(su.boot)
    <3>1. HasCT60' = HasCT60
      BY <2>4 DEF SetupSession, HasCT60
    <3>2. su.open
      BY <2>4, SetupDoes
    <3> QED
      BY <2>4, <3>1, <3>2, SetupDoes DEF Inv, Stored, Held, Off
  <2>6. DOMAIN su = SETUP_FIELDS /\ su.boot.devs \in 0 .. 7 /\ su.cpu.freq \in Int
    BY <2>5 DEF IsSetup, Edited, IsBoot, ReadIn
  <2>7. su'.boot = su.boot /\ su'.cpu = su.cpu
    BY <2>5, <2>6 DEF SETUP_FIELDS
  <2>8. Boots
    <3> SUFFICES ASSUME ev'.op = "bootsave", su.fresh, ev'.failed = "none"
                 PROVE  BootShown(reloadFromBoot(su.boot)') = BootShown(su.boot)
      OBVIOUS
    <3>1. su.row = 7 /\ saveToBoot(su.boot)
      BY <2>5
    <3>2. su.boot.load = [devs |-> flash.bootorder, log |-> flash.bootlog, tos |-> flash.tosram,
                          pciide |-> flash.ctpci]
      BY <2>5, <3>1 DEF ReadIn
    <3>3. /\ flash'.bootorder = su.boot.devs /\ flash'.bootlog = su.boot.log
          /\ flash'.tosram = su.boot.tos /\ flash'.ctpci = su.boot.pciide
      BY <2>5, <2>6, <3>1, <3>2, BootStores
    <3> DEFINE r == reloadFromBoot(su.boot)'
    <3>4. /\ r.devs = flash'.bootorder /\ r.log = flash'.bootlog /\ r.tos = flash'.tosram
          /\ r.pciide = flash'.ctpci
      BY <2>5 DEF reloadFromBoot
    <3> HIDE DEF r
    <3>5. BootShown(r) = BootShown(su.boot)
      BY <3>3, <3>4 DEF BootShown
    <3> QED
      BY <3>5 DEF r
  <2>9. ASSUME ev'.op = "cpusave"
        PROVE  Cpus /\ Clocks
    <3>1. su.row = 4 /\ saveFormCpu(su.cpu)
      BY <2>5, <2>9
    <3>2. PICK err, failed : CpuSaves(su.cpu, err, failed)
      BY <2>5, <2>6, <3>1, CpuSaveIs
    <3>3. ev'.err = err /\ ev'.failed = failed
      BY <3>2 DEF CpuSaves
    <3>4. /\ failed = "none" /\ su.cpu.fpu_load = flash.cpufpu /\ su.cpu.blit_load = flash.blitter
               => flash'.cpufpu = su.cpu.fpu /\ flash'.blitter = su.cpu.blit
          /\ flash'.clock = IF err = "none" /\ failed # "clock" THEN su.cpu.freq ELSE flash.clock
      BY <2>5, <3>2, CpuStores
    <3>5. Cpus
      <4> SUFFICES ASSUME su.fresh, ev'.failed = "none"
                   PROVE  again.fpu = CpuShown(su.cpu).fpu /\ again.blit = su.cpu.blit
        OBVIOUS
      <4>1. flash'.cpufpu = su.cpu.fpu /\ flash'.blitter = su.cpu.blit
        BY <2>5, <3>1, <3>3, <3>4 DEF ReadIn
      <4> DEFINE r == reloadFormCpu(su.cpu)'
      <4>2. r.fpu = flash'.cpufpu /\ r.blit = flash'.blitter
        BY <2>5 DEF reloadFormCpu, readCT60Settings
      <4> HIDE DEF r
      <4>3. CpuShown(r).fpu = CpuShown(su.cpu).fpu /\ CpuShown(r).blit = su.cpu.blit
        BY <4>1, <4>2 DEF CpuShown
      <4> QED
        BY <4>3 DEF r
    <3>6. Clocks
      <4>1. CASE err # "none"
        BY <3>3, <3>4, <4>1
      <4>2. CASE err = "none"
        <5> DEFINE g == FrequencyOf(chip.kind, chip'.rom)
                   f == su.cpu.freq
        <5>1. chip.kind # "none" /\ Given(g, f, chip.kind, SETUP_LIMITS)
          BY <3>2, <4>2 DEF CpuSaves
        <5>2. chip.kind \in {"dallas", "cypress"}
          BY <2>5, <5>1 DEF IsChip
        <5>3. ASSUME ~WantsDoubling(f) PROVE Near(g, f)
          <6>1. chip.kind = "dallas" => Strapped(f, SETUP_LIMITS) = f
            BY <5>3 DEF WantsDoubling
          <6> HIDE DEF g, f
          <6>2. f \in Int
            BY <2>6 DEF f
          <6> QED
            BY <5>1, <5>2, <6>1, <6>2, GivenNear
        <5> QED
          BY <3>3, <3>4, <4>2, <5>3
      <4> QED
        BY <4>1, <4>2
    <3> QED
      BY <3>5, <3>6
  <2>10. Cpus /\ Clocks
    BY <2>9
  <2> QED
    BY <2>8, <2>10
<1>2. [Boots /\ Cpus /\ Clocks]_vars
         => [/\ ev'.op = "bootsave" /\ su.fresh /\ ev'.failed = "none"
                  => BootShown(reloadFromBoot(su.boot)') = BootShown(su.boot)
             /\ ev'.op = "cpusave" /\ su.fresh /\ ev'.failed = "none"
                  => LET new == CpuShown(reloadFormCpu(su.cpu)')
                     IN  new.fpu = CpuShown(su.cpu).fpu /\ new.blit = su.cpu.blit
             /\ ev'.op = "cpusave"
                  => IF ev'.err # "none" THEN flash'.clock = flash.clock
                     ELSE ev'.failed = "none" =>
                            /\ flash'.clock = su.cpu.freq
                            /\ ~WantsDoubling(su.cpu.freq)
                                 => Near(FrequencyOf(chip.kind, chip'.rom), su.cpu.freq)]_vars
  OBVIOUS
<1> QED
  BY HeldInvariant, <1>1, <1>2, PTL DEF Spec, SaveStores
-----------------------------------------------------------------------------
(* What is written is what is read back: codes, modes and times.           *)
\* The index of a code of a table without doubles.
LEMMA IndexOfCode ==
  ASSUME NEW codes, NEW i \in DOMAIN codes, \A m, n \in DOMAIN codes : codes[m] = codes[n] => m = n
  PROVE  IndexOf(codes[i], codes) = i - 1
<1>1. codes[i] \in Range(codes)
  BY Zenon DEF Range
<1>2. (CHOOSE j \in DOMAIN codes : codes[j] = codes[i]) = i
  OBVIOUS
<1> QED
  BY <1>1, <1>2 DEF IndexOf

\* The panel's tables have none.
LEMMA IndexesAre ==
  /\ \A i \in 0 .. 6 : IndexOf(code_lang[i + 1], code_lang) = i
  /\ \A i \in 0 .. 8 : IndexOf(code_key[i + 1], code_key) = i
  /\ \A i \in 0 .. 5 : IndexOf(code_os[i + 1], code_os) = i
<1>1. ASSUME NEW codes, NEW k \in Nat, DOMAIN codes = 1 .. k + 1, NEW i \in 0 .. k,
             \A m, n \in 1 .. k + 1 : codes[m] = codes[n] => m = n
      PROVE  IndexOf(codes[i + 1], codes) = i
  <2>1. i + 1 \in DOMAIN codes
    BY <1>1
  <2>2. \A m, n \in DOMAIN codes : codes[m] = codes[n] => m = n
    BY <1>1, Zenon
  <2>3. IndexOf(codes[i + 1], codes) = (i + 1) - 1
    BY <2>1, <2>2, IndexOfCode
  <2> QED
    BY <1>1, <2>3
<1>2. DOMAIN code_lang = 1 .. 6 + 1 /\ \A m, n \in 1 .. 6 + 1 : code_lang[m] = code_lang[n] => m = n
  BY DEF code_lang
<1>3. DOMAIN code_key = 1 .. 8 + 1 /\ \A m, n \in 1 .. 8 + 1 : code_key[m] = code_key[n] => m = n
  BY DEF code_key
<1>4. DOMAIN code_os = 1 .. 5 + 1 /\ \A m, n \in 1 .. 5 + 1 : code_os[m] = code_os[n] => m = n
  BY DEF code_os
<1> QED
  BY <1>1, <1>2, <1>3, <1>4

\* A legal mode is shown as it is.
LEMMA LegalOpened ==
  ASSUME NEW vm \in VMode, LegalMode(vm)
  PROVE  VideoOpened(vm) = vm
<1> DEFINE r == StRes(vm.planes)
           m == VideoOpened(vm)
<1>0. /\ DOMAIN vm = {"planes", "c80", "vga", "pal", "ovr", "st", "vert"}
      /\ vm.c80 \in BOOLEAN /\ vm.vga \in BOOLEAN /\ vm.vert \in BOOLEAN /\ vm.st \in BOOLEAN
      /\ vm = [f \in DOMAIN vm |-> vm[f]]
  <2>1. vm = [f \in DOMAIN vm |-> vm[f]]
    BY DEF VMode
  <2> QED
    BY <2>1, ModeFields
<1>1. CASE vm.st
  <2>1. vm.planes < 3 /\ ResIndex(vm) = r
    BY <1>1 DEF LegalMode
  <2> DEFINE c == r >= 2
             v == IF r % 2 = 1 THEN ~vm.vga ELSE vm.vga
  <2>2. m = [vm EXCEPT !.c80 = c, !.vert = v]
    BY <1>1, <2>1, Zenon DEF VideoOpened, StForced, SetRes
  <2>3. r = (IF vm.c80 THEN 2 ELSE 0) + (IF vm.vert # vm.vga THEN 1 ELSE 0)
    BY <2>1 DEF ResIndex
  <2> HIDE DEF r
  <2>4. c = vm.c80
    <3>1. c <=> vm.c80
      BY <2>3
    <3>2. c \in BOOLEAN
      OBVIOUS
    <3> HIDE DEF c
    <3> QED
      BY <1>0, <3>1, <3>2
  <2>5. v = vm.vert
    <3>1. r % 2 = 1 <=> vm.vert # vm.vga
      BY <2>3
    <3>2. vm.vert # vm.vga => vm.vert = ~vm.vga
      BY <1>0
    <3> QED
      BY <3>1, <3>2, Zenon
  <2> HIDE DEF c, v, m
  <2>6. m = vm
    BY <1>0, <2>2, <2>4, <2>5
  <2> QED
    BY <2>6 DEF m
<1>2. CASE ~vm.st
  <2>1. m = [vm EXCEPT !.st = FALSE]
    BY <1>2 DEF VideoOpened
  <2>2. vm.st = FALSE
    BY <1>0, <1>2
  <2> QED
    BY <1>0, <2>1, <2>2
<1> QED
  BY <1>1, <1>2

\* What the panel writes, read back, is what it shows.
LEMMA ShownCoded ==
  ASSUME NEW p, NEW top, IsPanel(p, top), NEW r, \A f \in NV_FIELDS : r[f] = Coded(p)[f]
  PROVE  /\ \A f \in NvFields : Shown(r)[f] = p[f]
         /\ LegalMode(p.vmode) => Shown(r).vmode = p.vmode
<1>1. \A f \in NV_FIELDS : p[f] \in Field(f)
  BY FieldSets DEF IsPanel
<1>2. /\ p.language \in 0 .. 6 /\ p.keyboard \in 0 .. 8 /\ p.bootpref \in 0 .. 5
      /\ p.delay \in 0 .. 99 /\ p.vmode \in VMode
  BY <1>1, FieldIs, PopupIs DEF NV_FIELDS, Popups
<1>3. /\ r.language = code_lang[p.language + 1] /\ r.keyboard = code_key[p.keyboard + 1]
      /\ r.bootpref = code_os[p.bootpref + 1] /\ r.vmode = p.vmode /\ r.delay = p.delay
      /\ r.df = p.df /\ r.tf = p.tf /\ r.sep = p.sep /\ r.arb = p.arb /\ r.id = p.id
  BY DEF Coded, NV_FIELDS
<1>4. /\ IndexOf(r.language, code_lang) = p.language
      /\ IndexOf(r.keyboard, code_key) = p.keyboard
      /\ IndexOf(r.bootpref, code_os) = p.bootpref
  BY <1>2, <1>3, IndexesAre
<1>5. AtMost(r.delay, 99) = p.delay
  BY <1>2, <1>3 DEF AtMost
<1>6. LegalMode(p.vmode) => VideoOpened(r.vmode) = p.vmode
  BY <1>2, <1>3, LegalOpened
<1> DEFINE s == Shown(r)
<1>7. /\ s.language = p.language /\ s.keyboard = p.keyboard /\ s.bootpref = p.bootpref
      /\ s.delay = p.delay /\ s.df = p.df /\ s.tf = p.tf /\ s.sep = p.sep /\ s.arb = p.arb
      /\ s.id = p.id /\ s.vmode = VideoOpened(r.vmode)
  BY <1>3, <1>4, <1>5 DEF Shown
<1> HIDE DEF s
<1>8. \A f \in NvFields : s[f] = p[f]
  BY <1>7 DEF NvFields, NV_FIELDS
<1> QED
  BY <1>6, <1>7, <1>8 DEF s

\* A time of day, in the word and back.
LEMMA TimeBack ==
  ASSUME NEW t \in Times, t \div 100 < 24, t % 100 < 60
  PROVE  TimeText(TimeWord(t)) = t
<1> DEFINE h == t \div 100
           m == t % 100
<1>1. t \in Nat /\ h \in 0 .. 23 /\ m \in 0 .. 59 /\ t = 100 * h + m
  BY DEF Times
<1> DEFINE w == 2048 * h + 32 * m
<1>2. TimeWord(t) = w % WORD
  BY DEF TimeWord
<1> HIDE DEF h, m
<1>3. w \in Nat /\ w <= 65535
  BY <1>1, SMT
<1>4. TimeWord(t) = w
  BY <1>2, <1>3, WordMost, SMT
<1>5. (w \div 2048) % 32 = h /\ (w \div 32) % 64 = m
  <2>1. w \div 2048 = h
    BY <1>1, SMT
  <2>2. w \div 32 = 64 * h + m
    BY <1>1, SMT
  <2>3. h % 32 = h /\ (64 * h + m) % 64 = m
    BY <1>1, SMT
  <2> HIDE DEF w
  <2> QED
    BY <2>1, <2>2, <2>3
<1> HIDE DEF w
<1>6. TimeText(w) = AtMost(100 * h + m, 2359)
  BY <1>5 DEF TimeText
<1> QED
  BY <1>1, <1>4, <1>6, SMT DEF AtMost
-----------------------------------------------------------------------------
\* What LOAD shows of the header SAVE made.
LEMMA HeaderBack ==
  ASSUME NEW p, NEW top, IsPanel(p, top)
  PROVE  LET h == HeaderOf(p)
         IN  /\ \A f \in NvFields : Shown(h)[f] = p[f]
             /\ LegalMode(p.vmode) => Shown(h).vmode = p.vmode
             /\ \A f \in SWITCHES : h[f] = p[f]
             /\ \A f \in {"daystop", "beep"} : Kept(h)[f] = p[f]
             /\ p.trigger > 0 => Kept(h).trigger = p.trigger
             /\ p.time \div 100 < 24 /\ p.time % 100 < 60 => Kept(h).time = p.time
             /\ h.frequency = p.freq
<1> DEFINE h == HeaderOf(p)
           word == TimeWord(p.time)
           c == Coded(p)
<1>1. h = [f \in HEADER |-> CASE f \in NV_FIELDS -> c[f] [] f = "timestop" -> word
                              [] f = "frequency" -> p.freq [] OTHER -> p[f]]
  BY Zenon DEF HeaderOf, HeaderWith, HEADER
<1>2. p.trigger \in 0 .. 99 /\ p.daystop \in 0 .. 10 /\ p.time \in Times
  BY FieldIs, PopupIs DEF IsPanel, Popups
<1>3. /\ {"trigger", "daystop", "beep", "timestop", "frequency"} \cap (NV_FIELDS \cup SWITCHES) = {}
      /\ HEADER = NV_FIELDS \cup SWITCHES
                    \cup {"trigger", "daystop", "beep", "timestop", "frequency"}
      /\ SWITCHES \cap NV_FIELDS = {}
  BY DEF HEADER, NV_FIELDS, SWITCHES
<1> HIDE DEF h, word, c
<1>4. /\ \A f \in NV_FIELDS : h[f] = c[f]
      /\ \A f \in SWITCHES \cup {"trigger", "daystop", "beep"} : h[f] = p[f]
      /\ h.timestop = word /\ h.frequency = p.freq
  BY <1>1, <1>3
<1>5. /\ \A f \in NvFields : Shown(h)[f] = p[f]
      /\ LegalMode(p.vmode) => Shown(h).vmode = p.vmode
  BY <1>4, ShownCoded DEF c
<1>6. Kept(h).daystop = p.daystop /\ Kept(h).beep = p.beep
  BY <1>2, <1>4 DEF Kept
<1>7. p.trigger > 0 => Kept(h).trigger = p.trigger
  BY <1>2, <1>4 DEF Kept, AtMost
<1>8. p.time \div 100 < 24 /\ p.time % 100 < 60 => Kept(h).time = p.time
  <2>1. Kept(h).time = TimeText(word)
    BY <1>4 DEF Kept
  <2> QED
    BY <1>2, <2>1, TimeBack DEF word
<1>9. \A f \in {"daystop", "beep"} : Kept(h)[f] = p[f]
  BY <1>6
<1> QED
  BY <1>4, <1>5, <1>7, <1>8, <1>9 DEF h

\* LOAD, field by field.
LEMMA LoadedIs ==
  ASSUME NEW p, NEW h
  PROVE  LET q == Loaded(p, h)
         IN  /\ \A f \in SHOWN : q[f] = Shown(h)[f]
             /\ \A f \in SWITCHES : q[f] = h[f]
             /\ \A f \in KEPT : q[f] = Kept(h)[f]
             /\ q.freq = IF Below THEN 0 ELSE Clamp(h.frequency, p.min, p.max)
<1> DEFINE freq == IF On060 /\ ct60_read_clock(chip) < 0 THEN 0 ELSE Clamp(h.frequency, p.min, p.max)
           q == Loaded(p, h)
           s == Shown(h)
           k == Kept(h)
           edit == EditOn(FirstPage, p)
<1>1. q = [f \in FIELDS |->
     CASE f \in SHOWN    -> s[f]
       [] f \in SWITCHES -> h[f]
       [] f \in KEPT     -> k[f]
       [] f = "freq"     -> freq
       [] f = "page"     -> FirstPage
       [] f = "edit"     -> edit
       [] OTHER          -> p[f]]
  BY Zenon DEF Loaded
<1>2. freq = IF Below THEN 0 ELSE Clamp(h.frequency, p.min, p.max)
  BY DEF Below
<1> HIDE DEF freq, q, s, k, edit
<1>3. "freq" \in CLOCK
  BY DEF CLOCK
<1>4. /\ \A f \in SHOWN : q[f] = s[f]
      /\ \A f \in SWITCHES : q[f] = h[f]
      /\ \A f \in KEPT : q[f] = k[f]
      /\ q.freq = freq
  BY <1>1, <1>3, FieldSets
<1> QED
  BY <1>2, <1>4 DEF q, s, k

\* The same, as the next state's LOAD would show it.
LEMMA LoadedPrimed ==
  LET q == Loaded(pn, head)'
  IN  /\ \A f \in SHOWN : q[f] = Shown(head')[f]
      /\ \A f \in SWITCHES : q[f] = head'[f]
      /\ \A f \in KEPT : q[f] = Kept(head')[f]
      /\ q.freq = IF Below' THEN 0 ELSE Clamp(head'.frequency, pn'.min, pn'.max)
<1> DEFINE freq == IF On060' /\ ct60_read_clock(chip') < 0 THEN 0
                   ELSE Clamp(head'.frequency, pn'.min, pn'.max)
           q == Loaded(pn, head)'
           s == Shown(head')
           k == Kept(head')
           h == head'
           edit == EditOn(FirstPage, pn)'
           page == FirstPage'
           p == pn'
<1>1. q = [f \in FIELDS |->
     CASE f \in SHOWN    -> s[f]
       [] f \in SWITCHES -> h[f]
       [] f \in KEPT     -> k[f]
       [] f = "freq"     -> freq
       [] f = "page"     -> page
       [] f = "edit"     -> edit
       [] OTHER          -> p[f]]
  BY Zenon DEF Loaded
<1>2. freq = IF Below' THEN 0 ELSE Clamp(h.frequency, p.min, p.max)
  BY DEF Below
<1> HIDE DEF freq, q, s, k, h, edit, page, p
<1>3. "freq" \in CLOCK
  BY DEF CLOCK
<1>4. /\ \A f \in SHOWN : q[f] = s[f]
      /\ \A f \in SWITCHES : q[f] = h[f]
      /\ \A f \in KEPT : q[f] = k[f]
      /\ q.freq = freq
  BY <1>1, <1>3, FieldSets
<1> QED
  BY <1>2, <1>4 DEF q, s, k, h, p

\* No step of the setup is an OK or a SAVE of the panel.
LEMMA SetupSavesNot ==
  ASSUME SetupSession
  PROVE  ev'.op \notin {"ok", "save"}
<1> SUFFICES ASSUME ev'.op \in {"ok", "save"} PROVE FALSE
  OBVIOUS
<1>1. ASSUME NEW x, GoTo(x) PROVE FALSE
  BY <1>1 DEF GoTo
<1>2. ASSUME NEW x, At(x) PROVE FALSE
  BY <1>2 DEF At
<1>3. ASSUME NEW s, NEW v, NewValue(s, v) PROVE FALSE
  <2>1. ev' = [op |-> "confirm", s |-> s, v |-> v]
    BY <1>3, Zenon DEF NewValue
  <2> QED
    BY <2>1
<1>4. ~StartSetup /\ ~MenuKey /\ ~FormKey /\ ~ListKey /\ ~UpDownKey /\ \A d : ~StepKey(d)
  BY <1>1, <1>2, <1>3, Zenon DEF StartSetup, MenuKey, FormKey, ListKey, UpDownKey, StepKey
<1>5. ~ReloadForm
  BY DEF ReloadForm
<1>6. \A how : ~Exit(how)
  <2> SUFFICES ASSUME NEW how, Exit(how) PROVE FALSE
    OBVIOUS
  <2>1. ev' = [op |-> "exit", how |-> how]
    BY DEF Exit
  <2> QED
    BY <2>1
<1>7. ~saveFormCpu(su.cpu)
  <2> SUFFICES ASSUME saveFormCpu(su.cpu) PROVE FALSE
    OBVIOUS
  <2>1. \E err, failed : ev' = [op |-> "cpusave", err |-> err, failed |-> failed]
    BY Zenon DEF saveFormCpu
  <2> QED
    BY <2>1
<1>8. ~saveToBoot(su.boot)
  <2> SUFFICES ASSUME saveToBoot(su.boot) PROVE FALSE
    OBVIOUS
  <2>1. \E failed : ev' = [op |-> "bootsave", failed |-> failed]
    BY Zenon DEF saveToBoot
  <2> QED
    BY <2>1
<1>9. ~SaveForm
  BY <1>7, <1>8 DEF SaveForm
<1>10. \A s : ~Enter(s)
  BY <1>2, <1>3, <1>5, <1>9, Zenon DEF Enter
<1> QED
  BY <1>4, <1>6, <1>10, Zenon DEF SetupSession

\* The frequency SAVE recorded is the one LOAD gives the panel SAVE leaves.
LEMMA FrequencyBack ==
  ASSUME NEW f \in Nat, NEW min \in Nat, NEW max \in Nat, NEW now,
         now = f \/ now = AtLeast(f, min), now \in min .. max
  PROVE  Clamp(f, min, max) = now
BY DEF Clamp, AtLeast

\* A step that is a SAVE of the settings.
LEMMA SavesOnly ==
  ASSUME PanelSession, ev'.op = "save"
  PROVE  /\ pn.open /\ head' = HeaderOf(pn) /\ UNCHANGED <<chip, machine>>
         /\ pn' = pn \/ (pn' = Raised(pn) /\ ct60_read_clock(chip) > 0)
<1>1. ASSUME NEW p, Accept(p) PROVE FALSE
  <2>1. PICK failed, err, alert :
          ev' = [op |-> "ok", freq |-> p.freq, failed |-> failed, clock |-> err, alert |-> alert]
    BY <1>1, Zenon DEF Accept
  <2> QED
    BY <2>1
<1>2. PICK clicks \in {1, 2} : Save(clicks)
  BY <1>1, PanelDoes DEF Ok
<1>3. ASSUME NEW p, Programs(p) PROVE FALSE
  <2>1. \E err : ev' = [op |-> "eeprom", clock |-> err, freq |-> p.freq]
    BY <1>3, Zenon DEF Programs
  <2> QED
    BY <2>1
<1>4. IF WantsClock(clicks) THEN SaveClock(Raised(pn)) ELSE SaveNoClock
  BY <1>2 DEF Save
<1>5. \/ SaveNoClock
      \/ NotProgrammed(Raised(pn)) /\ ct60_read_clock(chip) > 0
  <2>1. ASSUME SaveClock(Raised(pn)) PROVE NotProgrammed(Raised(pn))
    BY <1>1, <1>3, <2>1, Zenon DEF SaveClock, Programs
  <2> QED
    BY <1>4, <2>1 DEF WantsClock
<1> QED
  BY <1>2, <1>5 DEF Save, SaveNoClock, NotProgrammed, PanelSession

\* What SAVE recorded, LOAD shows again: every code, mode and switch, and each
\* number the user entered that its field can mean (MENUBSAVE, MENUBLOAD).
THEOREM LoadsSaved == Spec => LoadGivesSaved
<1> DEFINE again == Loaded(pn, head)'
           Saves == /\ \A f \in NvFields \cup SWITCHES \cup {"daystop", "beep"} : again[f] = pn[f]
                    /\ LegalMode(pn.vmode) => again.vmode = pn.vmode
                    /\ pn.trigger > 0 => again.trigger = pn.trigger
                    /\ pn.time \div 100 < 24 /\ pn.time % 100 < 60 => again.time = pn.time
                    /\ pn'.freq \in pn'.min .. pn'.max => again.freq = pn'.freq
           Step == ev'.op = "save" => Saves
<1>1. Inv /\ Held /\ [Next]_vars => [Step]_vars
  <2> SUFFICES ASSUME Inv, Held, Next, ev'.op = "save" PROVE Saves
    OBVIOUS
  <2>1. \A how \in {"none", "restart", "power"} : ~Between(how)
    BY DEF Between
  <2>2. ~SetupSession
    BY SetupSavesNot
  <2>3. PanelSession
    BY <2>1, <2>2 DEF Next
  <2>4. /\ pn.open /\ head' = HeaderOf(pn) /\ UNCHANGED <<chip, machine>>
        /\ pn' = pn \/ (pn' = Raised(pn) /\ ct60_read_clock(chip) > 0)
    BY <2>3, SavesOnly
  <2>5. /\ IsPanel(pn, sv_top) /\ Rules(pn, Below, Least, Most) /\ IsChip(chip)
    BY <2>4 DEF Inv, Held, Closed
  <2> DEFINE h == HeaderOf(pn)
  <2>6. /\ \A f \in NvFields : Shown(h)[f] = pn[f]
        /\ LegalMode(pn.vmode) => Shown(h).vmode = pn.vmode
        /\ \A f \in SWITCHES : h[f] = pn[f]
        /\ \A f \in {"daystop", "beep"} : Kept(h)[f] = pn[f]
        /\ pn.trigger > 0 => Kept(h).trigger = pn.trigger
        /\ pn.time \div 100 < 24 /\ pn.time % 100 < 60 => Kept(h).time = pn.time
        /\ h.frequency = pn.freq
    BY <2>5, HeaderBack
  <2>7. /\ \A f \in SHOWN : again[f] = Shown(head')[f]
        /\ \A f \in SWITCHES : again[f] = head'[f]
        /\ \A f \in KEPT : again[f] = Kept(head')[f]
        /\ again.freq = IF Below' THEN 0 ELSE Clamp(head'.frequency, pn'.min, pn'.max)
    BY LoadedPrimed
  <2>8. head' = h
    BY <2>4
  <2>9. NvFields \subseteq SHOWN /\ "vmode" \in SHOWN /\ {"daystop", "beep", "trigger", "time"} \subseteq KEPT
    BY DEF NvFields, SHOWN, KEPT, NV_FIELDS
  <2> HIDE DEF h, again
  <2>10. /\ \A f \in NvFields \cup SWITCHES \cup {"daystop", "beep"} : again[f] = pn[f]
         /\ LegalMode(pn.vmode) => again.vmode = pn.vmode
    BY <2>6, <2>7, <2>8, <2>9
  <2>11. /\ pn.trigger > 0 => again.trigger = pn.trigger
         /\ pn.time \div 100 < 24 /\ pn.time % 100 < 60 => again.time = pn.time
    BY <2>6, <2>7, <2>8, <2>9
  <2>12. ASSUME pn'.freq \in pn'.min .. pn'.max
         PROVE  again.freq = pn'.freq
    <3>1. pn.freq \in Nat
      BY <2>5, FieldIs DEF IsPanel
    <3>2. IsPanel(pn', sv_top)
      BY <2>4, <2>5, RaisedIs
    <3>3. pn'.min \in Nat /\ pn'.max \in Nat /\ pn'.min > 0
      <4>1. pn'.min \in {33300, 65000, 66600} /\ pn'.max \in {66000, 75000, 110000}
        BY <3>2, FieldIs DEF IsPanel
      <4> QED
        BY <4>1
    <3>4. Below' = Below
      BY <2>4 DEF Below, On060
    <3>5. ~Below'
      <4>1. CASE pn' = pn
        <5>1. Below => pn.freq = 0
          BY <2>5 DEF Rules
        <5>2. pn.freq # 0
          BY <2>12, <3>1, <3>3, <4>1
        <5> QED
          BY <3>4, <5>1, <5>2
      <4>2. CASE ct60_read_clock(chip) > 0
        BY <2>5, <3>4, <4>2, ClockRead DEF Below
      <4> QED
        BY <2>4, <4>1, <4>2
    <3>6. pn'.freq = pn.freq \/ pn'.freq = AtLeast(pn.freq, pn'.min)
      <4>1. CASE pn' = Raised(pn)
        <5> DEFINE min == IF chip.kind = "dallas" THEN CPX_LIMITS.dallas + 600 ELSE CPX_LIMITS.min
                   step == StepOf(chip)
                   freq == AtLeast(pn.freq, min)
        <5>1. pn' = [pn EXCEPT !.min = min, !.step = step, !.freq = freq]
          BY <4>1, Zenon DEF Raised
        <5> HIDE DEF min, step, freq
        <5>2. pn'.min = min /\ pn'.freq = freq
          <6>1. DOMAIN pn = FIELDS /\ {"min", "freq", "step"} \subseteq FIELDS
            BY <2>5, FieldIs DEF IsPanel, TYPED
          <6> QED
            BY <5>1, <6>1
        <5> QED
          BY <5>2 DEF freq
      <4> QED
        BY <2>4, <4>1
    <3>7. Clamp(pn.freq, pn'.min, pn'.max) = pn'.freq
      BY <2>12, <3>1, <3>3, <3>6, FrequencyBack
    <3> QED
      BY <2>6, <2>7, <2>8, <3>5, <3>7
  <2> QED
    BY <2>10, <2>11, <2>12 DEF again
<1>2. [Step]_vars
         => [ev'.op = "save"
              => LET got == Loaded(pn, head)'
                 IN  /\ \A f \in NvFields \cup SWITCHES \cup {"daystop", "beep"} : got[f] = pn[f]
                     /\ LegalMode(pn.vmode) => got.vmode = pn.vmode
                     /\ pn.trigger > 0 => got.trigger = pn.trigger
                     /\ pn.time \div 100 < 24 /\ pn.time % 100 < 60 => got.time = pn.time
                     /\ pn'.freq \in pn'.min .. pn'.max => got.freq = pn'.freq]_vars
  OBVIOUS
<1> QED
  BY HeldInvariant, <1>1, <1>2, PTL DEF Spec, LoadGivesSaved
-----------------------------------------------------------------------------
(* OK, and what the panel shows when it is opened again.                   *)
\* An OK is the panel's, of the panel as it is or with the frequency SAVE raised.
Oked(p, err) ==
  /\ IsPanel(p, sv_top) /\ p.freq \in Nat /\ p.svboot \in SvText
  /\ \A f \in FIELDS \ {"min", "step", "freq"} : p[f] = pn[f]
  /\ Accepts(p, "none", err)
  /\ p # pn => ~Below

\* What an OK is.
LEMMA OkIs ==
  ASSUME Inv, Held, Next, ev'.op = "ok", ev'.failed = "none"
  PROVE  /\ PanelSession /\ pn.open /\ UNCHANGED <<machine, started>>
         /\ \E p : Oked(p, ev'.clock)
<1>1. \A how \in {"none", "restart", "power"} : ~Between(how)
  BY DEF Between
<1>2. PanelSession
  BY <1>1, SetupSavesNot DEF Next
<1>3. ASSUME NEW p, Programs(p) PROVE FALSE
  <2>1. \E err : ev' = [op |-> "eeprom", clock |-> err, freq |-> p.freq]
    BY <1>3, Zenon DEF Programs
  <2> QED
    BY <2>1
<1>4. \/ Ok
      \/ pn.open /\ Accept(Raised(pn)) /\ ct60_read_clock(chip) > 0
  <2>1. CASE \E clicks \in {1, 2} : Save(clicks)
    <3>1. PICK clicks \in {1, 2} : Save(clicks)
      BY <2>1
    <3>2. WantsClock(clicks) /\ Accept(Raised(pn))
      BY <1>3, <3>1, SaveDoes
    <3> QED
      BY <3>1, <3>2 DEF WantsClock, Save
  <2> QED
    BY <1>2, <2>1, PanelDoes
<1>5. pn.open
  BY <1>4 DEF Ok
<1>6. IsPanel(pn, sv_top) /\ Rules(pn, Below, Least, Most) /\ IsChip(chip)
  BY <1>5 DEF Inv, Held, Closed
<1>7. UNCHANGED <<machine, started>>
  BY <1>2 DEF PanelSession
<1>8. ASSUME NEW p, Accept(p), IsPanel(p, sv_top), p # pn => ~Below,
             \A f \in FIELDS \ {"min", "step", "freq"} : p[f] = pn[f]
      PROVE  Oked(p, ev'.clock)
  <2>1. p.freq \in Nat
    BY <1>8, FieldIs DEF IsPanel
  <2>2. PICK failed, err : Accepts(p, failed, err)
    BY <1>6, <1>8, <2>1, AcceptIs
  <2>3. failed = "none" /\ err = ev'.clock
    BY <2>2 DEF Accepts
  <2>4. p.svboot \in SvText
    <3>1. "svboot" \in FIELDS \ {"min", "step", "freq"}
      BY FieldIs
    <3> QED
      BY <1>6, <1>8, <3>1 DEF Rules
  <2> QED
    BY <1>8, <2>1, <2>2, <2>3, <2>4 DEF Oked
<1>9. CASE Ok
  BY <1>2, <1>5, <1>6, <1>7, <1>8, <1>9 DEF Ok
<1>10. CASE Accept(Raised(pn)) /\ ct60_read_clock(chip) > 0
  <2> DEFINE min == IF chip.kind = "dallas" THEN CPX_LIMITS.dallas + 600 ELSE CPX_LIMITS.min
             step == StepOf(chip)
             freq == AtLeast(pn.freq, min)
             p == Raised(pn)
  <2>1. p = [pn EXCEPT !.min = min, !.step = step, !.freq = freq]
    BY Zenon DEF Raised
  <2>2. IsPanel(p, sv_top)
    BY <1>6, RaisedIs
  <2>3. ~Below
    BY <1>6, <1>10, ClockRead DEF Below
  <2>4. Accept(p)
    BY <1>10
  <2>5. DOMAIN pn = FIELDS
    BY <1>6 DEF IsPanel
  <2> HIDE DEF min, step, freq, p
  <2>6. \A f \in FIELDS \ {"min", "step", "freq"} : p[f] = pn[f]
    BY <2>1, <2>5
  <2>7. Oked(p, ev'.clock)
    BY <1>8, <2>2, <2>3, <2>4, <2>6
  <2> QED
    BY <1>2, <1>5, <1>7, <2>7
<1> QED
  BY <1>4, <1>9, <1>10

\* What an OK without a fault writes to the flash.
LEMMA OkWrites ==
  ASSUME IsFlash(flash), NEW p, flash' = WriteParams(Parameters(p), "none")
  PROVE  /\ \A f \in SWITCHES : flash'[f] = p[f]
         /\ flash'.clock = p.freq
         /\ flash'.nv1 = [magic |-> p.nvm, bootpref |-> Coded(p).bootpref]
         /\ \A f \in {"nv2", "nv3"} : flash'[f] = [g \in DOMAIN flash[f] |-> Coded(p)[g]]
         /\ machine.sv => flash'.sv = SvWord(p)
<1> DEFINE c == Coded(p)
           u == Parameters(p)
           w == SvWord(p)
           nv1 == [magic |-> p.nvm, bootpref |-> c.bootpref]
           copy(f) == [g \in DOMAIN flash[f] |-> c[g]]
           names == SWITCHES \cup {"clock", "nv1", "nv2", "nv3"}
                      \cup (IF machine.sv THEN {"sv"} ELSE {})
<1>1. u = [name \in names |->
         CASE name \in SWITCHES -> p[name]
           [] name = "clock"    -> p.freq
           [] name = "nv1"      -> nv1
           [] name = "sv"       -> w
           [] OTHER             -> copy(name)]
  BY Zenon DEF Parameters
<1>2. {"clock", "nv1", "nv2", "nv3", "sv"} \cap SWITCHES = {} /\ "none" \notin names
  BY DEF SWITCHES
<1>3. names \subseteq FLASH
  BY DEF FLASH
<1> HIDE DEF c, u, w, nv1, copy
<1>4. /\ DOMAIN u = names
      /\ \A f \in SWITCHES : u[f] = p[f]
      /\ u.clock = p.freq /\ u.nv1 = nv1 /\ (machine.sv => u.sv = w)
      /\ u.nv2 = copy("nv2") /\ u.nv3 = copy("nv3")
  BY <1>1, <1>2
<1>5. \A f \in names : flash'[f] = u[f]
  BY <1>2, <1>3, <1>4 DEF WriteParams, IsFlash, u
<1>6. /\ \A f \in SWITCHES : flash'[f] = p[f]
      /\ flash'.clock = p.freq /\ flash'.nv1 = nv1 /\ (machine.sv => flash'.sv = w)
      /\ flash'.nv2 = copy("nv2") /\ flash'.nv3 = copy("nv3")
  BY <1>4, <1>5
<1> QED
  BY <1>6 DEF nv1, c, w, copy

\* What is read of the NVRAM afterwards, from itself or from its copy.
LEMMA OkRead ==
  ASSUME IsFlash(flash), NEW p, nvram' = Coded(p),
         flash'.nv1 = [magic |-> p.nvm, bootpref |-> Coded(p).bootpref],
         \A f \in {"nv2", "nv3"} : flash'[f] = [g \in DOMAIN flash[f] |-> Coded(p)[g]]
  PROVE  \A f \in NV_FIELDS : NvmRead'[f] = Coded(p)[f]
<1> DEFINE c == Coded(p)
           one == flash'.nv1
           two == flash'.nv2
           three == flash'.nv3
           n == NvmRead'
<1>1. DOMAIN c = NV_FIELDS
  BY DEF Coded, NV_FIELDS
<1>2. /\ DOMAIN flash.nv2 = {"language", "keyboard", "df", "tf", "sep"}
      /\ DOMAIN flash.nv3 = {"delay", "vmode", "arb", "id"}
  <2>1. flash.nv2 \in FlashField("nv2") /\ flash.nv3 \in FlashField("nv3")
    BY DEF IsFlash, FLASH
  <2>2. /\ FlashField("nv2") = [language : 0 .. 8, keyboard : 0 .. 18, df : 0 .. 3, tf : 0 .. 1,
                                sep : {".", "-", "/"}]
        /\ FlashField("nv3") = [delay : 0 .. 255, vmode : VMode, arb : 0 .. 1, id : 0 .. 7]
    BY DEF FlashField, SWITCHES
  <2>3. flash.nv2 \in [language : 0 .. 8, keyboard : 0 .. 18, df : 0 .. 3, tf : 0 .. 1,
                       sep : {".", "-", "/"}]
    BY <2>1, <2>2
  <2>4. flash.nv3 \in [delay : 0 .. 255, vmode : VMode, arb : 0 .. 1, id : 0 .. 7]
    BY <2>1, <2>2
  <2>5. DOMAIN flash.nv2 = {"language", "keyboard", "df", "tf", "sep"}
    BY <2>3
  <2>6. DOMAIN flash.nv3 = {"delay", "vmode", "arb", "id"}
    BY <2>4
  <2> QED
    BY <2>5, <2>6
<1>3. /\ DOMAIN one = {"magic", "bootpref"} /\ one.bootpref = c.bootpref
      /\ DOMAIN two = DOMAIN flash.nv2 /\ \A g \in DOMAIN two : two[g] = c[g]
      /\ DOMAIN three = DOMAIN flash.nv3 /\ \A g \in DOMAIN three : three[g] = c[g]
  OBVIOUS
<1>4. CASE ~one.magic
  <2>1. n = c
    BY <1>4 DEF NvmRead
  <2> QED
    BY <2>1
<1>5. CASE one.magic
  <2>1. n = [f \in NV_FIELDS |-> CASE f \in DOMAIN one -> one[f] [] f \in DOMAIN two -> two[f]
                                   [] OTHER -> three[f]]
    BY <1>1, <1>5, Zenon DEF NvmRead
  <2> HIDE DEF c, one, two, three, n
  <2>2. \A f \in NV_FIELDS : n[f] = c[f]
    BY <1>2, <1>3, <2>1 DEF NV_FIELDS
  <2> QED
    BY <2>2 DEF n, c
<1> QED
  BY <1>4, <1>5

\* What the panel shows when it is opened in the next state.
LEMMA OpenedPrimed ==
  /\ Opened'.nvm = flash'.nv1.magic
  /\ \A f \in SHOWN : Opened'[f] = Shown(NvmRead')[f]
  /\ \A f \in SWITCHES : Opened'[f] = flash'[f]
  /\ Opened'.freq = Frequencies'.freq
  /\ \A f \in SV : Opened'[f] = SvObjects(IF machine'.sv /\ flash'.sv.version THEN flash'.sv
                                          ELSE SV_DEFAULT)[f]
<1> DEFINE n == Shown(NvmRead')
           h == Kept(fix_header')
           c == Frequencies'
           s == SvObjects(IF machine'.sv /\ flash'.sv.version THEN flash'.sv ELSE SV_DEFAULT)
           o == Opened'
           e == IF On060' THEN "trigger" ELSE "none"
           fl == flash'
           page == FirstPage'
<1>1. o = [f \in FIELDS |->
     CASE f \in SHOWN    -> n[f]
       [] f \in SWITCHES -> fl[f]
       [] f \in KEPT     -> h[f]
       [] f \in CLOCK    -> c[f]
       [] f \in SV       -> s[f]
       [] f = "nvm"      -> fl.nv1.magic
       [] f = "open"     -> TRUE
       [] f = "page"     -> page
       [] f = "edit"     -> e]
  BY Zenon DEF Opened
<1> HIDE DEF n, h, c, s, o, e, fl, page
<1>2. /\ o.nvm = fl.nv1.magic
      /\ \A f \in SHOWN : o[f] = n[f]
      /\ \A f \in SWITCHES : o[f] = fl[f]
      /\ o.freq = c.freq
      /\ \A f \in SV : o[f] = s[f]
  BY <1>1, FieldSets
<1> QED
  BY <1>2, Zenon DEF n, c, s, o, fl
\* The SuperVidel's word: the page shows it as it was set, but for a start mode that
\* is off or no number, which it shows as off.
LEMMA WordShown ==
  ASSUME NEW p, p.svboot \in SvText, p.sven \in BOOLEAN
  PROVE  LET o == SvObjects(SvWord(p))
         IN  /\ o.svdvi = p.svdvi /\ o.svchk = p.svchk
             /\ o.sven = (p.sven /\ read_number(p.svboot) > 0)
             /\ o.sven => read_number(o.svboot) = read_number(p.svboot)
<1> DEFINE n == read_number(p.svboot)
           w == SvWord(p)
           o == SvObjects(w)
<1>1. n \in WORDS /\ n \in Nat /\ 0 \in WORDS
  BY NumberIs, WordIs
<1> DEFINE boot == IF p.sven THEN n ELSE 0
           on == boot # 0
           good == p.sven /\ n > 0
<1>2. boot \in WORDS /\ (on <=> good) /\ (on => boot = n)
  <2> HIDE DEF n
  <2> QED
    BY <1>1
<1>3. w.boot = boot /\ w.dvi = p.svdvi /\ w.chk = p.svchk
  BY DEF SvWord
<1>4. o.svboot = Hex(w.boot) /\ o.sven = (w.boot # 0) /\ o.svdvi = w.dvi /\ o.svchk = w.chk
  BY Zenon DEF SvObjects
<1> HIDE DEF n, w, o, boot
<1>5. read_number(o.svboot) = boot
  BY <1>2, <1>3, <1>4, HexIs
<1>6. o.sven = on
  BY <1>3, <1>4
<1>7. on = good
  <2>1. on \in BOOLEAN /\ good \in BOOLEAN
    BY Zenon
  <2> HIDE DEF on, good
  <2> QED
    BY <1>2, <2>1
<1>8. o.sven = good /\ (o.sven => read_number(o.svboot) = n)
  BY <1>2, <1>5, <1>6, <1>7
<1> QED
  BY <1>3, <1>4, <1>8 DEF n, o, w

\* The limits and the frequency of the panel opened in the next state.
LEMMA FrequencyPrimed ==
  ASSUME On060, UNCHANGED <<machine, started>>, chip'.kind = chip.kind,
         ct60_read_clock(chip') \in Nat
  PROVE  LET half   == chip.kind = "dallas" /\ started < 66300
             stored == Clamp(flash'.clock, 65000, MaxFreq)
             value  == ct60_read_clock(chip') \div (IF half THEN 2 ELSE 1)
         IN  /\ half <=> Halved
             /\ value \in Least .. Most => Frequencies'.freq = value
             /\ value \notin Least .. Most => Frequencies'.freq = stored
<1>0. CPX_LIMITS.min = 65000 /\ CPX_LIMITS.dallas = 66000
  BY DEF CPX_LIMITS
<1>1. On060' /\ MaxFreq' = MaxFreq
  BY DEF On060, MaxFreq
<1> DEFINE half == chip.kind = "dallas" /\ started < 66300
           g == ct60_read_clock(chip')
<1>2. (half <=> Halved) /\ (half <=> Halved')
  BY <1>0, <1>1 DEF Halved
<1>3. Frequencies'.freq
        = LET stored == Clamp(flash'.clock, CPX_LIMITS.min, MaxFreq')
              dallas == On060' /\ chip'.kind = "dallas"
              min    == IF Halved' THEN (CPX_LIMITS.dallas + 600) \div 2
                        ELSE IF dallas THEN CPX_LIMITS.dallas + 600 ELSE CPX_LIMITS.min
              max    == IF Halved' THEN CPX_LIMITS.dallas ELSE MaxFreq'
              value  == g \div (IF Halved' THEN 2 ELSE 1)
          IN  IF ~On060' THEN stored
              ELSE IF g < 0 THEN 0
              ELSE IF value \in min .. max THEN value ELSE stored
  BY DEF Frequencies
<1> DEFINE least == IF half THEN 33300 ELSE IF chip.kind = "dallas" THEN 66600 ELSE 65000
           most == IF half THEN 66000 ELSE MaxFreq
           value == g \div (IF half THEN 2 ELSE 1)
<1>4. least = Least /\ most = Most
  BY <1>2 DEF Least, Most
<1>5. g \in Nat
  OBVIOUS
<1> HIDE DEF g
<1>6. /\ value \in least .. most => Frequencies'.freq = value
      /\ value \notin least .. most => Frequencies'.freq = Clamp(flash'.clock, 65000, MaxFreq)
  <2>1. (66000 + 600) \div 2 = 33300 /\ ~(g < 0)
    BY <1>5
  <2> HIDE DEF half
  <2> QED
    BY <1>0, <1>1, <1>2, <1>3, <2>1
<1> QED
  BY <1>2, <1>4, <1>6 DEF g

\* What the generator runs at after an OK, of a frequency the panel can have.
LEMMA OkClock ==
  ASSUME Inv, Held, On060, pn.open, NEW p, Oked(p, "none"), chip.kind # "none",
         p.freq \in pn.min .. pn.max
  PROVE  LET g == ct60_read_clock(chip')
         IN  /\ p.freq \in Nat /\ p.freq >= Least /\ p.freq <= Most
             /\ chip.kind \in {"dallas", "cypress"} /\ chip'.kind = chip.kind
             /\ g \in Nat /\ ct60_read_clock(chip) \in Nat
             /\ IF ct60_read_clock(chip) = p.freq THEN chip' = chip
                ELSE Given(g, p.freq, chip.kind, CPX_LIMITS)
<1> DEFINE f == p.freq
           g == ct60_read_clock(chip')
           now == ct60_read_clock(chip)
<1>1. f \in Nat /\ Accepts(p, "none", "none") /\ IsChip(chip) /\ IsChip(chip')
  BY DEF Oked, Accepts, Held
<1>2. Rules(pn, Below, Least, Most) /\ pn.min >= Least /\ pn.max = Most
  BY DEF Held, Rules
<1>3. Least \in Nat /\ Least >= 33300 /\ Most \in Nat /\ IsPanel(p, sv_top)
  BY DEF Least, Most, MaxFreq, MAX_FREQ_REV6, Oked
<1>5. pn.min \in Nat
  <2>1. IsPanel(pn, sv_top)
    BY DEF Inv, Closed
  <2>2. pn.min \in {33300, 65000, 66600}
    BY <2>1, FieldIs DEF IsPanel
  <2> QED
    BY <2>2
<1>6. f >= Least /\ f <= Most /\ f >= 33300
  <2> HIDE DEF f
  <2>1. f \in pn.min .. pn.max
    BY DEF f
  <2> QED
    BY <1>1, <1>2, <1>3, <1>5, <2>1
<1>7. chip.kind \in {"dallas", "cypress"} /\ chip'.kind = chip.kind
  BY <1>1 DEF IsChip, Accepts
<1>8. ~Below
  <2>1. Below => pn.freq = 0
    BY <1>2 DEF Rules
  <2>2. p = pn => pn.freq # 0
    BY <1>1, <1>6
  <2> QED
    BY <2>1, <2>2 DEF Oked
<1>9. now \in Nat /\ now > 0
  <2>1. now \in Int /\ (now > 0 \/ now = -3)
    BY <1>1, <1>7, ClockRead
  <2>2. ~(now < 0)
    BY <1>8 DEF Below
  <2> HIDE DEF now
  <2> QED
    BY <2>1, <2>2
<1>10. Tunes(p) <=> now # f
  BY <1>6, <1>9 DEF Tunes
<1>11. CASE now = f
  <2>1. chip' = chip
    BY <1>1, <1>10, <1>11 DEF Accepts
  <2> QED
    BY <1>1, <1>6, <1>7, <1>9, <1>11, <2>1
<1>12. CASE now # f
  <2>1. Given(g, f, chip.kind, CPX_LIMITS)
    BY <1>1, <1>10, <1>12 DEF Accepts
  <2>2. g \in Nat
    <3>1. g \in Int
      BY <2>1 DEF Given
    <3>2. CASE chip.kind = "cypress"
      <4>1. g \in f - 124 .. f
        BY <2>1, <3>2 DEF Given
      <4> HIDE DEF g, f
      <4> QED
        BY <1>1, <1>6, <3>1, <4>1
    <3>3. CASE chip.kind = "dallas"
      <4>1. g > 0
        BY <1>1, <1>7, <3>3, ClockRead
      <4> QED
        BY <3>1, <4>1
    <3> QED
      BY <1>7, <3>2, <3>3
  <2> QED
    BY <1>1, <1>6, <1>7, <1>9, <1>12, <2>1, <2>2
<1> QED
  BY <1>11, <1>12

\* With the strap the generator is given twice the frequency, but for a step.
LEMMA HalvedGiven ==
  ASSUME NEW f \in Nat, f <= 66000, NEW g, NEW kind, kind = "dallas",
         Given(g, f, kind, CPX_LIMITS)
  PROVE  /\ g \in 2 * f - 49 .. 2 * f + 49
         /\ f <= 50900 => g >= 2 * f
         /\ f > 50900 => g <= 2 * f
<1> DEFINE s == Strapped(f, CPX_LIMITS)
<1>1. s = 2 * f
  BY DEF Strapped, CPX_LIMITS
<1>2. /\ s <= 101800 => g \in s .. s + 49
      /\ s >= 101800 => g \in s - 49 .. s
      /\ g \in Int
  BY DEF Given, DEF_FREQ
<1> HIDE DEF s
<1> QED
  BY <1>1, <1>2
\* The frequency the panel opens with after an OK is the one it gave, but for a step.
LEMMA OkFrequency ==
  ASSUME Inv, Held, On060, pn.open, NEW p, Oked(p, "none"), chip.kind # "none",
         p.freq \in pn.min .. pn.max, UNCHANGED <<machine, started>>, flash'.clock = p.freq,
         ~(Halved /\ ct60_read_clock(chip) = p.freq)
  PROVE  Near(Frequencies'.freq, p.freq)
<1> DEFINE f == p.freq
           g == ct60_read_clock(chip')
           now == ct60_read_clock(chip)
           half == chip.kind = "dallas" /\ started < 66300
           value == g \div (IF half THEN 2 ELSE 1)
           shown == Frequencies'.freq
<1>1. /\ f \in Nat /\ f >= Least /\ f <= Most
      /\ chip.kind \in {"dallas", "cypress"} /\ chip'.kind = chip.kind
      /\ g \in Nat /\ now \in Nat
      /\ IF now = f THEN chip' = chip ELSE Given(g, f, chip.kind, CPX_LIMITS)
  BY OkClock
<1>2. /\ half <=> Halved
      /\ value \in Least .. Most => shown = value
      /\ value \notin Least .. Most => shown = Clamp(f, 65000, MaxFreq)
  BY <1>1, FrequencyPrimed
<1>3. MaxFreq \in Nat /\ MaxFreq >= 75000 /\ StepOf(chip) \in {50, 125}
  BY DEF MaxFreq, MAX_FREQ_REV6, StepOf, DAC_STEP, CY_STEP
<1>4. \A a \in Int : a - f \in -StepOf(chip) .. StepOf(chip) => Near(a, f)
  BY DEF Near
<1>5. CASE half
  <2>1. Least = 33300 /\ Most = 66000 /\ chip.kind = "dallas" /\ StepOf(chip) = 50
    BY <1>2, <1>5 DEF Least, Most, StepOf, DAC_STEP
  <2>2. Given(g, f, chip.kind, CPX_LIMITS)
    <3>1. Halved
      BY <1>2, <1>5
    <3>2. now # f
      BY <3>1
    <3> QED
      BY <1>1, <3>2
  <2>3. /\ g \in 2 * f - 49 .. 2 * f + 49
        /\ f <= 50900 => g >= 2 * f
        /\ f > 50900 => g <= 2 * f
    BY <1>1, <2>1, <2>2, HalvedGiven
  <2>4. value = g \div 2
    BY <1>5
  <2> HIDE DEF f, g, value, shown
  <2>5. value \in Least .. Most /\ value - f \in -50 .. 50
    <3>1. f \in Int /\ 33300 <= f /\ f <= 66000 /\ g \in Int
      BY <1>1, <2>1
    <3>2. 2 * f - 49 <= g /\ g <= 2 * f + 49
      BY <2>3, <3>1
    <3>3. 66600 <= g /\ g <= 132000
      BY <2>3, <3>1, <3>2
    <3>4. /\ value \in Int /\ 2 * value <= g /\ g <= 2 * value + 1
      BY <2>4, <3>1
    <3>5. 33300 <= value /\ value <= 66000
      BY <3>1, <3>3, <3>4
    <3>6. value - f \in -50 .. 50
      BY <3>1, <3>2, <3>4
    <3> QED
      BY <2>1, <3>4, <3>5, <3>6
  <2>6. shown = value /\ value \in Int
    <3>1. value \in Least .. Most => shown = value
      BY <1>2
    <3>2. value \in Least .. Most
      BY <2>5
    <3>3. shown = value
      BY <3>1, <3>2
    <3> QED
      BY <1>1, <2>4, <3>3
  <2>7. Near(value, f)
    BY <1>4, <2>1, <2>5, <2>6
  <2> QED
    BY <2>6, <2>7 DEF f, shown
<1>6. CASE ~half
  <2>1. Least = (IF chip.kind = "dallas" THEN 66600 ELSE 65000) /\ Most = MaxFreq
    BY <1>2, <1>6 DEF Least, Most
  <2>2. value = g
    <3> HIDE DEF g, half
    <3> QED
      BY <1>1, <1>6
  <2> HIDE DEF value, shown, half
  <2>3. CASE shown = f
    <3>1. Near(f, f)
      BY <1>1, <1>3, <1>4
    <3> QED
      BY <2>3, <3>1 DEF shown
  <2>4. CASE shown = g
    <3>1. CASE now = f
      BY <1>1, <2>3, <2>4, <3>1
    <3>2. CASE now # f
      <4>1. Given(g, f, chip.kind, CPX_LIMITS)
        BY <1>1, <3>2
      <4>2. chip.kind = "dallas" => Strapped(f, CPX_LIMITS) = f
        BY <1>1, <2>1 DEF Strapped, CPX_LIMITS
      <4>3. f \in Int
        BY <1>1
      <4> HIDE DEF f, g
      <4>4. Near(g, f)
        BY <1>1, <4>1, <4>2, <4>3, GivenNear
      <4> QED
        BY <2>4, <4>4 DEF f, shown
    <3> QED
      BY <3>1, <3>2
  <2>5. Clamp(f, 65000, MaxFreq) = f
    <3> HIDE DEF f
    <3> QED
      BY <1>1, <1>3, <2>1 DEF Clamp
  <2> QED
    BY <1>2, <2>2, <2>3, <2>4, <2>5
<1> QED
  BY <1>5, <1>6

\* After an OK without a fault the panel, opened again, shows what was set: codes,
\* copies in the flash, the video mode, the SuperVidel's word and the frequency,
\* whatever happened before (MENUBOK, cpx_call).
THEOREM OkShown == Spec => OkShownAgain
<1> DEFINE o == Opened'
           Again == /\ \A f \in NvFields \cup SWITCHES \cup {"nvm"} : o[f] = pn[f]
                    /\ LegalMode(pn.vmode) => o.vmode = pn.vmode
                    /\ machine.sv => /\ o.svdvi = pn.svdvi /\ o.svchk = pn.svchk
                                     /\ o.sven = (pn.sven /\ read_number(pn.svboot) > 0)
                                     /\ o.sven => read_number(o.svboot) = read_number(pn.svboot)
                    /\ On060 /\ chip.kind # "none" /\ ev'.freq \in pn.min .. pn.max
                         /\ ~(Halved /\ ct60_read_clock(chip) = ev'.freq)
                         => Near(o.freq, ev'.freq)
           Step == ev'.op = "ok" /\ Faultless(ev') => Again
<1>1. Inv /\ Held /\ [Next]_vars => [Step]_vars
  <2> SUFFICES ASSUME Inv, Held, Next, ev'.op = "ok", Faultless(ev') PROVE Again
    OBVIOUS
  <2>1. ev'.failed = "none" /\ ev'.clock = "none"
    BY DEF Faultless
  <2>2. PanelSession /\ pn.open /\ UNCHANGED <<machine, started>> /\ \E p : Oked(p, ev'.clock)
    BY <2>1, OkIs
  <2>3. PICK p : Oked(p, "none")
    BY <2>1, <2>2
  <2>4. /\ IsPanel(p, sv_top) /\ p.svboot \in SvText /\ p.sven \in BOOLEAN
        /\ \A f \in FIELDS \ {"min", "step", "freq"} : p[f] = pn[f]
        /\ nvram' = Coded(p) /\ flash' = WriteParams(Parameters(p), "none") /\ ev'.freq = p.freq
    BY <2>3, FieldIs DEF Oked, Accepts, IsPanel
  <2>5. /\ NvFields \cup SWITCHES \cup {"nvm", "vmode", "svdvi", "svchk", "sven", "svboot"}
             \subseteq FIELDS \ {"min", "step", "freq"}
        /\ NvFields \subseteq NV_FIELDS /\ NV_FIELDS \subseteq SHOWN /\ "vmode" \in SHOWN
        /\ SV = {"svboot", "sven", "svdvi", "svchk"}
    BY DEF NvFields, FIELDS, SHOWN, NV_FIELDS, SWITCHES, SV
  <2>6. /\ \A f \in SWITCHES : flash'[f] = p[f]
        /\ flash'.clock = p.freq
        /\ flash'.nv1 = [magic |-> p.nvm, bootpref |-> Coded(p).bootpref]
        /\ \A f \in {"nv2", "nv3"} : flash'[f] = [g \in DOMAIN flash[f] |-> Coded(p)[g]]
        /\ machine.sv => flash'.sv = SvWord(p)
    BY <2>4, OkWrites DEF Inv, Stored
  <2>7. \A f \in NV_FIELDS : NvmRead'[f] = Coded(p)[f]
    BY <2>4, <2>6, OkRead DEF Inv, Stored
  <2>8. /\ \A f \in NvFields : Shown(NvmRead')[f] = p[f]
        /\ LegalMode(p.vmode) => Shown(NvmRead').vmode = p.vmode
    BY <2>4, <2>7, ShownCoded
  <2>9. /\ o.nvm = flash'.nv1.magic
        /\ \A f \in SHOWN : o[f] = Shown(NvmRead')[f]
        /\ \A f \in SWITCHES : o[f] = flash'[f]
        /\ o.freq = Frequencies'.freq
        /\ \A f \in SV : o[f] = SvObjects(IF machine'.sv /\ flash'.sv.version THEN flash'.sv
                                          ELSE SV_DEFAULT)[f]
    BY OpenedPrimed
  <2>10. flash'.nv1.magic = p.nvm
    BY <2>6
  <2> HIDE DEF o
  <2>11. \A f \in NvFields \cup SWITCHES \cup {"nvm"} : o[f] = pn[f]
    BY <2>4, <2>5, <2>6, <2>8, <2>9, <2>10
  <2>12. LegalMode(pn.vmode) => o.vmode = pn.vmode
    <3>1. p.vmode = pn.vmode
      BY <2>4, <2>5
    <3> QED
      BY <2>5, <2>8, <2>9, <3>1
  <2>13. ASSUME machine.sv
         PROVE  /\ o.svdvi = pn.svdvi /\ o.svchk = pn.svchk
                /\ o.sven = (pn.sven /\ read_number(pn.svboot) > 0)
                /\ o.sven => read_number(o.svboot) = read_number(pn.svboot)
    <3> DEFINE w == SvWord(p)
               s == SvObjects(w)
    <3>1. w.version = TRUE
      BY DEF SvWord
    <3>2. flash'.sv = w /\ machine'.sv
      BY <2>2, <2>6, <2>13
    <3>3. /\ s.svdvi = p.svdvi /\ s.svchk = p.svchk
          /\ s.sven = (p.sven /\ read_number(p.svboot) > 0)
          /\ s.sven => read_number(s.svboot) = read_number(p.svboot)
      BY <2>4, WordShown
    <3>4. \A f \in SV : o[f] = SvObjects(w)[f]
      <4> HIDE DEF w
      <4> QED
        BY <2>9, <3>1, <3>2
    <3>5. o.svdvi = s.svdvi /\ o.svchk = s.svchk /\ o.sven = s.sven /\ o.svboot = s.svboot
      BY <2>5, <3>4
    <3>6. p.svdvi = pn.svdvi /\ p.svchk = pn.svchk /\ p.sven = pn.sven /\ p.svboot = pn.svboot
      BY <2>4, <2>5
    <3> HIDE DEF s
    <3> QED
      BY <3>3, <3>5, <3>6
  <2>14. ASSUME On060, chip.kind # "none", ev'.freq \in pn.min .. pn.max,
                ~(Halved /\ ct60_read_clock(chip) = ev'.freq)
         PROVE  Near(o.freq, ev'.freq)
    BY <2>2, <2>3, <2>4, <2>6, <2>9, <2>14, OkFrequency
  <2> QED
    BY <2>11, <2>12, <2>13, <2>14 DEF o
<1>2. [Step]_vars
         => [ev'.op = "ok" /\ Faultless(ev')
              => /\ \A f \in NvFields \cup SWITCHES \cup {"nvm"} : Opened'[f] = pn[f]
                 /\ LegalMode(pn.vmode) => Opened'.vmode = pn.vmode
                 /\ machine.sv => /\ Opened'.svdvi = pn.svdvi /\ Opened'.svchk = pn.svchk
                                  /\ Opened'.sven = (pn.sven /\ read_number(pn.svboot) > 0)
                                  /\ Opened'.sven
                                       => read_number(Opened'.svboot) = read_number(pn.svboot)
                 /\ On060 /\ chip.kind # "none" /\ ev'.freq \in pn.min .. pn.max
                      /\ ~(Halved /\ ct60_read_clock(chip) = ev'.freq)
                      => Near(Opened'.freq, ev'.freq)]_vars
  OBVIOUS
<1> QED
  BY HeldInvariant, <1>1, <1>2, PTL DEF Spec, OkShownAgain
\* The code of an index the panel shows of a code it knows is that code.
LEMMA CodeBack ==
  ASSUME NEW codes, NEW code \in Range(codes), NEW k \in Nat, DOMAIN codes = 1 .. k
  PROVE  codes[IndexOf(code, codes) + 1] = code
<1>1. PICK i \in DOMAIN codes : codes[i] = code
  BY DEF Range
<1> DEFINE j == CHOOSE n \in DOMAIN codes : codes[n] = code
<1>2. j \in DOMAIN codes /\ codes[j] = code
  BY <1>1
<1>3. IndexOf(code, codes) = j - 1
  BY DEF IndexOf
<1> HIDE DEF j
<1>4. (j - 1) + 1 = j
  BY <1>2
<1> QED
  BY <1>2, <1>3, <1>4

\* What the panel knows and the user left alone it writes back as it was.
LEMMA UntouchedCoded ==
  ASSUME nvram \in Nvram, NEW p, NEW f \in NvFields, Known(f), p[f] = Shown(nvram)[f]
  PROVE  Coded(p)[f] = nvram[f]
<1>1. /\ DOMAIN code_lang = 1 .. 7 /\ DOMAIN code_key = 1 .. 9 /\ DOMAIN code_os = 1 .. 6
  BY DEF code_lang, code_key, code_os
<1>2. nvram.bootpref \in Range(code_os) /\ nvram.delay \in 0 .. 255
  BY DEF Nvram
<1> DEFINE s == Shown(nvram)
           c == Coded(p)
<1>3. /\ s.language = IndexOf(nvram.language, code_lang)
      /\ s.keyboard = IndexOf(nvram.keyboard, code_key)
      /\ s.bootpref = IndexOf(nvram.bootpref, code_os) /\ s.delay = AtMost(nvram.delay, 99)
      /\ \A g \in {"df", "tf", "sep", "arb", "id"} : s[g] = nvram[g]
  BY DEF Shown
<1>4. /\ c.language = code_lang[p.language + 1] /\ c.keyboard = code_key[p.keyboard + 1]
      /\ c.bootpref = code_os[p.bootpref + 1] /\ c.delay = p.delay
      /\ \A g \in {"df", "tf", "sep", "arb", "id"} : c[g] = p[g]
  BY DEF Coded
<1> HIDE DEF s, c
<1>5. CASE f = "language"
  <2>1. nvram.language \in Range(code_lang)
    BY <1>5 DEF Known
  <2>2. code_lang[IndexOf(nvram.language, code_lang) + 1] = nvram.language
    BY <1>1, <2>1, CodeBack
  <2> QED
    BY <1>3, <1>4, <1>5, <2>2 DEF s, c
<1>6. CASE f = "keyboard"
  <2>1. nvram.keyboard \in Range(code_key)
    BY <1>6 DEF Known
  <2>2. code_key[IndexOf(nvram.keyboard, code_key) + 1] = nvram.keyboard
    BY <1>1, <2>1, CodeBack
  <2> QED
    BY <1>3, <1>4, <1>6, <2>2 DEF s, c
<1>7. CASE f = "bootpref"
  <2>1. code_os[IndexOf(nvram.bootpref, code_os) + 1] = nvram.bootpref
    BY <1>1, <1>2, CodeBack
  <2> QED
    BY <1>3, <1>4, <1>7, <2>1 DEF s, c
<1>8. CASE f = "delay"
  <2>1. nvram.delay <= 99
    BY <1>8 DEF Known
  <2>2. AtMost(nvram.delay, 99) = nvram.delay
    BY <1>2, <2>1 DEF AtMost
  <2> QED
    BY <1>3, <1>4, <1>8, <2>2 DEF s, c
<1>9. CASE f \in {"df", "tf", "sep", "arb", "id"}
  BY <1>3, <1>4, <1>9 DEF s, c
<1> QED
  BY <1>5, <1>6, <1>7, <1>8, <1>9 DEF NvFields, NV_FIELDS

\* OK keeps what the user did not touch: a setting of the NVRAM the panel knows and
\* the frequency the generator runs at, but for a step where the strap halves it
\* (MENUBOK).
THEOREM OkKeeps == Spec => OkKeepsUntouched
<1> DEFINE Keeps == /\ \A f \in NvFields :
                         Known(f) /\ pn[f] = Shown(nvram)[f] => nvram'[f] = nvram[f]
                    /\ ev'.freq = ct60_read_clock(chip) \div (IF Halved THEN 2 ELSE 1)
                       /\ ev'.freq \in pn.min .. pn.max
                         => Near(ct60_read_clock(chip'), ct60_read_clock(chip))
           Step == ev'.op = "ok" /\ Faultless(ev') => Keeps
<1>1. Inv /\ Held /\ [Next]_vars => [Step]_vars
  <2> SUFFICES ASSUME Inv, Held, Next, ev'.op = "ok", Faultless(ev') PROVE Keeps
    OBVIOUS
  <2>1. ev'.failed = "none" /\ ev'.clock = "none"
    BY DEF Faultless
  <2>2. PanelSession /\ pn.open /\ UNCHANGED <<machine, started>> /\ \E p : Oked(p, ev'.clock)
    BY <2>1, OkIs
  <2>3. PICK p : Oked(p, "none")
    BY <2>1, <2>2
  <2>4. /\ \A f \in FIELDS \ {"min", "step", "freq"} : p[f] = pn[f]
        /\ nvram' = Coded(p) /\ ev'.freq = p.freq /\ p.freq \in Nat
        /\ IsChip(chip) /\ Accepts(p, "none", "none")
    BY <2>3 DEF Oked, Accepts, Held
  <2>5. NvFields \subseteq FIELDS \ {"min", "step", "freq"}
    BY DEF NvFields, FIELDS, SHOWN, NV_FIELDS
  <2>6. \A f \in NvFields : Known(f) /\ pn[f] = Shown(nvram)[f] => nvram'[f] = nvram[f]
    BY <2>4, <2>5, UntouchedCoded DEF Inv, Stored
  <2> DEFINE f == p.freq
             g == ct60_read_clock(chip')
             now == ct60_read_clock(chip)
  <2>7. ASSUME f = now \div (IF Halved THEN 2 ELSE 1), f \in pn.min .. pn.max
        PROVE  Near(g, now)
    <3>1. now \in Int
      BY <2>4, ClockRead
    <3>2. StepOf(chip) \in {50, 125}
      BY DEF StepOf, DAC_STEP, CY_STEP
    <3>3. CASE ~Halved
      <4>1. f = now
        <5> HIDE DEF f, now
        <5> QED
          BY <2>7, <3>1, <3>3
      <4>2. chip' = chip
        BY <2>4, <4>1 DEF Accepts, Tunes
      <4>3. g = now
        BY <4>2
      <4> HIDE DEF g, now
      <4> QED
        BY <3>1, <3>2, <4>3 DEF Near
    <3>4. CASE Halved
      <4>1. On060 /\ chip.kind = "dallas" /\ chip.kind # "none" /\ Most = 66000
        BY <3>4 DEF Halved, Most
      <4>2. /\ f \in Nat /\ f >= Least /\ f <= Most /\ g \in Nat
            /\ IF now = f THEN chip' = chip ELSE Given(g, f, chip.kind, CPX_LIMITS)
        BY <2>2, <2>3, <2>7, <4>1, OkClock
      <4>3. Least = 33300 /\ StepOf(chip) = 50
        BY <3>4, <4>1 DEF Least, StepOf, DAC_STEP
      <4>4. f = now \div 2
        BY <2>7, <3>4
      <4>5. now # f
        <5> HIDE DEF f, g, now
        <5> QED
          BY <3>1, <4>2, <4>3, <4>4
      <4>6. Given(g, f, chip.kind, CPX_LIMITS)
        BY <4>2, <4>5
      <4>7. /\ g \in 2 * f - 49 .. 2 * f + 49
            /\ f <= 50900 => g >= 2 * f
            /\ f > 50900 => g <= 2 * f
        BY <4>1, <4>2, <4>6, HalvedGiven
      <4> HIDE DEF f, g, now
      <4>8. g - now \in -50 .. 50
        BY <3>1, <4>2, <4>4, <4>7
      <4> QED
        BY <4>3, <4>8 DEF Near
    <3> QED
      BY <3>3, <3>4
  <2> QED
    BY <2>4, <2>6, <2>7
<1>2. [Step]_vars
         => [ev'.op = "ok" /\ Faultless(ev')
              => /\ \A f \in NvFields :
                      Known(f) /\ pn[f] = Shown(nvram)[f] => nvram'[f] = nvram[f]
                 /\ ev'.freq = ct60_read_clock(chip) \div (IF Halved THEN 2 ELSE 1)
                    /\ ev'.freq \in pn.min .. pn.max
                      => Near(ct60_read_clock(chip'), ct60_read_clock(chip))]_vars
  OBVIOUS
<1> QED
  BY HeldInvariant, <1>1, <1>2, PTL DEF Spec, OkKeepsUntouched
=============================================================================
