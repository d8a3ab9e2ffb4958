----------------------------- MODULE MCFlashTos -----------------------------
(* FlashTos on a chip of four sectors and eight words, the last of them    *)
(* the parameters: patches in both halves, on top of each other and over   *)
(* the date; tests that fill their area, half a word less, more, or none.  *)
EXTENDS FlashTos, SequencesExt

MCBits   == {"h", "l"}
MCHigh   == {"h"}
E        == {}
H        == {"h"}
L        == {"l"}
V        == {"h", "l"}
MCStarts == <<0, 1, 4, 7, 8>>
MCToday  == V

Xor(x, y)  == (x \ y) \cup (y \ x)
MCCrc(s)   == FoldLeft(Xor, {}, s)

P(adr, data) == [adr |-> adr, data |-> data]
MCPatches == {<<P(2, <<L>>), P(12, <<H, L>>)>>,       \* up to TestsAt + 1
              <<P(0, <<V>>), P(12, <<H>>), P(0, <<H, L>>)>>,
              <<P(2, <<V>>)>>}
MCTests   == {<<>>, <<V, H>>, <<V>>}
Input(tos, patches, tests, with_tests, odd) ==
  [tos |-> tos, patches |-> patches, tests |-> tests, with_tests |-> with_tests, odd |-> odd]
MCTos     == <<H, E, L, E>>
MCInputs  ==
  {Input(MCTos, p, t, TRUE, o) : p \in MCPatches, t \in MCTests, o \in BOOLEAN}
    \cup {Input(MCTos, p, <<>>, FALSE, FALSE) : p \in MCPatches}
    \cup {Input(tos, <<P(2, <<V>>)>>, <<>>, FALSE, FALSE) : tos \in {<<H>>, <<H, L, L, E>>}}
    \cup {Input(MCTos, <<P(2, <<V>>)>>, <<V, H, L>>, TRUE, TRUE)}
MCContents == {[a \in 0 .. 7 |-> IF a = 7 THEN H ELSE V]}
=============================================================================
