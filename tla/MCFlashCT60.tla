---------------------------- MODULE MCFlashCT60 ----------------------------
(* FlashTool on a CT60: a bottom-boot device of four sectors, two words to *)
(* the 64 KiB block, the last block holding the parameters.                *)
EXTENDS FlashTool

MCStarts  == <<0, 1, 2, 4, 6>>
MCBits    == {"b"}
V         == {"b"}
E         == {}

(* The second block is blank, so that its erase is skipped at first. *)
MCFactory == {[a \in 0 .. 5 |-> IF a \in {2, 3} THEN E ELSE V]}

Tos       == [kind |-> "BIN", tos |-> TRUE, boot |-> FALSE, data |-> <<E, V, V>>]
ShortTos  == [kind |-> "BIN", tos |-> TRUE, boot |-> TRUE, data |-> <<E>>]
FullTos   == [kind |-> "BIN", tos |-> TRUE, boot |-> TRUE, data |-> <<E, V, V, V, E>>]
NotTos    == [kind |-> "BIN", tos |-> FALSE, boot |-> TRUE, data |-> <<V>>]
Hex       == [kind |-> "HEX", recs |-> {[at |-> 2, data |-> <<E>>]}]
HexAtEnd  == [kind |-> "HEX", recs |-> {[at |-> 0, data |-> <<E>>], [at |-> 3, data |-> <<E, E, E>>]}]
Abe       == [kind |-> "JED", device |-> "ABE"]
MCFiles   == {Tos, ShortTos, FullTos, NotTos, Hex, HexAtEnd, Abe}

Machine(cpu060, jedec_only) ==
  [cpu060 |-> cpu060, tosram |-> FALSE, magx |-> FALSE, nvdi |-> FALSE,
   jedec_only |-> jedec_only]
MCMachines == {Machine(TRUE, FALSE), Machine(FALSE, FALSE), Machine(FALSE, TRUE)}
=============================================================================
