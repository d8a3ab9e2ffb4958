----------------------------- MODULE MCFlashCF -----------------------------
(* FlashTool on a FireBee: BaS in the first block (guarded), the TOS area, *)
(* the parameters behind it, the FPGA table in the last block (guarded).   *)
EXTENDS FlashTool

MCStarts  == <<0, 1, 2, 4, 6, 7, 8>>
MCBits    == {"b"}
V         == {"b"}
E         == {}

MCFactory == {[a \in 0 .. 7 |-> V]}

Tos       == [kind |-> "BIN", tos |-> TRUE, boot |-> FALSE, data |-> <<E, V>>]
HexBas    == [kind |-> "HEX", recs |-> {[at |-> 1, data |-> <<E>>], [at |-> 7, data |-> <<V>>]}]
HexBefore == [kind |-> "HEX", recs |-> {[at |-> -5, data |-> <<E>>], [at |-> 4, data |-> <<E>>]}]
HexEmpty  == [kind |-> "HEX", recs |-> {}]
Unknown   == [kind |-> "JED", device |-> "none"]
Abe       == [kind |-> "JED", device |-> "ABE"]
MCFiles   == {Tos, HexBas, HexBefore, HexEmpty, Abe, Unknown}

Machine(cpu060, magx) ==
  [cpu060 |-> cpu060, tosram |-> FALSE, magx |-> magx, nvdi |-> FALSE,
   jedec_only |-> FALSE]
MCMachines == {Machine(TRUE, TRUE), Machine(FALSE, FALSE)}
=============================================================================
