---------------------------- MODULE MCJtagShift ----------------------------
(* JtagShift on the two-device chain and on a device alone: instructions   *)
(* of two bits (all ones is BYPASS), data of three; for a device alone     *)
(* also ChangeTapState from every state to every state, and shifts from    *)
(* whatever state that leaves.                                             *)
EXTENDS JtagChain

Call(start, bits, compare, run) ==
  [start |-> start, bits |-> bits, compare |-> compare, run |-> run]

MCTargets == {"ABE", "SDR", "CTPCI"}
MCShifts ==
  {Call(SHIFTIR, <<1, 1>>, TRUE, FALSE),           \* the BYPASS probe
   Call(SHIFTIR, <<1, 0>>, FALSE, FALSE),
   Call(SHIFTDR, <<1, 0, 0>>, TRUE, TRUE),
   Call(SHIFTDR, <<0, 1, 1>>, TRUE, FALSE),
   Call(RUNTEST, <<>>, FALSE, TRUE),               \* a wait
   Call(RUNTEST, <<>>, FALSE, FALSE)}
MCGoals == {"CTPCI"} \X TapState
=============================================================================
