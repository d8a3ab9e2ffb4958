---------------------------- MODULE SectorUpdate ----------------------------
(***************************************************************************)
(* What a flash update promises, whatever tool performs it and however it  *)
(* ends: the chip is rewritten one sector at a time in ascending order.    *)
(* Behind the frontier every word the image covers holds the image; ahead  *)
(* of the frontier's sector nothing has been touched; an update that is    *)
(* reported complete has moved its frontier past the end of the image.     *)
(* An abandoned update (error, refusal, power loss) may leave the          *)
(* frontier's sector in any condition, and no other.                       *)
(***************************************************************************)
EXTENDS NorFlash

VARIABLES
  flash,    \* the chip's contents
  image,    \* what the update writes, address by address
  upto,     \* end of the image
  front,    \* start of the sector the update is working on
  phase     \* "idle", "run" or "done"

vars == <<flash, image, upto, front, phase>>

Init ==
  /\ flash \in [Addr -> Word]
  /\ image \in [Addr -> Word]
  /\ upto \in Int
  /\ front \in Int
  /\ phase = "idle"

(* Between updates a new image may be loaded; the chip is left alone. *)
Prepare ==
  /\ phase # "run"
  /\ image' \in [Addr -> Word]
  /\ phase' \in {"idle", "run"}
  /\ UNCHANGED flash

(* Only the frontier's sector changes while the update runs. *)
Rewrite ==
  /\ phase = "run"
  /\ flash' \in [Addr -> Word]
  /\ LET s == SectorFrom(front)
     IN  \A a \in Addr : flash'[a] # flash[a] => s # NoSector /\ a \in Cells(s)
  /\ UNCHANGED <<image, upto, front, phase>>

(* The frontier passes a sector only when it holds its part of the image. *)
Advance ==
  LET s == SectorFrom(front)
  IN  /\ phase = "run"
      /\ s # NoSector
      /\ \A a \in Cells(s) : a < upto => flash[a] = image[a]
      /\ front' = Starts[s + 1]
      /\ UNCHANGED <<flash, image, upto, phase>>

Complete ==
  /\ phase = "run"
  /\ front >= upto
  /\ phase' = "done"
  /\ UNCHANGED <<flash, image, upto, front>>

(* The update stops short: an error, a refusal, or the power goes. *)
Abandon ==
  /\ phase = "run"
  /\ phase' = "idle"
  /\ UNCHANGED flash

Next == Prepare \/ Rewrite \/ Advance \/ Complete \/ Abandon

Spec == Init /\ [][Next]_vars
=============================================================================
