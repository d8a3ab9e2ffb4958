------------------------------- MODULE MCLink -------------------------------
(* TempLink with two settings that differ in every part, curves of two     *)
(* entries, and every kind of service.                                     *)
EXTENDS TempLink

MCSettings ==
  {[trigger |-> 60, daystop |-> 0, timestop |-> 0],
   [trigger |-> 70, daystop |-> 3, timestop |-> 1]}
=============================================================================
