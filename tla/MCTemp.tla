------------------------------- MODULE MCTemp -------------------------------
(* TempMonitor through 29 February of a leap century, through the end of a *)
(* year and over the last Sunday the program counts right; days of two     *)
(* minutes, minutes of five slots of twelve seconds.                       *)
EXTENDS TempMonitor

MCStarts == {<<<<2000, 2, 29>>, 2, 0>>, <<<<2004, 12, 31>>, 5, 0>>, <<<<2064, 6, 15>>, 7, 1>>}

\* Friday and Saturday of the first week the program does not count right
MCLateStarts == {<<<<2064, 6, 20>>, 5, 1>>}

MCSettings ==
  {[trigger |-> 0, daystop |-> EVERYDAY_STOP, timestop |-> 0],
   [trigger |-> 60, daystop |-> WORKDAY_STOP, timestop |-> 1],
   [trigger |-> 60, daystop |-> 3, timestop |-> 1]}

MCReadings == {-1, 40, 89}

Machine(a, c, x, v) == [app |-> a, cpu_060 |-> c, xbios |-> x, aes4 |-> v]
MCMachines ==
  {Machine(TRUE, TRUE, TRUE, TRUE), Machine(FALSE, TRUE, TRUE, FALSE),
   Machine(TRUE, TRUE, TRUE, FALSE), Machine(TRUE, FALSE, FALSE, TRUE),
   Machine(FALSE, FALSE, FALSE, TRUE)}
=============================================================================
