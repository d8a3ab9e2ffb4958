------------------------------- MODULE MCIsp -------------------------------
(* IspSession on XC9572-sized rows, two sectors, the usercode in the       *)
(* second; chips that hold an old design, nothing, or the new code with    *)
(* other rows.                                                             *)
EXTENDS IspSession

N == 15 * Sectors
Rows(code)   == [i \in 1 .. N |-> IF i = UserRow + 1 THEN code ELSE i % 2]
File(d, code) ==
  <<[kind |-> "other"], [kind |-> "DEVICE", name |-> d], [kind |-> "QF", rows |-> N],
    [kind |-> "L", at |-> 0, data |-> SubSeq(Rows(code), 1, 7)],
    [kind |-> "L", at |-> 7, data |-> SubSeq(Rows(code), 8, N)]>>

MCFiles ==
  {File("ABE", 1), File("XC9536", 1),
   Append(File("CTPCI", 0), [kind |-> "DEVICE", name |-> "XC9536"]),  \* named among others
   <<[kind |-> "DEVICE", name |-> "SDR"]>> \o File("SDR", 1),     \* two notes
   <<[kind |-> "L", at |-> 0, data |-> <<1>>]>>,                  \* L before QF
   Append(File("SDR", 0), [kind |-> "QF", rows |-> N]),           \* QF twice
   <<[kind |-> "bad"]>>}

MCOld ==
  {[r \in Row |-> BLANK],
   [r \in Row |-> IF r = UserRow THEN 1 ELSE (IF r % 3 = 0 THEN 1 ELSE 0)],
   [r \in Row |-> Rows(1)[r + 1]]}
=============================================================================
