---------------------------- MODULE MCHolidayCache ---------------------------
(***************************************************************************)
(* Values of the constants of HolidayCache for TLC: a holiday on a weekday *)
(* (4) is in the table, one import adds the Saturday worked for it (9),    *)
(* the other makes the holiday a working day and adds another one (5).     *)
(***************************************************************************)
EXTENDS HolidayCache

MCDates == {4, 5, 9}
MCWeekend == {9, 10}
MCImports == {"makeup", "moved"}
Row(d, kind) == [e \in MCDates |-> IF e = d THEN kind ELSE "none"]
MCInitialRows == Row(4, "holiday")
MCBatch ==
  [i \in MCImports |->
     IF i = "makeup" THEN Row(9, "makeup")
     ELSE [Row(5, "holiday") EXCEPT ![4] = "makeup"]]

=============================================================================
