--------------------------- MODULE MCLeaveWorkflow --------------------------
(***************************************************************************)
(* Values of the constants of LeaveWorkflow for TLC.  Date 1 is a Friday,  *)
(* 2 and 3 are a weekend, 4 is a public holiday, 9 a Saturday worked to    *)
(* make up for it.                                                         *)
(***************************************************************************)
EXTENDS LeaveWorkflow, TLC

Body(u, type, start, end) ==
  [user |-> u, type |-> type, start |-> start, end |-> end]

MCWeekend == {2, 3, 9, 10}
MCCalendar == (4 :> TRUE) @@ (9 :> FALSE)

\* Department 4 of migrations/002: three people, two of whom have to stay.
MCUsers == {"emp_a", "emp_b"}
MCDepts == {"marketing"}
MCDeptOf == [u \in MCUsers |-> "marketing"]
MCHeadCount == [d \in MCDepts |-> 3]
MCMinOnSite == [d \in MCDepts |-> 2]

LeaveTypes == {"annual", "sick", "compassion", "compensatory", "maternity"}
AnnualDays(a, b) ==
  [u \in MCUsers |-> [t \in LeaveTypes |->
     IF t # "annual" THEN 0 ELSE IF u = "emp_a" THEN a ELSE b]]

\* Eight days, for three signatures, four days, for two, and one day, for the
\* system to sign.
ConcurrentBalance == AnnualDays(10, 10)
ConcurrentRequests ==
  {Body("emp_a", "annual", 1, 13), Body("emp_a", "annual", 5, 8),
   Body("emp_b", "annual", 1, 1)}

\* Three days across the weekend and the holiday and two around the worked
\* Saturday, which are more than emp_a has together; a day and five days of
\* emp_b from the same Friday; a weekend, and dates the wrong way round.
SerialBalance == AnnualDays(4, 6)
SerialRequests ==
  {Body("emp_a", "annual", 1, 6), Body("emp_a", "annual", 8, 9),
   Body("emp_b", "annual", 1, 1), Body("emp_b", "annual", 1, 8),
   Body("emp_b", "compassion", 2, 3), Body("emp_b", "sick", 5, 4)}

\* One day each, on the same Friday.
SameDayRequests ==
  {Body("emp_a", "annual", 1, 1), Body("emp_b", "annual", 1, 1)}

Symmetry == Permutations(Leaves) \cup Permutations(Handlers)
=============================================================================
