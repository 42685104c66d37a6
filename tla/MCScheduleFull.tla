--------------------------- MODULE MCScheduleFull ---------------------------
(* The schedule of a week whose bars differ from one to the next until     *)
(* Saturday morning, and the time after that.                              *)
EXTENDS ScheduleSearch

FullWeek == [k \in 1 .. 260 |-> [time |-> 30 * (k - 1),
                                 temp |-> IF k % 2 = 0 THEN 1800 ELSE 2100]]
MCSchedules == {FullWeek}
MCTimes == {4 * 86400, 4 * 86400 + 6 * 86400}
=============================================================================
