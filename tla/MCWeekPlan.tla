----------------------------- MODULE MCWeekPlan -----------------------------
(* A week of four bars a day.  The times: start and last second of the     *)
(* week, both sides of a midnight and of a bar.                            *)
EXTENDS WeekPlan

Monday == 4 * 86400
MCTimes == {Monday, Monday + 7 * 86400 - 1,
            Monday + 3 * 86400 - 1, Monday + 3 * 86400,
            Monday + 2 * 86400 + 21599, Monday + 2 * 86400 + 21600}
MCFirstCharts == {NULL, <<Chart(Days, Bars18)>>}
MCSchedules == {<<>>}
=============================================================================
