---------------------------- MODULE MCThermostat ----------------------------
(* A small thermostat: temperatures on both sides of each target and on    *)
(* the edge of its band, one below zero, an empty schedule and two others. *)
EXTENDS Thermostat

MCTemps == {-500, 0, 1863, 2000}
MCTargets == {1800, 2100, -100}
MCSchedules == {<< >>, <<1700>>, <<1900, 2100>>}
=============================================================================
