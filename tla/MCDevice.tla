------------------------------ MODULE MCDevice ------------------------------
(* A sensor of each family, temperatures on both sides of zero and at the   *)
(* ends of the ranges, two wrong bits far apart and a burst of eight.       *)
EXTENDS Device

MCRoms == {<<1, 0, 0>>, <<0, 1, 1>>}
MCRegisters == {-880, -17, 250, 2000}
MCDisturbances == {{4, 16}, 9 .. 16}

=============================================================================
