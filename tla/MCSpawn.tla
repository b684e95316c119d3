------------------------------ MODULE MCSpawn -------------------------------
(* Spawn with limits of none, one and two seconds, and children that need  *)
(* less than, as much as and more than that.                               *)
EXTENDS Spawn

MCLimits == {0, 1, 2}
MCNeed   == 0 .. 3
=============================================================================
