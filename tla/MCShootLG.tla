----------------------------- MODULE MCShootLG -----------------------------
(* TLC instance of ShootLG: the heat limit leaves one bullet to shoot, or  *)
(* (MCRequests) none or a negative number of them.                         *)
EXTENDS ShootLG

MCRequests == {-1, 0, 1}
MCSupplies == {1}
MCForward == {1}
=============================================================================
