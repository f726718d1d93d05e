------------------------------ MODULE MCExecd ------------------------------
(* An instance of Execd for TLC.  In the code CF_EXEC_IFELAPSED equals the *)
(* length of the window of the default schedule, Min00_05, and is half of  *)
(* CF_EXEC_EXPIREAFTER; the instance keeps these proportions.              *)
EXTENDS Execd, TLC

CONSTANTS d1, d2

Daemons == {d1, d2}
TheSchedule == {0, 1}
Symmetric == Permutations(Daemons)
=============================================================================
