------------------------------ MODULE MCReport ------------------------------
(* An instance of Report for TLC: four runs, two texts.                    *)
EXTENDS Report, TLC

CONSTANTS r1, r2, r3, r4, x, y

Runs == {r1, r2, r3, r4}
Texts == {x, y}
Symmetric == Permutations(Runs) \cup Permutations(Texts)
=============================================================================
