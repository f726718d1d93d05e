------------------------------ MODULE MCLocks ------------------------------
(***************************************************************************)
(* Instances of Locks for TLC.                                             *)
(***************************************************************************)
EXTENDS Locks, TLC

CONSTANTS IfElapsedMinutes, ExpireAfterMinutes

\* Leaky jobs are done half as often as the others.
MCIfElapsed ==
    [j \in Job |-> IF j \in Leaky THEN 2 * IfElapsedMinutes ELSE IfElapsedMinutes]
MCExpireAfter == [j \in Job |-> ExpireAfterMinutes]

ProcSymmetry == Permutations(Proc)

=============================================================================
