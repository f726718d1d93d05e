------------------------------ MODULE MCLockHistory ------------------------
(***************************************************************************)
(* Instances of LockHistory for TLC.                                       *)
(***************************************************************************)
EXTENDS LockHistory, TLC

CONSTANTS IfElapsedMinutes, ExpireAfterMinutes

MCIfElapsed == [j \in Job |-> IfElapsedMinutes]
MCExpireAfter == [j \in Job |-> ExpireAfterMinutes]

ProcSymmetry == Permutations(Proc)

=============================================================================
