------------------------------- MODULE MCCopy -------------------------------
(* An instance of Copy for TLC: two files of which each has a version of    *)
(* one block and one of two, and promises in which every option occurs.     *)
EXTENDS Copy

Sizes == <<1, 2>>
Image(remote, type, backup, repository, purge, verify) ==
    [remote |-> remote, type |-> type, backup |-> backup,
     repository |-> repository, purge |-> purge, verify |-> verify]
Promises ==
    {Image(TRUE, "checksum", TRUE, FALSE, TRUE, FALSE),
     Image(TRUE, "time", TRUE, TRUE, FALSE, TRUE),
     Image(FALSE, "checksum", FALSE, FALSE, TRUE, TRUE)}
(* A bound: under one of the promises both changes and the fault occur, under *)
(* the others two of the three.                                             *)
Bound == changes' + faults' <= 2 \/ promise.type = "time"
BoundedSpec == /\ Init /\ [][Next /\ Bound]_vars
               /\ WF_vars(Agent) /\ WF_vars(Server) /\ WF_vars(Expire)
=============================================================================
