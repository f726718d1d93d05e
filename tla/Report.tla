------------------------------- MODULE Report -------------------------------
(***************************************************************************)
(* LocalExec and MailResult of cfexecd (src/src/cfexecd.c).  Every run of  *)
(* cfagent writes its output to a file of its own; a report that equals    *)
(* the one outputs/previous points to is not mailed.  The runs are threads *)
(* of cfexecd and of "cfexecd -F" processes started by cron; they share    *)
(* the symbolic link without a lock, one action for each access to it.     *)
(***************************************************************************)
CONSTANTS
    Run,    \* runs of LocalExec
    Text,   \* what a report may say, once it says something
    Empty,  \* a report without output
    None    \* no file, no link, no verdict

ASSUME NoneAssumption ==
    /\ {Empty, None} \cap (Run \cup Text) = {}
    /\ None \notin {Empty, "same", "differs", "suppressed"}

VARIABLES
    at,       \* how far each run has come
    file,     \* its outputs/cf_<host>_<time>
    prev,     \* what outputs/previous points to
    verdict,  \* what CompareResult says of its report
    fate      \* what became of its report

rvars == <<at, file, prev, verdict, fate>>

Init ==
    /\ at = [r \in Run |-> "idle"]
    /\ file = [r \in Run |-> None]
    /\ prev = None
    /\ verdict = [r \in Run |-> None]
    /\ fate = [r \in Run |-> None]

Goto(r, where) == at' = [at EXCEPT ![r] = where]
End(r, what) == Goto(r, "end") /\ fate' = [fate EXCEPT ![r] = what]
Judge(r, what) == verdict' = [verdict EXCEPT ![r] = what]

\* LocalExec opens the file and starts cfagent.
LocalExec(r) ==
    /\ at[r] = "idle"
    /\ file' = [file EXCEPT ![r] = Empty]
    /\ Goto(r, "agent")
    /\ UNCHANGED <<prev, verdict, fate>>

\* cfagent ends.
AgentEnds(r) ==
    /\ at[r] = "agent"
    /\ \E text \in Text \cup {Empty} : file' = [file EXCEPT ![r] = text]
    /\ Goto(r, "mailResult")
    /\ UNCHANGED <<prev, verdict, fate>>

\* MailResult: an empty report is removed, and so is the link.
MailResultEmpty(r) ==
    /\ at[r] = "mailResult" /\ file[r] = Empty
    /\ file' = [file EXCEPT ![r] = None]
    /\ prev' = None
    /\ End(r, "empty")
    /\ UNCHANGED verdict

\* MUTANT of CompareResult: the link is moved before the files are compared.
CompareLate(r) ==
    /\ at[r] = "mailResult" /\ file[r] # Empty
    /\ prev' = r
    /\ Judge(r, "same")
    /\ Goto(r, "unlink")
    /\ UNCHANGED <<file, fate>>

\* CompareResult reads the file behind the link, if there is one ...
CompareResult(r) ==
    /\ at[r] = "mailResult" /\ file[r] # Empty
    /\ Judge(r, IF prev # None /\ file[prev] = file[r] THEN "same"
                                                        ELSE "differs")
    /\ Goto(r, "unlink")
    /\ UNCHANGED <<file, prev, fate>>

\* ... removes the link ...
UnlinkPrevious(r) ==
    /\ at[r] = "unlink"
    /\ prev' = None
    /\ Goto(r, "symlink")
    /\ UNCHANGED <<file, verdict, fate>>

\* ... and makes it anew.  symlink() fails when another run has been faster,
\* and the report then counts as a new one.
SymlinkPrevious(r) ==
    /\ at[r] = "symlink"
    /\ IF prev = None
       THEN prev' = r /\ UNCHANGED verdict
       ELSE Judge(r, "differs") /\ UNCHANGED prev
    /\ Goto(r, "mail")
    /\ UNCHANGED <<file, fate>>

\* The rest of MailResult; the dialogue with the mail server may fail.
Mail(r) ==
    /\ at[r] = "mail"
    /\ IF verdict[r] = "same"
       THEN End(r, "suppressed")
       ELSE \E what \in {"mailed", "undelivered"} : End(r, what)
    /\ UNCHANGED <<file, prev, verdict>>

Busy(r) == at[r] \notin {"idle", "end"}

\* A cfexecd ends, by ExitCleanly or a crash, and its threads go with it.
Kill(rs) ==
    /\ rs # {} /\ \A r \in rs : Busy(r)
    /\ at' = [r \in Run |-> IF r \in rs THEN "end" ELSE at[r]]
    /\ fate' = [r \in Run |-> IF r \in rs THEN "killed" ELSE fate[r]]
    /\ UNCHANGED <<file, prev, verdict>>

Execute(r) ==
    \/ LocalExec(r)
    \/ AgentEnds(r)
    \/ MailResultEmpty(r)
    \/ CompareResult(r)
    \/ UnlinkPrevious(r)
    \/ SymlinkPrevious(r)
    \/ Mail(r)

\* The runs may all have ended.
AllEnded == (\A r \in Run : at[r] = "end") /\ UNCHANGED rvars

Next ==
    \/ \E r \in Run : Execute(r)
    \/ \E rs \in SUBSET Run : Kill(rs)
    \/ AllEnded

Spec == Init /\ [][Next]_rvars

-----------------------------------------------------------------------------
Verdicts == {"same", "differs"}

TypeOK ==
    /\ at \in [Run -> {"idle", "agent", "mailResult", "unlink", "symlink",
                       "mail", "end"}]
    /\ file \in [Run -> Text \cup {Empty, None}]
    /\ prev \in Run \cup {None}
    /\ verdict \in [Run -> Verdicts \cup {None}]
    /\ fate \in [Run -> {"empty", "suppressed", "mailed", "undelivered",
                         "killed", None}]

\* A report is kept from the administrator only if another one with the same
\* text was found to be news, however the accesses of the runs to the link
\* interleave and whichever runs are killed on the way.
SuppressedHasTwin ==
    \A r \in Run :
        fate[r] = "suppressed" =>
            \E q \in Run \ {r} : file[q] = file[r] /\ verdict[q] = "differs"

\* The strengthening that is inductive: what has been judged stays as it is,
\* the link leads to a judged report, and "same" has had its twin since then.
Judged(r) == verdict[r] \in Verdicts
Twin(q, r) == q # r /\ file[q] = file[r] /\ verdict[q] = "differs"

JudgedIsWritten ==
    /\ \A r \in Run : at[r] \in {"idle", "agent", "mailResult"} => ~Judged(r)
    /\ \A r \in Run : at[r] \in {"unlink", "symlink", "mail"} => Judged(r)
    /\ prev # None => Judged(prev)

SameHasTwin ==
    \A r \in Run : verdict[r] = "same" => \E q \in Run : Twin(q, r)

OnlySameSuppressed ==
    \A r \in Run :
        fate[r] = "suppressed" => verdict[r] = "same" /\ at[r] = "end"

IInv == TypeOK /\ JudgedIsWritten /\ SameHasTwin /\ OnlySameSuppressed
=============================================================================
