---------------------------- MODULE ReportProofs ----------------------------
(***************************************************************************)
(* SuppressedHasTwin of module Report for any number of concurrent runs.   *)
(* The invariant IInv says that a report found to be "same" has a twin     *)
(* that was news; the link leads to a judged report, and what is judged is *)
(* never rewritten, so a new "same" inherits the twin of the report it was *)
(* compared with.                                                          *)
(***************************************************************************)
EXTENDS Report, TLAPS

LEMMA VerdictsDistinct == "same" # "differs" /\ None \notin Verdicts
  BY NoneAssumption DEF Verdicts

LEMMA InitIInv == Init => IInv
  <1> SUFFICES ASSUME Init PROVE IInv
      OBVIOUS
  <1>1. TypeOK
    BY DEF Init, TypeOK
  <1>2. JudgedIsWritten
    BY VerdictsDistinct DEF Init, JudgedIsWritten, Judged
  <1>3. SameHasTwin /\ OnlySameSuppressed
    BY NoneAssumption DEF Init, SameHasTwin, OnlySameSuppressed
  <1> QED BY <1>1, <1>2, <1>3 DEF IInv

\* A run that has no verdict writes its file and is not judged: the twins of
\* the others are unmoved.
LEMMA UnjudgedStep ==
  ASSUME IInv, NEW r \in Run, ~Judged(r),
         \A q \in Run \ {r} : file'[q] = file[q],
         UNCHANGED verdict
  PROVE  SameHasTwin'
  <1> SUFFICES ASSUME NEW p \in Run, verdict[p] = "same"
               PROVE  \E q \in Run : Twin(q, p)'
    BY DEF SameHasTwin
  <1>1. p # r
    BY DEF Judged, Verdicts
  <1>2. PICK q \in Run : Twin(q, p)
    BY DEF IInv, SameHasTwin
  <1>3. q # r
    BY <1>2 DEF Judged, Verdicts, Twin
  <1> QED BY <1>1, <1>2, <1>3 DEF Twin

\* The verdict of a comparison, the one step that finds a report to be "same".
LEMMA CompareStep ==
  ASSUME IInv, NEW r \in Run, CompareResult(r)
  PROVE  SameHasTwin'
  <1>1. /\ ~Judged(r)
        /\ prev # None => Judged(prev) /\ prev \in Run /\ prev # r
        /\ UNCHANGED file
        /\ \A q \in Run \ {r} : verdict'[q] = verdict[q]
        /\ verdict'[r] = "same" => prev # None /\ file[prev] = file[r]
    <2>1. verdict'[r] = IF prev # None /\ file[prev] = file[r]
                        THEN "same" ELSE "differs"
      BY DEF IInv, TypeOK, CompareResult, Judge
    <2>2. verdict'[r] = "same" => prev # None /\ file[prev] = file[r]
      BY <2>1, VerdictsDistinct
    <2>3. ~Judged(r)
      BY DEF IInv, JudgedIsWritten, CompareResult
    <2>4. prev # None => Judged(prev) /\ prev \in Run /\ prev # r
      BY <2>3 DEF IInv, TypeOK, JudgedIsWritten
    <2> QED BY <2>2, <2>3, <2>4 DEF IInv, TypeOK, CompareResult, Judge
  <1> SUFFICES ASSUME NEW p \in Run, verdict'[p] = "same"
               PROVE  \E q \in Run : Twin(q, p)'
    BY DEF SameHasTwin
  <1>2. CASE p # r
    <2>1. PICK q \in Run : Twin(q, p)
      BY <1>1, <1>2 DEF IInv, SameHasTwin
    <2>2. q # r
      BY <1>1, <2>1 DEF Judged, Verdicts, Twin
    <2> QED BY <1>1, <2>1, <2>2 DEF Twin
  <1>3. CASE p = r
    <2>1. prev \in Run /\ prev # r /\ Judged(prev) /\ file[prev] = file[r]
      BY <1>1, <1>3
    <2>2. CASE verdict[prev] = "differs"
      BY <1>1, <1>3, <2>1, <2>2 DEF Twin
    <2>3. CASE verdict[prev] = "same"
      <3>1. PICK q \in Run : Twin(q, prev)
        BY <2>1, <2>3 DEF IInv, SameHasTwin
      <3>2. q # r
        BY <1>1, <3>1 DEF Judged, Verdicts, Twin
      <3> QED BY <1>1, <1>3, <2>1, <3>1, <3>2 DEF Twin
    <2> QED BY <2>1, <2>2, <2>3 DEF Judged, Verdicts
  <1> QED BY <1>2, <1>3

\* A verdict may turn from "same" to "differs" when symlink() fails.
LEMMA SymlinkStep ==
  ASSUME IInv, NEW r \in Run, SymlinkPrevious(r)
  PROVE  SameHasTwin'
  <1>1. /\ UNCHANGED file
        /\ \A q \in Run : verdict'[q] = verdict[q] \/ verdict'[q] = "differs"
    BY DEF IInv, TypeOK, SymlinkPrevious, Judge
  <1> SUFFICES ASSUME NEW p \in Run, verdict'[p] = "same"
               PROVE  \E q \in Run : Twin(q, p)'
    BY DEF SameHasTwin
  <1>2. verdict[p] = "same"
    BY <1>1, VerdictsDistinct
  <1>3. PICK q \in Run : Twin(q, p)
    BY <1>2 DEF IInv, SameHasTwin
  <1>4. verdict'[q] = "differs"
    BY <1>1, <1>3 DEF Twin
  <1> QED BY <1>1, <1>3, <1>4 DEF Twin

\* Every step keeps the types.
LEMMA TypeStep == TypeOK /\ [Next]_rvars => TypeOK'
  <1> SUFFICES ASSUME TypeOK, [Next]_rvars PROVE TypeOK'
      OBVIOUS
  <1>1. ASSUME NEW r \in Run, LocalExec(r) PROVE TypeOK'
    BY <1>1 DEF TypeOK, LocalExec, Goto
  <1>2. ASSUME NEW r \in Run, AgentEnds(r) PROVE TypeOK'
    BY <1>2 DEF TypeOK, AgentEnds, Goto
  <1>3. ASSUME NEW r \in Run, MailResultEmpty(r) PROVE TypeOK'
    BY <1>3 DEF TypeOK, MailResultEmpty, End, Goto
  <1>4. ASSUME NEW r \in Run, CompareResult(r) PROVE TypeOK'
    BY <1>4 DEF TypeOK, CompareResult, Judge, Goto, Verdicts
  <1>5. ASSUME NEW r \in Run, UnlinkPrevious(r) PROVE TypeOK'
    BY <1>5 DEF TypeOK, UnlinkPrevious, Goto
  <1>6. ASSUME NEW r \in Run, SymlinkPrevious(r) PROVE TypeOK'
    BY <1>6 DEF TypeOK, SymlinkPrevious, Judge, Goto, Verdicts
  <1>7. ASSUME NEW r \in Run, Mail(r) PROVE TypeOK'
    BY <1>7 DEF TypeOK, Mail, End, Goto
  <1>8. ASSUME NEW rs \in SUBSET Run, Kill(rs) PROVE TypeOK'
    BY <1>8 DEF TypeOK, Kill
  <1>9. CASE UNCHANGED rvars
    BY <1>9 DEF TypeOK, rvars
  <1> QED
    BY <1>1, <1>2, <1>3, <1>4, <1>5, <1>6, <1>7, <1>8, <1>9
    DEF Next, Execute, AllEnded

LEMMA JudgedStep == IInv /\ [Next]_rvars => JudgedIsWritten'
  <1> SUFFICES ASSUME IInv, [Next]_rvars PROVE JudgedIsWritten'
      OBVIOUS
  <1> USE DEF IInv, TypeOK, JudgedIsWritten, Judged, Verdicts
  <1>1. ASSUME NEW r \in Run, LocalExec(r) PROVE JudgedIsWritten'
    BY <1>1 DEF LocalExec, Goto
  <1>2. ASSUME NEW r \in Run, AgentEnds(r) PROVE JudgedIsWritten'
    BY <1>2 DEF AgentEnds, Goto
  <1>3. ASSUME NEW r \in Run, MailResultEmpty(r) PROVE JudgedIsWritten'
    BY <1>3 DEF MailResultEmpty, End, Goto
  <1>4. ASSUME NEW r \in Run, CompareResult(r) PROVE JudgedIsWritten'
    BY <1>4 DEF CompareResult, Judge, Goto
  <1>5. ASSUME NEW r \in Run, UnlinkPrevious(r) PROVE JudgedIsWritten'
    BY <1>5 DEF UnlinkPrevious, Goto
  <1>6. ASSUME NEW r \in Run, SymlinkPrevious(r) PROVE JudgedIsWritten'
    BY <1>6 DEF SymlinkPrevious, Judge, Goto
  <1>7. ASSUME NEW r \in Run, Mail(r) PROVE JudgedIsWritten'
    BY <1>7 DEF Mail, End, Goto
  <1>8. ASSUME NEW rs \in SUBSET Run, Kill(rs) PROVE JudgedIsWritten'
    BY <1>8 DEF Kill
  <1>9. CASE UNCHANGED rvars
    BY <1>9 DEF rvars
  <1> QED
    BY <1>1, <1>2, <1>3, <1>4, <1>5, <1>6, <1>7, <1>8, <1>9
    DEF Next, Execute, AllEnded

LEMMA TwinStep == IInv /\ [Next]_rvars => SameHasTwin'
  <1> SUFFICES ASSUME IInv, [Next]_rvars PROVE SameHasTwin'
      OBVIOUS
  <1>1. ASSUME NEW r \in Run, LocalExec(r) \/ AgentEnds(r) \/ MailResultEmpty(r)
        PROVE  SameHasTwin'
    <2>1. ~Judged(r)
      BY <1>1 DEF IInv, JudgedIsWritten, LocalExec, AgentEnds, MailResultEmpty
    <2>2. /\ UNCHANGED verdict
          /\ \A q \in Run \ {r} : file'[q] = file[q]
      BY <1>1 DEF IInv, TypeOK, LocalExec, AgentEnds, MailResultEmpty
    <2> QED BY <2>1, <2>2, UnjudgedStep
  <1>2. CASE UNCHANGED <<file, verdict>>
    BY <1>2 DEF IInv, SameHasTwin, Twin
  <1> QED
    BY <1>1, <1>2, CompareStep, SymlinkStep
    DEF Next, Execute, AllEnded, UnlinkPrevious, Mail, Kill, rvars

LEMMA SuppressedStep == IInv /\ [Next]_rvars => OnlySameSuppressed'
  <1> SUFFICES ASSUME IInv, [Next]_rvars PROVE OnlySameSuppressed'
      OBVIOUS
  <1> USE DEF IInv, TypeOK, OnlySameSuppressed
  <1>1. ASSUME NEW r \in Run, LocalExec(r) PROVE OnlySameSuppressed'
    BY <1>1 DEF LocalExec, Goto
  <1>2. ASSUME NEW r \in Run, AgentEnds(r) PROVE OnlySameSuppressed'
    BY <1>2 DEF AgentEnds, Goto
  <1>3. ASSUME NEW r \in Run, MailResultEmpty(r) PROVE OnlySameSuppressed'
    BY <1>3 DEF MailResultEmpty, End, Goto
  <1>4. ASSUME NEW r \in Run, CompareResult(r) PROVE OnlySameSuppressed'
    BY <1>4 DEF CompareResult, Judge, Goto
  <1>5. ASSUME NEW r \in Run, UnlinkPrevious(r) PROVE OnlySameSuppressed'
    BY <1>5 DEF UnlinkPrevious, Goto
  <1>6. ASSUME NEW r \in Run, SymlinkPrevious(r) PROVE OnlySameSuppressed'
    BY <1>6 DEF SymlinkPrevious, Judge, Goto
  <1>7. ASSUME NEW r \in Run, Mail(r) PROVE OnlySameSuppressed'
    BY <1>7 DEF Mail, End, Goto
  <1>8. ASSUME NEW rs \in SUBSET Run, Kill(rs) PROVE OnlySameSuppressed'
    BY <1>8 DEF Kill, Busy
  <1>9. CASE UNCHANGED rvars
    BY <1>9 DEF rvars
  <1> QED
    BY <1>1, <1>2, <1>3, <1>4, <1>5, <1>6, <1>7, <1>8, <1>9
    DEF Next, Execute, AllEnded

\* MailResult and CompareResult keep the strengthened invariant, however the
\* accesses of the runs interleave.
THEOREM ReportInvariant == Spec => []IInv
  <1>1. IInv /\ [Next]_rvars => IInv'
    BY TypeStep, JudgedStep, TwinStep, SuppressedStep DEF IInv
  <1> QED BY <1>1, InitIInv, PTL DEF Spec

\* The variables of module Report always have their types.
THEOREM ReportTypeCorrect == Spec => []TypeOK
  <1>1. IInv => TypeOK
    BY DEF IInv
  <1> QED BY <1>1, ReportInvariant, PTL

\* Whatever the number of runs, a report that CompareResult keeps from the
\* administrator has a twin that it found to be news.
THEOREM NoNewsSuppressed == Spec => []SuppressedHasTwin
  <1>1. IInv => SuppressedHasTwin
    BY DEF IInv, OnlySameSuppressed, SameHasTwin, Twin, SuppressedHasTwin
  <1> QED BY <1>1, ReportInvariant, PTL
=============================================================================
