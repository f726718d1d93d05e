-------------------------------- MODULE Modes --------------------------------
(* modes.c: a mode string such as u+rw,o-rwx says which bits of the mode of a *)
(* file must be set (plus) and which must not (minus).  Numbers with letters  *)
(* can be mixed, but not in one directive.                                    *)
(*                                                                            *)
(* A mode is the set of its bits.  A mode string is a sequence of tokens: a   *)
(* letter for whom, with the bits it affects, an action, a letter for what,   *)
(* with the bits it stands for, a number, with its bits, and the comma.       *)
EXTENDS Integers, Sequences, SequencesExt

UserBits == {"setuid", "ur", "uw", "ux"}
GroupBits == {"setgid", "gr", "gw", "gx"}
OtherBits == {"or", "ow", "ox"}
AllBits == UserBits \cup GroupBits \cup OtherBits \cup {"sticky"}

(* The letters: 07777, 04700, 02070, 00007, and 0444, 0222, 0111, 06000.     *)
Who == [a |-> AllBits, u |-> UserBits, g |-> GroupBits, o |-> OtherBits]
Which == [r |-> {"ur", "gr", "or"}, w |-> {"uw", "gw", "ow"},
          x |-> {"ux", "gx", "ox"}, s |-> {"setuid", "setgid"}, t |-> {"sticky"}]
LetterOf(c) == [is |-> "who", bits |-> Who[c], sign |-> ""]
LetterFor(c) == [is |-> IF c = "t" THEN "sticky" ELSE "which", bits |-> Which[c], sign |-> ""]
Action(c) == [is |-> "action", bits |-> {}, sign |-> c]
Number(bits) == [is |-> "number", bits |-> bits, sign |-> ""]
Comma == [is |-> "comma", bits |-> {}, sign |-> ""]

(* Where ParseModeString is: state is wild (the value of unknown) until the   *)
(* first action or number.                                                    *)
Unparsed == [state |-> "wild", sort |-> "unknown", gotaction |-> FALSE, action |-> "=",
             affected |-> {}, value |-> {}, plus |-> {}, minus |-> {}, error |-> FALSE]

(* CheckModeState: an error if the token is out of context, or letters and    *)
(* numbers are mixed in one directive.                                        *)
CheckModeState(s, state, sort) ==
    [s EXCEPT !.error = @ \/ (s.state # "wild" /\ s.state # state)
                          \/ (s.sort # "unknown" /\ s.sort # sort)]

\* MUTANT of SetMask: = takes away what it does not affect, too.
SetMaskAll(s) ==
    [s EXCEPT !.plus = IF s.action = "-" THEN @ ELSE @ \cup s.value,
              !.minus = CASE s.action = "+" -> @
                          [] s.action = "-" -> @ \cup s.value
                          [] s.action = "=" -> @ \cup (AllBits \ s.value)]

SetMask(s) ==
    [s EXCEPT !.plus = IF s.action = "-" THEN @ ELSE @ \cup s.value,
              !.minus = CASE s.action = "+" -> @
                          [] s.action = "-" -> @ \cup s.value
                          [] s.action = "=" -> @ \cup (s.affected \ s.value)]

ReadToken(s, t) ==
    CASE t.is = "who" ->
            [CheckModeState(s, "who", "symbolic") EXCEPT
                !.affected = @ \cup t.bits, !.sort = "symbolic"]
      [] t.is = "action" ->
            [CheckModeState(s, "who", "symbolic") EXCEPT
                !.error = @ \/ s.gotaction, !.action = t.sign, !.state = "which",
                !.gotaction = TRUE, !.sort = "unknown"]
      [] t.is \in {"which", "sticky"} ->
            [CheckModeState(s, "which", "symbolic") EXCEPT
                !.value = @ \cup IF t.is = "sticky" THEN t.bits ELSE t.bits \cap s.affected,
                !.sort = "symbolic"]
      [] t.is = "number" ->
            [CheckModeState(s, "which", "numeric") EXCEPT
                !.sort = "numeric", !.gotaction = TRUE, !.state = "which",
                !.affected = AllBits, !.value = t.bits]
      [] t.is = "comma" ->
            [SetMask(s) EXCEPT !.sort = "unknown", !.action = "=", !.affected = {},
                !.value = {}, !.gotaction = FALSE, !.state = "who"]

ParseModeString(string) == SetMask(FoldLeft(ReadToken, Unparsed, string))

(* CheckExistingFile: the mode a file gets.                                   *)
NewMode(mode, masks) == (mode \cup masks.plus) \ masks.minus
=============================================================================
