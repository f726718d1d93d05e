------------------------------ MODULE Versions ------------------------------
(* Packages (package.c): whether one is installed in a version that the      *)
(* policy asks for.                                                          *)
(*                                                                           *)
(* A version is a sequence of segments, a segment the sequence of the codes  *)
(* of its characters, all digits or all letters; what separates segments is  *)
(* left out, as rpmvercmp skips it.  build is how strcmp of the C library    *)
(* says that strings differ: by 1 and -1 ("sign") or by the difference of    *)
(* the first characters that do ("difference").  The answers of rpm, dpkg    *)
(* and apt-cache are given: rpm has a list of what is installed, apt-cache   *)
(* one version or none of the packages it knows.                             *)
EXTENDS Integers, Sequences, FiniteSetsExt, SequencesExt

Sign(n) == IF n > 0 THEN 1 ELSE IF n < 0 THEN -1 ELSE 0
Common(x, y) == 1..Min({Len(x), Len(y)})

strcmp(x, y, build) ==
    LET differing == {i \in Common(x, y) : x[i] # y[i]}
        d == CASE differing # {} -> x[Min(differing)] - y[Min(differing)]
               [] Len(x) > Len(y) -> x[Len(y) + 1]
               [] Len(x) < Len(y) -> -y[Len(x) + 1]
               [] OTHER -> 0
    IN  IF build = "sign" THEN Sign(d) ELSE d

Zero == 48
IsNumber(segment) == Head(segment) \in Zero..57
WithoutZeros(segment) ==
    LET kept == {i \in DOMAIN segment : segment[i] # Zero}
    IN  IF kept = {} THEN <<>> ELSE SubSeq(segment, Min(kept), Len(segment))

(* The segments at one place.  Of different kinds the second is the newer,   *)
(* whichever it is.                                                          *)
CompareSegments(x, y, build) ==
    LET v == WithoutZeros(x)
        w == WithoutZeros(y)
    IN  CASE IsNumber(x) # IsNumber(y) -> -1
          [] IsNumber(x) /\ IsNumber(y) ->
                IF Len(v) # Len(w) THEN Sign(Len(v) - Len(w)) ELSE strcmp(v, w, build)
          [] OTHER -> strcmp(x, y, build)
rpmvercmp(a, b, build) ==
    LET differing == {i \in Common(a, b) : CompareSegments(a[i], b[i], build) # 0}
    IN  IF differing = {} THEN Sign(Len(a) - Len(b))
        ELSE CompareSegments(a[Min(differing)], b[Min(differing)], build)

(* ParseEVR finds an epoch and a release or none (<<>>); without an epoch,   *)
(* and for the "(none)" of rpm, it is 0.                                     *)
Epoch(evr) == IF evr.epoch = <<>> THEN 0 ELSE evr.epoch[1]
(* The last of epoch, version and release that differs decides, and a        *)
(* difference that is neither 1 nor -1 does not count.                       *)
Compared(installed, wanted, build) ==
    LET version == rpmvercmp(installed.version, wanted.version, build)
        release == IF wanted.release = <<>> THEN 0
                   ELSE rpmvercmp(installed.release, wanted.release, build)
    IN  CASE release \in {1, -1} -> release
          [] release \notin {1, -1} /\ version \in {1, -1} -> version
          [] OTHER -> Sign(Epoch(installed) - Epoch(wanted))
Satisfies(cmp, result) ==
    CASE cmp = "gt" -> result = 1
      [] cmp = "ge" -> result \in {0, 1}
      [] cmp = "lt" -> result = -1
      [] cmp = "le" -> result \in {0, -1}
      [] cmp = "eq" -> result = 0
      [] cmp = "ne" -> result # 0
\* MUTANT of RPMPackageCheck: all that is installed must satisfy the comparison.
RPMCheckAll(p, build) ==
    /\ p.installed # {}
    /\ p.wanted # <<>> =>
          \A evr \in p.installed : Satisfies(p.cmp, Compared(evr, p.wanted[1], build))
RPMPackageCheck(p, build) ==
    /\ p.installed # {}
    /\ p.wanted # <<>> =>
          \E evr \in p.installed : Satisfies(p.cmp, Compared(evr, p.wanted[1], build))

---------------------------------------------------------------------------
(* What is newer: numbers by their value, words as in a dictionary, then the *)
(* longer version; and of the epoch, the version and the release the first   *)
(* that differs.  Nothing is older than any version.                         *)

Rank(segment) ==
    IF IsNumber(segment)
    THEN FoldLeft(LAMBDA n, code : 10 * n + code - Zero, 0, segment)
    ELSE FoldLeft(LAMBDA n, i : 128 * n + (IF i \in DOMAIN segment THEN segment[i] ELSE 0),
                  0, <<1, 2>>)
VersionOrder(a, b) ==
    LET differing == {i \in Common(a, b) : Rank(a[i]) # Rank(b[i])}
    IN  IF differing = {} THEN Sign(Len(a) - Len(b))
        ELSE Sign(Rank(a[Min(differing)]) - Rank(b[Min(differing)]))
Orders(installed, wanted) ==
    <<Sign(Epoch(installed) - Epoch(wanted)),
      VersionOrder(installed.version, wanted.version),
      IF wanted.release = <<>> THEN 0 ELSE VersionOrder(installed.release, wanted.release)>>
Order(installed, wanted) ==
    LET orders == Orders(installed, wanted)
        differing == {i \in 1..3 : orders[i] # 0}
    IN  IF differing = {} THEN 0 ELSE orders[Min(differing)]

(* apt-cache policy and dpkg --compare-versions.  Without a version the      *)
(* command that compares fails, and so what is known is found.               *)
DPKGPackageCheck(p) ==
    LET result == CASE p.wanted = <<>> -> 0
                    [] p.wanted # <<>> /\ p.installed = {} -> -1
                    [] OTHER -> Order(CHOOSE evr \in p.installed : TRUE, p.wanted[1])
    IN  p.known /\ Satisfies(p.cmp, result)

(* The classes CheckPackages defines. *)
CheckPackages(p, build) ==
    IF IF p.manager = "rpm" THEN RPMPackageCheck(p, build) ELSE DPKGPackageCheck(p)
    THEN "define" ELSE "elsedefine"
=============================================================================
