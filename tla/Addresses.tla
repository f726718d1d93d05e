------------------------------ MODULE Addresses ------------------------------
(* Patterns of addresses and names of hosts (item.c): what IPRange() and     *)
(* HostRange() say of this host, and the lists of cfservd of its peers.      *)
(*                                                                           *)
(* An address of IPv4 is four octets, one of IPv6 eight groups, a group the  *)
(* sequence of its hexadecimal digits.  A pattern (of kind "range") gives    *)
(* for each of them the two it lies between, which are the same if it is     *)
(* not a range; or ("mask") an address and the bits that count; or           *)
(* ("beginning") octets and the first digits of one more.  Left out: ranges  *)
(* of less than four or eight parts, whose end the code reads past, "::",    *)
(* and patterns of one family with addresses of the other.                   *)
EXTENDS Integers, Sequences, FiniteSetsExt, SequencesExt

(* strncmp of the digits of octets. *)
BeginsWith(octet, digits) == \E n \in {1, 10, 100} : octet \div n = digits
MatchesBeginning(pattern, address) ==
    /\ IsPrefix(pattern.octets, address)
    /\ pattern.digits # <<>> =>
          /\ Len(pattern.octets) < Len(address)
          /\ BeginsWith(address[Len(pattern.octets) + 1], pattern.digits[1])

(* What shifting an address to the right leaves of its octets. *)
Shifted(address, shift) ==
    [i \in 1..4 |-> address[i] \div 2 ^ Max({0, Min({8, shift - 8 * (4 - i)})})]
MatchesMask(pattern, address) ==
    LET shift == 32 - pattern.mask
    IN  Shifted(pattern.address, shift) = Shifted(address, shift)

\* MUTANT of MatchesRange: the bounds do not belong to the range.
LiesWithin(pattern, address) ==
    \A i \in 1..4 : LET part == pattern.parts[i]
                    IN  IF part.from = part.to THEN address[i] = part.from
                        ELSE part.from < address[i] /\ address[i] < part.to
MatchesRange(pattern, address) ==
    \A i \in 1..4 :
        address[i] \in pattern.parts[i].from..pattern.parts[i].to

(* Groups of IPv6 are bytes two by two. *)
Hex(group) == FoldLeft(LAMBDA n, digit : 16 * n + digit, 0, group)
Byte(address, i) ==
    LET group == Hex(address[(i + 1) \div 2])
    IN  IF i % 2 = 1 THEN group \div 256 ELSE group % 256
MatchesMask6(pattern, address) ==
    /\ pattern.mask % 8 = 0
    /\ \A i \in 1..(pattern.mask \div 8) :
          Byte(pattern.address, i) = Byte(address, i)
(* sscanf for a decimal number in a group: the digits before the first       *)
(* letter, or what was there before.                                         *)
Decimal(group, before) ==
    LET n == Min({i \in 0..Len(group) : i = Len(group) \/ group[i + 1] > 9})
    IN  IF n = 0 THEN before
        ELSE FoldLeft(LAMBDA m, digit : 10 * m + digit, 0, SubSeq(group, 1, n))
(* One group after the other; a range does not contain its first group.      *)
MatchesRange6(pattern, address) ==
    LET next(read, i) ==
            LET part == pattern.parts[i]
                from == IF part.from # part.to THEN Hex(part.from)
                        ELSE Decimal(part.from, read.from)
                cmp == IF part.from # part.to THEN Hex(address[i])
                       ELSE Decimal(address[i], read.cmp)
            IN  [from |-> from, cmp |-> cmp,
                 same |-> read.same /\ IF part.from # part.to
                                       THEN from < cmp /\ cmp <= Hex(part.to)
                                       ELSE from = cmp]
    IN  FoldLeft(next, [from |-> -1, cmp |-> -1, same |-> TRUE], [i \in 1..8 |-> i]).same

FuzzySetMatch(pattern, address) ==
    CASE pattern.kind = "beginning" -> MatchesBeginning(pattern, address)
      [] pattern.kind = "mask" /\ Len(address) = 4 -> MatchesMask(pattern, address)
      [] pattern.kind = "range" /\ Len(address) = 4 -> MatchesRange(pattern, address)
      [] pattern.kind = "mask" /\ Len(address) = 8 -> MatchesMask6(pattern, address)
      [] pattern.kind = "range" /\ Len(address) = 8 -> MatchesRange6(pattern, address)
IsFuzzyItemIn(list, address) ==
    \E pattern \in list : FuzzySetMatch(pattern, address)

(* FuzzyMatchParse looks for characters that are no hexadecimal digits first *)
(* and takes ":" and "." for such: it never finds that it has an address,    *)
(* and checks none.                                                          *)
LooksLikeAddress(pattern) == FALSE
FuzzyMatchParse(pattern) ==
    \/ ~LooksLikeAddress(pattern)
    \/ pattern.kind = "mask" => pattern.mask \in 8..30

---------------------------------------------------------------------------
(* HostRange(base, from-to) *)

FuzzyHostParse(args) == Len(args) = 2 /\ DOMAIN args[2] = {"from", "to"}
(* The number at the end of the name; if it is within the range, the name of *)
(* the host is cut at its first digit, for good, to compare what is before.  *)
Extracted(args, host) ==
    /\ host.number # <<>>
    /\ host.number[1] \in args[2].from..args[2].to
FuzzyHostMatch(args, host) == Extracted(args, host) /\ host.base = args[1]
HostAfter(args, host) ==
    IF Extracted(args, host) THEN [host EXCEPT !.number = <<>>] ELSE host
=============================================================================
