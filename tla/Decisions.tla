------------------------------ MODULE Decisions ------------------------------
(* What cfagent decides with the algorithms of the modules Expressions,      *)
(* Versions, Addresses, Modes, Sorting and Combinations: whether a promise   *)
(* is for this host and whether it is kept in memory, whether a package is   *)
(* installed as the policy asks, whether an address or the name of the host  *)
(* lies in a range, which mode a file gets, in which order it lists things,  *)
(* and for which values of its variables it keeps a promise.  Each is a      *)
(* function of the question, but for HostRange, which changes the name of    *)
(* the host: questions about it are asked one after the other, and for the   *)
(* values of variables, which are asked for one by one.                      *)
EXTENDS Expressions, Versions, Addresses, Sorting, Modes, Combinations

CONSTANTS
    ClassQuestions,     \* [about : {"class"}, x, classes]
    PackageQuestions,   \* [about : {"package"}, package, build]
    AddressQuestions,   \* [about : {"address"}, list, address]
    HostQuestions,      \* [about : {"host"}, args]
    ListQuestions,      \* [about : {"list"}, items], at: the place of an item
    ModeQuestions,      \* [about : {"mode"}, directives, mode]
    HostNames           \* [base, number]

VARIABLES
    question,
    hostname,   \* of this host
    binserver,  \* g_vdefaultbinserver.name
    asked,      \* what that was when the question was asked
    answer      \* {} or what the agent decided

decisionVars == <<question, hostname, binserver, asked, answer, combinationVars>>
NoCombinations == /\ ilist = <<>> /\ current = <<>> /\ rounds = <<>>
                  /\ returned = <<>> /\ null = TRUE

DecisionsInit ==
    /\ \/ question \in ClassQuestions \/ question \in PackageQuestions
       \/ question \in AddressQuestions \/ question \in HostQuestions
       \/ question \in ListQuestions \/ question \in ModeQuestions
       \/ question = [about |-> "variables"]
    /\ hostname \in IF question.about = "host" THEN HostNames
               ELSE {CHOOSE h \in HostNames : TRUE}
    /\ binserver = hostname /\ asked = hostname
    /\ answer = {}
    /\ IF question.about = "variables" THEN CombinationsInit ELSE NoCombinations

Answers(value) == answer' = {value}
DecideClass ==
    /\ question.about = "class"
    /\ LET s == Written(question.x)
       IN  Answers([kept |-> IsInstallable(s, question.classes),
                    defined |-> IsDefinedClass(s, question.classes)])
    /\ UNCHANGED binserver
DecidePackage ==
    /\ question.about = "package"
    /\ Answers(CheckPackages(question.package, question.build))
    /\ UNCHANGED binserver
(* HandleIPRange, and the lists of cfservd. *)
DecideAddress ==
    /\ question.about = "address"
    /\ Answers(/\ \A pattern \in question.list : FuzzyMatchParse(pattern)
               /\ IsFuzzyItemIn(question.list, question.address))
    /\ UNCHANGED binserver
HandleHostRange ==
    /\ question.about = "host"
    /\ IF FuzzyHostParse(question.args)
       THEN /\ Answers(FuzzyHostMatch(question.args, binserver))
            /\ binserver' = HostAfter(question.args, binserver)
       ELSE Answers(FALSE) /\ UNCHANGED binserver
SortLists ==
    /\ question.about = "list"
    /\ Answers([names |-> SortItemListNames(question.items),
                counters |-> SortItemListCounters(question.items),
                heap |-> ListDefinedClasses(question.items)])
    /\ UNCHANGED binserver
(* What a directive is written as, the mode it is parsed to, and the mode a  *)
(* file then gets.                                                           *)
Directive(d) ==
    IF d.is = "number" THEN <<Number(d.bits)>>
    ELSE [i \in DOMAIN d.who |-> LetterOf(d.who[i])] \o <<Action(d.action)>>
         \o [i \in DOMAIN d.what |-> LetterFor(d.what[i])]
DecideMode ==
    /\ question.about = "mode"
    /\ LET directives == [i \in DOMAIN question.directives |->
                             Directive(question.directives[i])]
           masks == ParseModeString(FoldLeft(LAMBDA s, d : s \o <<Comma>> \o d,
                                             Head(directives), Tail(directives)))
       IN  Answers([error |-> masks.error, mode |-> NewMode(question.mode, masks)])
    /\ UNCHANGED binserver
Decide ==
    /\ answer = {}
    /\ DecideClass \/ DecidePackage \/ DecideAddress \/ HandleHostRange
       \/ SortLists \/ DecideMode
    /\ UNCHANGED <<question, hostname, asked, combinationVars>>
AskAgain ==
    /\ answer # {} /\ question.about = "host"
    /\ question' \in HostQuestions
    /\ asked' = binserver /\ answer' = {}
    /\ UNCHANGED <<hostname, binserver, combinationVars>>
NextValue ==
    /\ question.about = "variables" /\ Get2DListEnt
    /\ UNCHANGED <<question, hostname, binserver, asked, answer>>

DecisionsNext == Decide \/ AskAgain \/ NextValue
DecisionsSpec == DecisionsInit /\ [][DecisionsNext]_decisionVars

---------------------------------------------------------------------------
(* Properties *)

Answered(about) == answer # {} /\ question.about = about
Answer == CHOOSE a \in answer : TRUE

(* A promise that some run of the agent could come to: its classes "COULD    *)
(* become true in the course of the execution" (eval.c:486).                 *)
MayHold(x, classes) ==
    \E more \in SUBSET classes.installable : Holds(x, classes.added \cup more, classes)

(* What eval.c decides as it should: an expression has the value its         *)
(* operators give it, and a promise that may come to hold is kept, if the    *)
(* classes the policy may define are all negated in it or all not.           *)
OneWay(x, names) ==
    \E negated \in BOOLEAN : \A n \in names : <<n, negated>> \notin Signs(x, FALSE)
ClassesEvaluate ==
    Answered("class") =>
        LET x == question.x
            known == question.classes
        IN  /\ Answer.defined = Holds(x, known.added, known)
            /\ OneWay(x, known.installable) /\ MayHold(x, known) => Answer.kept

(* What rpmvercmp decides as it should: segments of one kind meet where the  *)
(* versions differ, and strcmp says 1 or -1.                                 *)
Decided(a, b, build) ==
    LET differing == {i \in Common(a, b) : Rank(a[i]) # Rank(b[i])}
        i == Min(differing)
    IN  differing # {} => /\ IsNumber(a[i]) = IsNumber(b[i])
                          /\ CompareSegments(a[i], b[i], build) \in {-1, 1}
EachDecided(installed, wanted, build) ==
    /\ Decided(installed.version, wanted.version, build)
    /\ wanted.release # <<>> => Decided(installed.release, wanted.release, build)
Found(p) == \E evr \in p.installed : Satisfies(p.cmp, Order(evr, p.wanted[1]))
(* A package that rpm has is found if it is of the version asked for, unless *)
(* its epoch, version and release differ in different directions.            *)
PackagesFound ==
    LET p == question.package
    IN  /\ Answered("package") /\ p.manager = "rpm" /\ p.wanted # <<>>
        /\ \A evr \in p.installed :
              /\ EachDecided(evr, p.wanted[1], question.build)
              /\ Cardinality({-1, 1} \cap ToSet(Orders(evr, p.wanted[1]))) < 2
        => Answer = IF Found(p) THEN "define" ELSE "elsedefine"

(* An address is found in a list if it lies in one of its networks or        *)
(* ranges, or is the one that is listed.  Of an address of IPv6 this is so   *)
(* only if its groups have no letters where the pattern has a single group,  *)
(* and if it is not the first of a range.                                    *)
Bits(octets) ==
    [i \in 1..(8 * Len(octets)) |->
        (octets[(i + 7) \div 8] \div 2 ^ (7 - ((i - 1) % 8))) % 2]
Octets(address) ==
    IF Len(address) = 4 THEN address ELSE [i \in 1..16 |-> Byte(address, i)]
Lies(pattern, address) ==
    CASE pattern.kind = "beginning" -> pattern.octets = address
      [] pattern.kind = "mask" ->
            \A i \in 1..pattern.mask :
                Bits(Octets(pattern.address))[i] = Bits(Octets(address))[i]
      [] pattern.kind = "range" ->
            \A i \in DOMAIN address :
                IF Len(address) = 4
                THEN pattern.parts[i].from <= address[i] /\ address[i] <= pattern.parts[i].to
                ELSE /\ Hex(pattern.parts[i].from) <= Hex(address[i])
                     /\ Hex(address[i]) <= Hex(pattern.parts[i].to)
AddressesFound ==
    Answered("address") =>
        Answer = \E pattern \in question.list : Lies(pattern, question.address)

(* HostRange is true of the hosts it names, until it has cut the name.       *)
HostRangeHolds ==
    Answered("host") /\ asked = hostname =>
        LET args == question.args
        IN  Answer = (/\ FuzzyHostParse(args) /\ hostname.base = args[1]
                      /\ \E n \in ToSet(hostname.number) : n \in args[2].from..args[2].to)

(* The sorted lists have the items of the list, in order; of equal items the *)
(* names keep the order they had and the counters have the other one.  What  *)
(* -v leaves in the heap are the classes that do not come before its first.  *)
InOrder(sorted, Before(_, _)) ==
    \A j \in DOMAIN sorted : \A i \in 1..(j - 1) : Before(sorted[i], sorted[j])
ListsSorted ==
    Answered("list") =>
        LET items == question.items
        IN  /\ \A sorted \in {Answer.names, Answer.counters} :
                  Len(sorted) = Len(items) /\ ToSet(sorted) = ToSet(items)
            /\ InOrder(Answer.names,
                   LAMBDA x, y : \/ x.name < y.name
                                 \/ x.name = y.name /\ x.at < y.at)
            /\ InOrder(Answer.counters,
                   LAMBDA x, y : \/ x.counter > y.counter
                                 \/ x.counter = y.counter /\ x.at > y.at)
            /\ IsInjective([i \in DOMAIN items |-> items[i].name]) =>
                  ToSet(Answer.heap) = {x \in ToSet(items) : x.name >= items[1].name}

(* A file gets the mode it would if the directives were carried out in turn, *)
(* unless one adds what an earlier one takes away: that stays away.  Without *)
(* a letter for whom only the sticky bit is meant.  A number has a meaning   *)
(* only in the first directive.                                              *)
Affected(d) == IF d.is = "number" THEN AllBits ELSE UNION {Who[c] : c \in ToSet(d.who)}
Meant(d) == IF d.is = "number" THEN d.bits
            ELSE UNION {IF c = "t" THEN Which[c] ELSE Which[c] \cap Affected(d) :
                           c \in ToSet(d.what)}
CarryOut(mode, d) == CASE d.action = "+" -> mode \cup Meant(d)
                       [] d.action = "-" -> mode \ Meant(d)
                       [] d.action = "=" -> (mode \ Affected(d)) \cup Meant(d)
Takes(d) == CASE d.action = "+" -> {}
              [] d.action = "-" -> Meant(d)
              [] d.action = "=" -> Affected(d) \ Meant(d)
ModesCarriedOut ==
    Answered("mode") =>
        LET ds == question.directives
        IN  /\ Answer.error = \E i \in 2..Len(ds) : ds[i].is = "number"
            /\ \/ Answer.error
               \/ \E j \in DOMAIN ds : \E i \in 1..(j - 1) :
                     ds[j].action # "-" /\ Meant(ds[j]) \cap Takes(ds[i]) # {}
               \/ Answer.mode = FoldLeft(CarryOut, question.mode, ds)

DecidesAsDefined ==
    /\ ClassesEvaluate /\ PackagesFound /\ AddressesFound /\ HostRangeHolds
    /\ ListsSorted /\ ModesCarriedOut /\ CombinationsOnce
=============================================================================
