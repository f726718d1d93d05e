----------------------------- MODULE MCDecisions -----------------------------
(* An instance of Decisions for TLC: expressions of up to three names,       *)
(* versions of up to two segments, patterns of every kind around the         *)
(* addresses they are tried on, questions about three hosts, lists of up to  *)
(* five items, mode strings of up to two directives, and strings of up to    *)
(* three variables of up to three values.                                    *)
EXTENDS Decisions

(* One class that is set, two the policy may define, and one it may not.     *)
Names == {Name(n) : n \in {"set", "may", "might", "never"}}
Literals == Names \cup {Not(n) : n \in Names}
Pairs == {Both(x, y) : x \in Literals, y \in Literals}
         \cup {Either(x, y) : x \in Literals, y \in Literals}
Inner2 == Pairs \cup {Not(x) : x \in Pairs}
Expressions3 ==
    Literals \cup Inner2 \cup {Both(x, y) : x \in Literals, y \in Inner2}
    \cup {Either(x, y) : x \in Literals, y \in Inner2}
    \cup {Both(x, Name("set")) : x \in Inner2}
    \cup {Both(Either(Name("set"), x), Either(y, Name("never"))) :
             x \in Literals, y \in Literals}
Known == {[heap |-> {"set"}, added |-> more, installable |-> {"may", "might"}, negated |-> {}] :
             more \in {{}, {"may"}}}
         \cup {[heap |-> {"set"}, added |-> {"may"}, installable |-> {"may", "might"},
                negated |-> {"may"}]}
OnClasses == [about : {"class"}, x : Expressions3, classes : Known]

(* 0, 1, 01, 3, 10 and a, c, ab. *)
Segments == {<<48>>, <<49>>, <<48, 49>>, <<51>>, <<49, 48>>, <<97>>, <<99>>, <<97, 98>>}
SomeVersions == {<<s>> : s \in Segments} \cup {<< <<49>>, s>> : s \in {<<48>>, <<51>>, <<97>>}}
OfPackage(epochs, releases) ==
    [epoch : epochs, version : SomeVersions, release : releases]
Release1 == << <<49>> >>
Release2 == << <<50>> >>
Few2 == OfPackage({<<>>}, {Release1})
OnPackages ==
    [about : {"package"}, build : {"sign", "difference"},
     package : [manager : {"rpm"}, known : {TRUE},
                installed : {{e} : e \in OfPackage({<<0>>, <<1>>}, {Release1, Release2})},
                wanted : {<<w>> : w \in [epoch : {<<>>, <<1>>}, release : {<<>>, Release1},
                                        version : {<< <<49>> >>, << <<49>>, <<48>> >>, << <<51>> >>, << <<97>> >>}]},
                cmp : {"eq", "gt", "le"}]
               \cup [manager : {"rpm", "dpkg"}, known : BOOLEAN,
                     installed : {{}} \cup {{e, f} : e \in Few2, f \in Few2},
                     wanted : {<<>>} \cup {<<w>> : w \in Few2},
                     cmp : {"lt", "ge", "ne"}]]

Octet == {0, 9, 10, 100, 127, 128, 255}
Addresses4 == {<<10, 0, a4, b4>> : a4 \in Octet, b4 \in Octet}
FromTo(from, to) == [from |-> from, to |-> to]
Span(parts) == [kind |-> "range", parts |-> parts]
Mask(address, mask) == [kind |-> "mask", address |-> address, mask |-> mask]
Patterns4 ==
    {Mask(<<10, 0, 127, 9>>, m) : m \in {0, 8, 15, 16, 17, 23, 24, 30, 31, 32}}
    \cup {Span(<<FromTo(10, 10), FromTo(0, 5), FromTo(f, t), FromTo(9, 128)>>) :
             f \in {0, 9, 10}, t \in {10, 127}}
    \cup {[kind |-> "beginning", octets |-> <<10, 0, 128, 255>>, digits |-> <<>>]}
Group(n) == <<n>>
Address6(last) == [i \in 1..8 |-> IF i = 8 THEN last ELSE Group(i)]
Patterns6 ==
    {Mask(Address6(<<1, 0>>), m) : m \in {8, 64, 120, 128}}
    \cup {Span([i \in 1..8 |-> IF i = 8 THEN FromTo(<<1, 0>>, <<1, 15>>)
                               ELSE FromTo(Group(i), Group(i))])}
OnAddresses ==
    [about : {"address"}, list : {{p, q} : p \in Patterns4, q \in Patterns4} \cup {{}},
     address : Addresses4]
    \cup [about : {"address"}, list : {{p, q} : p \in Patterns6, q \in Patterns6},
          address : {Address6(g) : g \in {<<1>>, <<15>>, <<1, 1>>, <<1, 15>>, <<2, 0>>,
                                         <<1, 1, 0>>}}]

OnHosts == [about : {"host"},
            args : {<<"web">>} \cup {<<b4, r>> : b4 \in {"web", "db"},
                       r \in {FromTo(1, 5), FromTo(3, 3), [from |-> 1]}}]
OnLists ==
    [about : {"list"},
     items : UNION {{[i \in 1..n |-> [name |-> f[i], counter |-> f[n + 1 - i], at |-> i]] :
                        f \in [1..n -> 1..4]} : n \in 0..5}]
OfLetters(who, actions, what) ==
    [is : {"letters"}, who : who, action : actions, what : what]
Numbers == [is : {"number"}, action : {"="},
            bits : {{}, UserBits \cup {"gr", "or"}, AllBits \ {"setuid", "setgid", "sticky"}}]
Directives == OfLetters({<<"u">>, <<"g", "o">>, <<"a">>, <<>>}, {"+", "-", "="},
                        {<<"r">>, <<"w", "x">>, <<"s">>, <<"r", "t">>})
              \cup Numbers
OnModes == [about : {"mode"},
            directives : {<<d>> : d \in Directives} \cup {<<d, e>> : d, e \in Directives},
            mode : {{}, {"ur", "uw", "gr", "setuid"}, AllBits}]
Columns == {<<>>, <<"a">>, <<"a", "b">>, <<"a", "b", "c">>}
Strings == {<<>>} \cup UNION {[1..n -> Columns] : n \in 1..3}
NoQuestion == [about |-> "address", list |-> {}, address |-> <<10, 0, 0, 0>>]
SomeHosts == [base : {"web"}, number : {<<>>, <<3>>, <<7>>}]
NoDecision == /\ question = NoQuestion /\ hostname = [base |-> "web", number |-> <<3>>]
              /\ binserver = hostname /\ asked = hostname /\ answer = {}
              /\ NoCombinations
=============================================================================
