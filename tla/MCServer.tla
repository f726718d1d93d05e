----------------------------- MODULE MCServer -----------------------------
(* An instance of Server for TLC: two hosts, two connections of which one *)
(* is answered at a time, and a second policy that takes back a grant and   *)
(* lets a host have several connections.                                    *)
EXTENDS Server

CONSTANTS h1, h2

Hosts == {h1, h2}
Files == {"run", "conf"}
Paths == {"run", "dir", "dirt"}
IsInside == {<<"run", "run">>, <<"dir", "conf">>}
IsPrefixed == IsInside \cup {<<"dirt", "conf">>}
ThereAre == {"run", "conf", "dir"}
Allow(p, hs, enc) == [path |-> p, hosts |-> hs, encrypt |-> enc]
Policies ==
    << [admit |-> <<Allow("dirt", {}, FALSE), Allow("dir", Hosts, FALSE),
                    Allow("run", {h1}, FALSE)>>,
        deny |-> <<>>, only |-> {}, attackers |-> {}, multi |-> {h1},
        skip |-> {}, trust |-> {h1}],
       [admit |-> <<Allow("dir", Hosts, TRUE)>>,
        deny |-> <<Allow("dirt", {h1}, FALSE)>>,
        only |-> {}, attackers |-> {h2}, multi |-> {}, skip |-> {}, trust |-> {}] >>

(* Bounds: an entry grows old while nobody has shown who he is, the policy  *)
(* is edited while nobody was turned away, and not both.                     *)
OneOfTwo ==
    /\ clock' = 0 \/ (file' = 1 /\ \A c \in Conn : auth'[c] = {})
    /\ file' = 1 \/ row' = 0
BoundedSpec == Init /\ [][Next /\ OneOfTwo]_vars /\ Fairness
=============================================================================
