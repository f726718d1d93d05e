------------------------------ MODULE MCAgent ------------------------------
(* Instances of Agent for TLC: three promises in every configuration, the  *)
(* first of which may define the class that the second waits for, while    *)
(* the third belongs to update.conf.                                       *)
EXTENDS Agent

Classes == {"c1", "c2"}

Any == [class |-> "any", neg |-> FALSE]
Is(c) == [class |-> c, neg |-> FALSE]
Not(c) == [class |-> c, neg |-> TRUE]

P(kind, scope, guards, defines) ==
    [kind |-> kind, scope |-> scope, guards |-> guards, defines |-> defines,
     elsedef |-> {"c2"}]

Act(name, adds, guard) == [name |-> name, adds |-> adds, guard |-> guard]

Choices == [first : {"script", "copy"}, second : Kind,
            update : {"script", "tidy", "interface"},
            two : BOOLEAN, resolve : BOOLEAN, temp : SUBSET {"c2"},
            module : BOOLEAN]

\* The main sequence comes to the promise that waits before the one that
\* defines its class, so that only pass 2 can carry it out.
Configure(x) ==
    [promises |->
        <<P(x.first, "main", {Any}, {"c1"}),
          P(x.second, "main",
            {Is("c1")} \cup (IF x.two THEN {Not("c2")} ELSE {}), {}),
          P(x.update, "update", {Is("c2")}, {"c1"})>>,
     actionseq |->
        [update |-> <<Act(x.update, {"c2"}, Any)>> \o
                    (IF x.resolve THEN <<Act("resolve", {"c1"}, Any)>>
                                  ELSE <<>>),
         main |-> <<Act(x.second, x.temp, Any), Act(x.update, {}, Any)>> \o
                  (IF x.module THEN <<Act("module", {"c2"}, Any),
                                      Act("mount", {}, Any)>>
                               ELSE <<>>) \o
                  <<Act(x.first, {}, Not("c2"))>>],
     groups |-> [update |-> {"c1", "c2"}, main |-> {}],
     avoid |-> IF x.two THEN {"mount"} ELSE {}]

MCPolicies == [x \in Choices |-> Configure(x)]
=============================================================================
